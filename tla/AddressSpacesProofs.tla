------------------------ MODULE AddressSpacesProofs ------------------------
(***************************************************************************)
(* Proofs about AddressSpaces, for any number of pages, of words in a page *)
(* and of process slots: the types, that directories, tables and pages of  *)
(* the live processes and the free list have no page in common, that fork  *)
(* copies what is its caller's, that no process sees what the forks, exits *)
(* and stores of another write, and that the memory code implements        *)
(* PageOwners.  What an execve writes keeps the types; that a confined one *)
(* leaves the other processes alone is model-checked only.                 *)
(*                                                                         *)
(* In this order: sequences; the free list; words and pages; the loops of  *)
(* free; address spaces and the invariant; fork, exit, store, execve; the  *)
(* theorems.                                                               *)
(***************************************************************************)
EXTENDS AddressSpaces, FiniteSetTheorems, WellFoundedInduction, TLAPS

-----------------------------------------------------------------------------
(***************************************************************************)
(* A set of numbers has a least member, by well-foundedness.               *)
(***************************************************************************)
LEMMA LeastNumber ==
    ASSUME NEW S \in SUBSET Nat, S # {}
    PROVE  \E x \in S : \A y \in S : x <= y
  <1>1. PICK x \in S : \A y \in S : ~ (<<y, x>> \in OpToRel(<, Nat))
    BY NatLessThanWellFounded, WFMin, Zenon
  <1>2. \A y \in S : x <= y
    <2> TAKE y \in S
    <2>1. <<y, x>> \notin OpToRel(<, Nat)
      BY <1>1
    <2>2. ~(y < x)
      BY <2>1 DEF OpToRel
    <2> QED
      BY <2>2
  <1> QED
    BY <1>2

(***************************************************************************)
(* Steps from 0 to n, as a set that is closed under them.                  *)
(***************************************************************************)
LEMMA UpTo ==
    ASSUME NEW n \in Nat, NEW S, 0 \in S,
           \A k \in 1 .. n : k - 1 \in S => k \in S
    PROVE  \A k \in 0 .. n : k \in S
  <1> DEFINE Bad == {k \in 0 .. n : k \notin S}
  <1>1. SUFFICES ASSUME Bad # {} PROVE FALSE
    OBVIOUS
  <1>2. Bad \in SUBSET Nat
    OBVIOUS
  <1>3. PICK k \in Bad : \A y \in Bad : k <= y
    BY <1>1, <1>2, LeastNumber
  <1>4. k \in 1 .. n /\ k - 1 \in 0 .. n /\ k - 1 \notin Bad
    BY <1>3
  <1> QED
    BY <1>3, <1>4

(***************************************************************************)
(* A function defined by recursion over 0 .. n exists, which is what makes *)
(* the CHOOSE behind such a definition mean its equation. G is the step:   *)
(* from value and index to the next value.                                 *)
(***************************************************************************)
Iteration(G, x, n, f) ==
    f = [k \in 0 .. n |-> IF k = 0 THEN x ELSE G[f[k - 1]][k - 1]]

LEMMA IterationExists ==
    ASSUME NEW G, NEW x, NEW n \in Nat
    PROVE  \E f : Iteration(G, x, n, f)
  <1> DEFINE Bad == {m \in Nat : ~ \E f : Iteration(G, x, m, f)}
  <1>1. SUFFICES ASSUME Bad # {} PROVE FALSE
    OBVIOUS
  <1>2. PICK m \in Bad : \A y \in Bad : m <= y
    BY <1>1, LeastNumber
  <1>3. CASE m = 0
    <2> DEFINE f == [k \in 0 .. 0 |-> x]
    <2>1. Iteration(G, x, 0, f)
      BY DEF Iteration
    <2> QED
      BY <1>3, <2>1
  <1>4. CASE m # 0
    <2>1. m - 1 \in Nat /\ m - 1 \notin Bad
      BY <1>2, <1>4
    <2>2. PICK g : Iteration(G, x, m - 1, g)
      BY <2>1
    <2> DEFINE f == [k \in 0 .. m |-> IF k = m THEN G[g[m - 1]][m - 1]
                                      ELSE g[k]]
    <2>3. Iteration(G, x, m, f)
      <3>1. ASSUME NEW k \in 0 .. m
            PROVE  f[k] = IF k = 0 THEN x ELSE G[f[k - 1]][k - 1]
        <4>1. \A i \in 0 .. m - 1 : g[i] = IF i = 0 THEN x
                                           ELSE G[g[i - 1]][i - 1]
          BY <2>2, Zenon DEF Iteration
        <4> QED
          BY <4>1, <1>4
      <3> HIDE DEF f
      <3>2. [k \in 0 .. m |-> f[k]] =
              [k \in 0 .. m |-> IF k = 0 THEN x ELSE G[f[k - 1]][k - 1]]
        BY <3>1
      <3>3. f = [k \in 0 .. m |-> f[k]]
        BY DEF f
      <3> QED
        BY <3>2, <3>3 DEF Iteration
    <2> QED
      BY <2>3, <1>2
  <1> QED
    BY <1>3, <1>4

(***************************************************************************)
(* The assumptions on the constants, and what they say about pages and     *)
(* words.                                                                  *)
(***************************************************************************)
LEMMA Sizes ==
    /\ PAGES \in Nat /\ 3 < PAGES /\ WORDS \in Nat /\ 2 <= WORDS
    /\ WORDS <= PAGES /\ Procs \subseteq Nat /\ 0 \in Procs
    /\ Stored \subseteq Nat
    /\ Top \in Words /\ Top # 0 /\ 0 \in Words /\ Words \subseteq Nat
    /\ Words \subseteq Pages /\ Pages \subseteq Nat
    /\ NoPage \notin Pages /\ NoPage \notin Nat
  BY AddressSpacesAssumption DEF Top, Words, Pages, NoPage

-----------------------------------------------------------------------------
(***************************************************************************)
(* What ListFrom goes through: pages, and NoPage behind the last.          *)
(***************************************************************************)
Lists == Pages \cup {NoPage}
NextIn(mem, q) == IF q \in Ends THEN NoPage ELSE LinkIn(mem, q)

LEMMA NextInList ==
    ASSUME NEW mem, NEW q
    PROVE  NextIn(mem, q) \in Lists
  BY DEF NextIn, LinkIn, Lists

(***************************************************************************)
(* ListFrom is the list the first words of the pages thread, and the only  *)
(* such function.                                                          *)
(***************************************************************************)
LEMMA ListIs ==
    ASSUME NEW m, m.head \in Lists
    PROVE  /\ ListFrom(m)[0] = m.head
           /\ \A k \in 0 .. PAGES : ListFrom(m)[k] \in Lists
           /\ \A k \in 1 .. PAGES :
                ListFrom(m)[k] = NextIn(m.mem, ListFrom(m)[k - 1])
  <1> DEFINE after == [p \in Pages \cup {NoPage} |->
                          IF p \in Ends THEN NoPage ELSE LinkIn(m.mem, p)]
             L == ListFrom(m)
  <1>1. \A p \in Lists : after[p] = NextIn(m.mem, p)
    BY DEF Lists, NextIn
  <1>2. \E f : f = [k \in 0 .. PAGES |-> IF k = 0 THEN m.head
                                         ELSE after[f[k - 1]]]
    <2> DEFINE G == [p \in Lists |-> [i \in Nat |-> after[p]]]
    <2>1. PICK f : Iteration(G, m.head, PAGES, f)
      BY Sizes, IterationExists
    <2> HIDE DEF after
    <2>2. f = [k \in 0 .. PAGES |-> IF k = 0 THEN m.head
                                    ELSE G[f[k - 1]][k - 1]]
      BY <2>1 DEF Iteration
    <2>3. \A k \in 0 .. PAGES : f[k] = IF k = 0 THEN m.head
                                       ELSE G[f[k - 1]][k - 1]
      BY <2>2
    <2> DEFINE Good == {k \in 0 .. PAGES : f[k] \in Lists}
    <2>4. \A k \in 0 .. PAGES : k \in Good
      <3>1. 0 \in Good
        BY <2>3, Sizes
      <3>2. ASSUME NEW k \in 1 .. PAGES, k - 1 \in Good PROVE k \in Good
        <4>1. k \in 0 .. PAGES /\ k # 0 /\ k - 1 \in Nat /\ f[k - 1] \in Lists
          BY <3>2, Sizes
        <4>2. f[k] = after[f[k - 1]]
          BY <2>3, <4>1
        <4> QED
          BY <1>1, <4>1, <4>2, NextInList
      <3> HIDE DEF Good
      <3> QED
        BY <3>1, <3>2, UpTo, Sizes
    <2>5. \A k \in 0 .. PAGES :
            (IF k = 0 THEN m.head ELSE G[f[k - 1]][k - 1]) =
            (IF k = 0 THEN m.head ELSE after[f[k - 1]])
      <3>1. \A k \in 0 .. PAGES : k # 0 => f[k - 1] \in Lists /\ k - 1 \in Nat
        BY <2>4, Sizes
      <3> QED
        BY <3>1
    <2>6. f = [k \in 0 .. PAGES |-> IF k = 0 THEN m.head ELSE after[f[k - 1]]]
      BY <2>2, <2>5
    <2> QED
      BY <2>6
  <1>3. L = [k \in 0 .. PAGES |-> IF k = 0 THEN m.head ELSE after[L[k - 1]]]
    BY <1>2, Zenon DEF ListFrom
  <1> HIDE DEF L, after
  <1>4. \A k \in 0 .. PAGES : L[k] = IF k = 0 THEN m.head ELSE after[L[k - 1]]
    BY <1>3
  <1>5. L[0] = m.head
    BY <1>4, Sizes
  <1> DEFINE Good == {k \in 0 .. PAGES : L[k] \in Lists}
  <1>6. \A k \in 0 .. PAGES : k \in Good
    <2>1. 0 \in Good
      BY <1>5, Sizes
    <2>2. ASSUME NEW k \in 1 .. PAGES, k - 1 \in Good PROVE k \in Good
      <3>1. k \in 0 .. PAGES /\ k # 0 /\ L[k - 1] \in Lists
        BY <2>2, Sizes
      <3> QED
        BY <1>1, <1>4, <3>1, NextInList
    <2> HIDE DEF Good
    <2> QED
      BY <2>1, <2>2, UpTo, Sizes
  <1>7. ASSUME NEW k \in 1 .. PAGES PROVE L[k] = NextIn(m.mem, L[k - 1])
    <2>1. L[k - 1] \in Lists
      BY <1>6, Sizes
    <2> QED
      BY <1>1, <1>4, <2>1, Sizes
  <1> QED
    BY <1>5, <1>6, <1>7 DEF L

LEMMA ListUnique ==
    ASSUME NEW m, m.head \in Lists, NEW f, f[0] = m.head,
           \A k \in 1 .. PAGES : f[k] = NextIn(m.mem, f[k - 1])
    PROVE  \A k \in 0 .. PAGES : ListFrom(m)[k] = f[k]
  <1> DEFINE Same == {k \in 0 .. PAGES : ListFrom(m)[k] = f[k]}
  <1>1. 0 \in Same
    BY ListIs, Sizes
  <1>2. ASSUME NEW k \in 1 .. PAGES, k - 1 \in Same PROVE k \in Same
    <2>1. k \in 0 .. PAGES /\ ListFrom(m)[k - 1] = f[k - 1]
      BY <1>2, Sizes
    <2> QED
      BY <2>1, ListIs
  <1>3. \A k \in 0 .. PAGES : k \in Same
    <2> HIDE DEF Same
    <2> QED
      BY <1>1, <1>2, UpTo, Sizes
  <1> QED
    BY <1>3

(***************************************************************************)
(* The list of m has n pages, none of them twice, and the last page of the *)
(* memory is one of them: what the code takes for its link is never used.  *)
(***************************************************************************)
OnList(m) == {ListFrom(m)[k] : k \in 0 .. PAGES} \ {NoPage}

IsList(m, n) ==
    /\ n \in 0 .. PAGES
    /\ \A k \in 0 .. PAGES : ListFrom(m)[k] = NoPage <=> n <= k
    /\ \A j, k \in 0 .. n - 1 : ListFrom(m)[j] = ListFrom(m)[k] => j = k
    /\ PAGES \in OnList(m)

LEMMA OnListIs ==
    ASSUME NEW m, m.head \in Lists, NEW n, IsList(m, n)
    PROVE  /\ OnList(m) = {ListFrom(m)[k] : k \in 0 .. n - 1}
           /\ OnList(m) \subseteq Pages
           /\ \A k \in 0 .. n - 1 : ListFrom(m)[k] \in Pages
  BY ListIs, Sizes DEF IsList, OnList, Lists

(***************************************************************************)
(* A list without page 0 and page x, both pages, is shorter than PAGES:    *)
(* the pigeonhole that makes room for x at the end of 0 .. PAGES.          *)
(***************************************************************************)
LEMMA ListHasRoom ==
    ASSUME NEW m, m.head \in Lists, NEW n, IsList(m, n), 0 \notin OnList(m),
           NEW x \in Pages \ {0}, x \notin OnList(m)
    PROVE  n + 1 <= PAGES
  <1>1. SUFFICES ASSUME n = PAGES PROVE FALSE
    BY Sizes DEF IsList
  <1> DEFINE f == [k \in 0 .. PAGES |-> IF k = PAGES THEN x
                                        ELSE ListFrom(m)[k]]
             S == 0 .. PAGES
             T == 1 .. PAGES
  <1>2. f \in [S -> T]
    <2>1. ASSUME NEW k \in 0 .. PAGES - 1 PROVE ListFrom(m)[k] \in 1 .. PAGES
      <3>1. ListFrom(m)[k] \in Pages /\ ListFrom(m)[k] \in OnList(m)
        BY <1>1, OnListIs
      <3> QED
        BY <3>1, Sizes DEF Pages
    <2>2. x \in 1 .. PAGES
      BY Sizes DEF Pages
    <2> QED
      BY <2>1, <2>2, Sizes
  <1>3. /\ IsFiniteSet(S) /\ Cardinality(S) = PAGES + 1
        /\ IsFiniteSet(T) /\ Cardinality(T) = PAGES
    <2>1. S = 0 .. PAGES /\ T = 1 .. PAGES
      OBVIOUS
    <2> HIDE DEF S, T
    <2>2. 0 \in Int /\ 1 \in Int /\ PAGES \in Int /\ 0 <= PAGES /\ 1 <= PAGES
      BY Sizes
    <2>3. IsFiniteSet(0 .. PAGES) /\ IsFiniteSet(1 .. PAGES)
      BY <2>2, FS_Interval, Zenon
    <2>4. /\ Cardinality(0 .. PAGES) = IF 0 > PAGES THEN 0 ELSE PAGES - 0 + 1
          /\ Cardinality(1 .. PAGES) = IF 1 > PAGES THEN 0 ELSE PAGES - 1 + 1
      BY <2>2, FS_Interval, Zenon
    <2>5. Cardinality(0 .. PAGES) = PAGES + 1
          /\ Cardinality(1 .. PAGES) = PAGES
      BY <2>2, <2>4
    <2> QED
      BY <2>1, <2>3, <2>5
  <1>4. \A k \in 0 .. PAGES - 1 : f[k] = ListFrom(m)[k] /\ f[k] # x
    <2>1. \A k \in 0 .. PAGES - 1 : ListFrom(m)[k] \in OnList(m)
      BY <1>1, OnListIs
    <2> QED
      BY <2>1, Sizes
  <1>5. f[PAGES] = x
    BY Sizes
  <1>6. Cardinality(T) < Cardinality(S)
    BY <1>3, Sizes
  <1> HIDE DEF f
  <1>7. PICK i, j \in S : i # j /\ f[i] = f[j]
    <2> HIDE DEF S, T
    <2> QED
      BY <1>2, <1>3, <1>6, FS_PigeonHole
  <1> QED
    BY <1>1, <1>4, <1>5, <1>7, Sizes DEF IsList

(***************************************************************************)
(* free_page: a page that was not on the list comes to its front. Nothing  *)
(* but that page's first word may change.                                  *)
(***************************************************************************)
LEMMA ListPush ==
    ASSUME NEW m, m.head \in Lists, NEW n, IsList(m, n), n + 1 <= PAGES,
           NEW x \in Pages \ OnList(m), NEW w, w.head = x,
           LinkIn(w.mem, x) = m.head,
           \A q \in OnList(m) : w.mem[q] = m.mem[q]
    PROVE  IsList(w, n + 1) /\ OnList(w) = OnList(m) \cup {x}
  <1> DEFINE L == ListFrom(m)
             f == [k \in 0 .. PAGES |-> IF k = 0 THEN x ELSE L[k - 1]]
  <1>1. n \in Nat /\ x \notin Ends /\ w.head \in Lists
    BY Sizes DEF IsList, Lists, Ends
  <1>2. \A k \in 0 .. PAGES : ListFrom(w)[k] = f[k]
    <2>1. f[0] = w.head
      BY Sizes
    <2>2. ASSUME NEW k \in 1 .. PAGES PROVE f[k] = NextIn(w.mem, f[k - 1])
      <3>1. CASE k = 1
        BY <1>1, <3>1, ListIs, Sizes DEF NextIn
      <3>2. CASE k # 1
        <4>1. /\ k - 1 \in 1 .. PAGES /\ k - 2 \in 0 .. PAGES
              /\ f[k] = L[k - 1] /\ f[k - 1] = L[k - 2]
          BY <3>2, Sizes
        <4>2. L[k - 1] = NextIn(m.mem, L[k - 2])
          <5>1. k - 1 - 1 = k - 2
            BY <2>2
          <5> QED
            BY <4>1, <5>1, ListIs
        <4>3. L[k - 2] = NoPage \/ L[k - 2] \in OnList(m)
          BY <4>1 DEF OnList
        <4> QED
          BY <4>1, <4>2, <4>3 DEF NextIn, LinkIn, Ends
      <3> QED
        BY <3>1, <3>2
    <2> HIDE DEF f
    <2> QED
      BY <1>1, <2>1, <2>2, ListUnique
  <1>3. \A k \in 0 .. n - 1 : L[k] \in OnList(m) /\ L[k] # x
    BY OnListIs
  <1>4. IsList(w, n + 1)
    <2>1. \A k \in 0 .. PAGES : ListFrom(w)[k] = NoPage <=> n + 1 <= k
      BY <1>1, <1>2, Sizes DEF IsList, Ends
    <2>2. \A j, k \in 0 .. n : ListFrom(w)[j] = ListFrom(w)[k] => j = k
      <3>1. \A k \in 0 .. n : ListFrom(w)[k] = IF k = 0 THEN x ELSE L[k - 1]
        BY <1>1, <1>2, Sizes
      <3>2. \A k \in 1 .. n : L[k - 1] # x
        BY <1>1, <1>3
      <3>3. \A j, k \in 1 .. n : L[j - 1] = L[k - 1] => j = k
        BY <1>1 DEF IsList
      <3> QED
        BY <1>1, <3>1, <3>2, <3>3
    <2>3. PAGES \in OnList(w)
      <3>1. PICK k \in 0 .. n - 1 : PAGES = L[k]
        BY OnListIs DEF IsList
      <3>2. k + 1 \in 0 .. PAGES /\ k + 1 # 0 /\ k + 1 - 1 = k
        BY <1>1, Sizes DEF IsList
      <3>3. f[k + 1] = L[k]
        BY <3>2
      <3>4. ListFrom(w)[k + 1] = PAGES
        BY <1>2, <3>1, <3>2, <3>3
      <3> QED
        BY <3>2, <3>4, Sizes DEF OnList, NoPage
    <2> QED
      BY <1>1, <2>1, <2>2, <2>3, Sizes DEF IsList
  <1>5. OnList(w) = OnList(m) \cup {x}
    <2>1. OnList(w) = {ListFrom(w)[k] : k \in 0 .. n}
      <3>1. n + 1 - 1 = n
        BY <1>1
      <3> QED
        BY <1>1, <1>4, <3>1, OnListIs
    <2>2. OnList(m) = {L[k] : k \in 0 .. n - 1}
      BY OnListIs
    <2>3. \A k \in 0 .. n : ListFrom(w)[k] = IF k = 0 THEN x ELSE L[k - 1]
      BY <1>1, <1>2, Sizes
    <2>4. ASSUME NEW q \in OnList(w) PROVE q \in OnList(m) \cup {x}
      BY <1>1, <2>1, <2>2, <2>3
    <2>5. x \in OnList(w)
      BY <1>1, <2>1, <2>3
    <2>6. ASSUME NEW q \in OnList(m) PROVE q \in OnList(w)
      <3>1. PICK k \in 0 .. n - 1 : q = L[k]
        BY <2>2
      <3>2. k + 1 \in 0 .. n /\ k + 1 # 0 /\ k + 1 - 1 = k
        BY <1>1
      <3>3. ListFrom(w)[k + 1] = q
        BY <2>3, <3>1, <3>2
      <3> QED
        BY <2>1, <3>2, <3>3
    <2> QED
      BY <2>4, <2>5, <2>6
  <1> QED
    BY <1>4, <1>5

-----------------------------------------------------------------------------
(***************************************************************************)
(* copy_process_mem takes one page from the list for each part of the      *)
(* copy, in the order of the parts: the page of a part is the one as far   *)
(* down the list as there are parts before it. These ranks are 0, 1, 2,    *)
(* ... without gap or repetition.                                          *)
(***************************************************************************)
RankIn(S, t) == Cardinality({s \in S : Earlier(s, t)})

LEMMA RankIs ==
    ASSUME NEW S, IsFiniteSet(S), S \subseteq Int \X Int
    PROVE  /\ Cardinality(S) \in Nat
           /\ \A t \in S : RankIn(S, t) \in 0 .. Cardinality(S) - 1
           /\ \A s, t \in S : RankIn(S, s) = RankIn(S, t) => s = t
           /\ \A s, t \in S : Earlier(s, t) => RankIn(S, s) < RankIn(S, t)
           /\ \A k \in 0 .. Cardinality(S) - 1 : \E t \in S : RankIn(S, t) = k
  <1> DEFINE B(t) == {s \in S : Earlier(s, t)}
             N == Cardinality(S)
             r == [t \in S |-> RankIn(S, t)]
             T == 0 .. N - 1
  <1>1. N \in Nat
    BY FS_CardinalityType
  <1>2. ASSUME NEW t \in S
        PROVE  IsFiniteSet(B(t)) /\ RankIn(S, t) \in Nat
               /\ RankIn(S, t) <= N - 1
    <2>1. t \notin B(t)
      BY DEF Earlier
    <2>2. IsFiniteSet(S \ {t}) /\ Cardinality(S \ {t}) = N - 1
      BY FS_RemoveElement
    <2>3. B(t) \in SUBSET (S \ {t})
      BY <2>1
    <2> HIDE DEF B
    <2>4. IsFiniteSet(B(t)) /\ Cardinality(B(t)) <= Cardinality(S \ {t})
      BY <2>2, <2>3, FS_Subset
    <2>5. Cardinality(B(t)) \in Nat
      BY <2>4, FS_CardinalityType
    <2>6. RankIn(S, t) = Cardinality(B(t))
      BY DEF RankIn, B
    <2> QED
      BY <2>2, <2>4, <2>5, <2>6
  <1>3. ASSUME NEW s \in S, NEW t \in S, Earlier(s, t)
        PROVE  RankIn(S, s) < RankIn(S, t)
    <2>1. s \notin B(s)
      BY DEF Earlier
    <2>2. B(s) \cup {s} \subseteq B(t)
      <3>1. ASSUME NEW u \in B(s) PROVE u \in B(t)
        <4>1. u \in Int \X Int /\ s \in Int \X Int /\ t \in Int \X Int
          OBVIOUS
        <4> QED
          BY <1>3, <4>1 DEF Earlier
      <3> QED
        BY <1>3, <3>1
    <2>3. /\ IsFiniteSet(B(s)) /\ IsFiniteSet(B(t))
          /\ RankIn(S, s) \in Nat /\ RankIn(S, t) \in Nat
      BY <1>2
    <2>4. RankIn(S, s) = Cardinality(B(s)) /\ RankIn(S, t) = Cardinality(B(t))
      BY DEF RankIn, B
    <2> HIDE DEF B
    <2>5. Cardinality(B(s) \cup {s}) = Cardinality(B(s)) + 1
      BY <2>1, <2>3, FS_AddElement
    <2>6. Cardinality(B(s) \cup {s}) <= Cardinality(B(t))
      BY <2>2, <2>3, FS_Subset
    <2> QED
      BY <2>3, <2>4, <2>5, <2>6
  <1>4. ASSUME NEW s \in S, NEW t \in S, RankIn(S, s) = RankIn(S, t)
        PROVE  s = t
    <2>1. RankIn(S, s) \in Nat
      BY <1>2
    <2>2. ~Earlier(s, t) /\ ~Earlier(t, s)
      BY <1>3, <1>4, <2>1
    <2>3. s \in Int \X Int /\ t \in Int \X Int
      OBVIOUS
    <2> QED
      BY <2>2, <2>3 DEF Earlier
  <1>5. ASSUME NEW t \in S PROVE RankIn(S, t) \in T
    <2>1. RankIn(S, t) \in Nat /\ RankIn(S, t) <= N - 1
      BY <1>2
    <2> HIDE DEF N
    <2> QED
      BY <1>1, <2>1
  <1>6. r \in [S -> T]
    BY <1>5
  <1>7. IsFiniteSet(T) /\ Cardinality(T) = N
    <2>1. T = 0 .. N - 1
      OBVIOUS
    <2> HIDE DEF T, N
    <2>2. 0 \in Int /\ N - 1 \in Int
      BY <1>1
    <2>3. IsFiniteSet(0 .. N - 1)
      BY <2>2, FS_Interval, Zenon
    <2>4. Cardinality(0 .. N - 1) = IF 0 > N - 1 THEN 0 ELSE N - 1 - 0 + 1
      BY <2>2, FS_Interval, Zenon
    <2> QED
      BY <1>1, <2>1, <2>3, <2>4
  <1>8. r \in Surjection(S, T)
    <2>1. r \in Injection(S, T)
      <3>1. \A s, t \in S : r[s] = r[t] => s = t
        BY <1>4
      <3> HIDE DEF r, T
      <3> QED
        BY <1>6, <3>1 DEF Injection, IsInjective
    <2> HIDE DEF r, T
    <2> QED
      BY <1>7, <2>1, FS_Injection DEF N
  <1>9. ASSUME NEW k \in T PROVE \E t \in S : RankIn(S, t) = k
    <2>1. PICK t \in S : r[t] = k
      <3> HIDE DEF r, T
      <3> QED
        BY <1>8 DEF Surjection
    <2> QED
      BY <2>1
  <1> QED
    BY <1>1, <1>3, <1>4, <1>5, <1>9

-----------------------------------------------------------------------------
(***************************************************************************)
(* The memories: contents of all pages, a head of the list, and whether a  *)
(* page was found.                                                         *)
(***************************************************************************)
MemType == [Pages -> [Words -> Word]]
Memories == [mem : MemType, head : Lists, ok : BOOLEAN]

(***************************************************************************)
(* Links, entries and data are told apart, and entries lead to pages.      *)
(***************************************************************************)
LEMMA WordIs ==
    /\ \A w \in Word : IsEntry(w) => w.val \in Pages
    /\ \A q \in Pages : /\ Link(q) \in Word /\ Entry(q) \in Word
                        /\ ~IsEntry(Link(q)) /\ IsEntry(Entry(q))
                        /\ Entry(q).val = q
    /\ \A v \in Stored \cup {0} : Data(v) \in Word /\ ~IsEntry(Data(v))
    /\ \A v \in Stored \cup {0} : Filled(Data(v)) \in [Words -> Word]
  BY DEF Word, IsEntry, Link, Entry, Data, Filled

LEMMA LinkInIs ==
    ASSUME NEW mem, NEW q
    PROVE  /\ \A p \in Pages : mem[q][0] = Link(p) => LinkIn(mem, q) = p
           /\ \A p : mem[q][0] = Entry(p) => LinkIn(mem, q) = NoPage
           /\ \A v : mem[q][0] = Data(v) => LinkIn(mem, q) = NoPage
  BY DEF LinkIn, Link, Entry, Data

(***************************************************************************)
(* free_page overwrites the first word of the page and nothing else: a     *)
(* directory that is freed keeps its other entries.                        *)
(***************************************************************************)
LEMMA FreePageType ==
    ASSUME NEW m \in Memories, NEW q \in Pages
    PROVE  /\ FreePage(m, q) \in Memories
           /\ FreePage(m, q).head = q
           /\ FreePage(m, q).ok = m.ok
           /\ \A p \in Pages \ {q} : FreePage(m, q).mem[p] = m.mem[p]
           /\ \A j \in Words \ {0} : FreePage(m, q).mem[q][j] = m.mem[q][j]
           /\ ~IsEntry(FreePage(m, q).mem[q][0])
           /\ LinkIn(FreePage(m, q).mem, q) = m.head
  <1> DEFINE w == IF m.head = NoPage THEN Data(0) ELSE Link(m.head)
  <1>1. /\ m.head \in Lists /\ m.ok \in BOOLEAN /\ m.mem \in MemType
        /\ m = [mem |-> m.mem, head |-> m.head, ok |-> m.ok]
    BY DEF Memories
  <1>2. w \in Word /\ ~IsEntry(w)
    BY <1>1, WordIs DEF Lists
  <1>3. m.mem[q] \in [Words -> Word]
    BY <1>1 DEF MemType
  <1> DEFINE page == [m.mem[q] EXCEPT ![0] = w]
             mem  == [m.mem EXCEPT ![q] = page]
  <1>4. page \in [Words -> Word] /\ page[0] = w
        /\ \A j \in Words \ {0} : page[j] = m.mem[q][j]
    <2> HIDE DEF w
    <2> QED
      BY <1>2, <1>3, Sizes
  <1>5. mem \in MemType /\ mem[q] = page
        /\ \A p \in Pages \ {q} : mem[p] = m.mem[p]
    <2> HIDE DEF page
    <2> QED
      BY <1>1, <1>4 DEF MemType
  <1>6. FreePage(m, q) = [mem |-> mem, head |-> q, ok |-> m.ok]
    <2>1. FreePage(m, q) = [m EXCEPT !.mem[q][0] = w, !.head = q]
      BY DEF FreePage
    <2> HIDE DEF w
    <2> QED
      BY <1>1, <2>1
  <1> HIDE DEF page, mem
  <1>7. LinkIn(mem, q) = m.head
    <2>1. mem[q][0] = w
      BY <1>4, <1>5
    <2>2. CASE m.head = NoPage
      BY <2>1, <2>2, LinkInIs
    <2>3. CASE m.head # NoPage
      BY <1>1, <2>1, <2>3, LinkInIs DEF Lists
    <2> QED
      BY <2>2, <2>3
  <1> HIDE DEF w
  <1>8. FreePage(m, q) \in Memories
    BY <1>1, <1>5, <1>6 DEF Memories, Lists
  <1> QED
    BY <1>2, <1>4, <1>5, <1>6, <1>7, <1>8

LEMMA MemoryIs ==
    ASSUME NEW m \in Memories
    PROVE  /\ m = [mem |-> m.mem, head |-> m.head, ok |-> m.ok]
           /\ m.mem \in MemType /\ m.head \in Lists /\ m.ok \in BOOLEAN
           /\ \A q \in Pages : m.mem[q] \in [Words -> Word]
           /\ \A q \in Pages, j \in Words : m.mem[q][j] \in Word
           /\ \A q \in Pages, j \in Words :
                IsEntry(m.mem[q][j]) => m.mem[q][j].val \in Pages
  <1>1. /\ m = [mem |-> m.mem, head |-> m.head, ok |-> m.ok]
        /\ m.mem \in MemType /\ m.head \in Lists /\ m.ok \in BOOLEAN
    BY DEF Memories
  <1>2. \A q \in Pages, j \in Words : m.mem[q][j] \in Word
    BY <1>1 DEF MemType
  <1>3. \A q \in Pages : m.mem[q] \in [Words -> Word]
    BY <1>1 DEF MemType
  <1> QED
    BY <1>1, <1>2, <1>3, WordIs

(***************************************************************************)
(* A whole page replaced.                                                  *)
(***************************************************************************)
Put(m, q, page) == [m EXCEPT !.mem[q] = page]

LEMMA PageReplaced ==
    ASSUME NEW m \in Memories, NEW q \in Pages, NEW page \in [Words -> Word]
    PROVE  /\ Put(m, q, page) \in Memories
           /\ Put(m, q, page).head = m.head /\ Put(m, q, page).ok = m.ok
           /\ Put(m, q, page).mem[q] = page
           /\ \A p \in Pages \ {q} : Put(m, q, page).mem[p] = m.mem[p]
  <1> DEFINE w == Put(m, q, page)
  <1> DEFINE mem == [m.mem EXCEPT ![q] = page]
  <1>1. mem \in MemType /\ mem[q] = page
        /\ \A p \in Pages \ {q} : mem[p] = m.mem[p]
    BY MemoryIs DEF MemType
  <1>2. m = [mem |-> m.mem, head |-> m.head, ok |-> m.ok]
    BY MemoryIs
  <1>3. w = [mem |-> mem, head |-> m.head, ok |-> m.ok]
    BY <1>2 DEF Put
  <1> HIDE DEF mem
  <1>4. w \in Memories
    <2>1. m.head \in Lists /\ m.ok \in BOOLEAN
      BY MemoryIs
    <2> QED
      BY <1>1, <1>3, <2>1 DEF Memories
  <1>5. w.mem = mem /\ w.head = m.head /\ w.ok = m.ok
    BY <1>3
  <1> QED
    BY <1>1, <1>4, <1>5 DEF w

-----------------------------------------------------------------------------
(***************************************************************************)
(* ForEach, and what every step keeps, the loop keeps.                     *)
(***************************************************************************)
Looped(G, m, f) ==
    f = [k \in 0 .. WORDS |-> IF k = 0 THEN m
                              ELSE IF f[k - 1].ok THEN G[f[k - 1]][k - 1]
                              ELSE f[k - 1]]

LEMMA LoopKeeps ==
    ASSUME NEW P, NEW m \in P, NEW G,
           \A d \in P, i \in Words : G[d][i] \in P
    PROVE  \E f : Looped(G, m, f) /\ \A k \in 0 .. WORDS : f[k] \in P
  <1> DEFINE H == [d \in P |-> [i \in Words |-> IF d.ok THEN G[d][i] ELSE d]]
  <1>1. PICK f : Iteration(H, m, WORDS, f)
    BY Sizes, IterationExists
  <1>2. \A d \in P, i \in Words : H[d][i] = IF d.ok THEN G[d][i] ELSE d
    OBVIOUS
  <1> HIDE DEF H
  <1>3. f = [k \in 0 .. WORDS |-> IF k = 0 THEN m ELSE H[f[k - 1]][k - 1]]
    BY <1>1 DEF Iteration
  <1>4. \A k \in 0 .. WORDS : f[k] = IF k = 0 THEN m ELSE H[f[k - 1]][k - 1]
    BY <1>3
  <1> DEFINE S == {k \in 0 .. WORDS : f[k] \in P}
  <1>5. \A k \in 0 .. WORDS : k \in S
    <2>1. 0 \in S
      BY <1>4, Sizes
    <2>2. ASSUME NEW k \in 1 .. WORDS, k - 1 \in S PROVE k \in S
      <3>1. k - 1 \in Words /\ k \in 0 .. WORDS /\ k # 0
        BY Sizes DEF Words
      <3>2. f[k] = H[f[k - 1]][k - 1]
        BY <1>4, <3>1
      <3> QED
        BY <1>2, <2>2, <3>1, <3>2
    <2> HIDE DEF S
    <2> QED
      BY <2>1, <2>2, UpTo, Sizes
  <1>6. ASSUME NEW k \in 0 .. WORDS
        PROVE  (IF k = 0 THEN m ELSE H[f[k - 1]][k - 1])
                 = IF k = 0 THEN m ELSE IF f[k - 1].ok THEN G[f[k - 1]][k - 1]
                                   ELSE f[k - 1]
    <2>1. CASE k = 0
      BY <2>1
    <2>2. CASE k # 0
      <3>1. k - 1 \in Words /\ k - 1 \in 0 .. WORDS
        BY <2>2, Sizes DEF Words
      <3> QED
        BY <1>2, <1>5, <2>2, <3>1
    <2> QED
      BY <2>1, <2>2
  <1>7. Looped(G, m, f)
    BY <1>3, <1>6 DEF Looped
  <1> QED
    BY <1>5, <1>7

(***************************************************************************)
(* The loops of free_process_user_mem.                                     *)
(***************************************************************************)
FreeFrames(m, table) == ForEach(LAMBDA d, j : FreeFrame(d, table, j), m)

LEMMA FreeFramesKeep ==
    ASSUME NEW table, NEW P, NEW m \in P,
           \A d \in P, i \in Words : FreeFrame(d, table, i) \in P
    PROVE  FreeFrames(m, table) \in P
  <1> DEFINE G == [d \in P |-> [i \in Words |-> FreeFrame(d, table, i)]]
             Eq(f) == f = [k \in 0 .. WORDS |-> IF k = 0 THEN m
                                 ELSE IF f[k - 1].ok
                                 THEN FreeFrame(f[k - 1], table, k - 1)
                                 ELSE f[k - 1]]
             A == CHOOSE f : Eq(f)
  <1>1. \A d \in P, i \in Words : G[d][i] = FreeFrame(d, table, i)
    OBVIOUS
  <1> HIDE DEF G
  <1>2. PICK g : Looped(G, m, g) /\ \A k \in 0 .. WORDS : g[k] \in P
    BY <1>1, LoopKeeps
  <1>3. ASSUME NEW k \in 0 .. WORDS
        PROVE  g[k] = IF k = 0 THEN m
                      ELSE IF g[k - 1].ok
                      THEN FreeFrame(g[k - 1], table, k - 1)
                      ELSE g[k - 1]
    <2>1. g[k] = IF k = 0 THEN m
                 ELSE IF g[k - 1].ok THEN G[g[k - 1]][k - 1] ELSE g[k - 1]
      BY <1>2 DEF Looped
    <2>2. k # 0 => k - 1 \in Words /\ k - 1 \in 0 .. WORDS
      BY Sizes DEF Words
    <2> QED
      BY <1>1, <1>2, <2>1, <2>2
  <1>4. Eq(g)
    <2>1. g = [k \in 0 .. WORDS |-> g[k]]
      BY <1>2 DEF Looped
    <2> QED
      BY <1>3, <2>1
  <1>5. Eq(A)
    <2> HIDE DEF Eq
    <2> QED
      BY <1>4, Zenon
  <1>6. FreeFrames(m, table) = A[WORDS]
    BY Zenon DEF ForEach, FreeFrames
  <1> HIDE DEF A
  <1>7. \A k \in 0 .. WORDS :
           A[k] = IF k = 0 THEN m
                  ELSE IF A[k - 1].ok THEN FreeFrame(A[k - 1], table, k - 1)
                  ELSE A[k - 1]
    BY <1>5
  <1> HIDE DEF Eq
  <1> DEFINE S == {k \in 0 .. WORDS : A[k] = g[k]}
  <1>8. \A k \in 0 .. WORDS : k \in S
    <2>1. 0 \in S
      BY <1>3, <1>7, Sizes
    <2>2. ASSUME NEW k \in 1 .. WORDS, k - 1 \in S PROVE k \in S
      BY <1>3, <1>7, <2>2
    <2> HIDE DEF S
    <2> QED
      BY <2>1, <2>2, UpTo, Sizes
  <1>9. A[WORDS] \in P
    BY <1>2, <1>8, Sizes
  <1> QED
    BY <1>6, <1>9, Zenon

LEMMA FreeTablesKeep ==
    ASSUME NEW dir, NEW P, NEW m \in P,
           \A d \in P, i \in Words : FreeTable(d, dir, i) \in P
    PROVE  FreeUserMem(m, dir) \in P
  <1> DEFINE G == [d \in P |-> [i \in Words |-> FreeTable(d, dir, i)]]
             Eq(f) == f = [k \in 0 .. WORDS |-> IF k = 0 THEN m
                                 ELSE IF f[k - 1].ok
                                 THEN FreeTable(f[k - 1], dir, k - 1)
                                 ELSE f[k - 1]]
             A == CHOOSE f : Eq(f)
  <1>1. \A d \in P, i \in Words : G[d][i] = FreeTable(d, dir, i)
    OBVIOUS
  <1> HIDE DEF G
  <1>2. PICK g : Looped(G, m, g) /\ \A k \in 0 .. WORDS : g[k] \in P
    BY <1>1, LoopKeeps
  <1>3. ASSUME NEW k \in 0 .. WORDS
        PROVE  g[k] = IF k = 0 THEN m
                      ELSE IF g[k - 1].ok THEN FreeTable(g[k - 1], dir, k - 1)
                      ELSE g[k - 1]
    <2>1. g[k] = IF k = 0 THEN m
                 ELSE IF g[k - 1].ok THEN G[g[k - 1]][k - 1] ELSE g[k - 1]
      BY <1>2 DEF Looped
    <2>2. k # 0 => k - 1 \in Words /\ k - 1 \in 0 .. WORDS
      BY Sizes DEF Words
    <2> QED
      BY <1>1, <1>2, <2>1, <2>2
  <1>4. Eq(g)
    <2>1. g = [k \in 0 .. WORDS |-> g[k]]
      BY <1>2 DEF Looped
    <2> QED
      BY <1>3, <2>1
  <1>5. Eq(A)
    <2> HIDE DEF Eq
    <2> QED
      BY <1>4, Zenon
  <1>6. FreeUserMem(m, dir) = A[WORDS]
    BY Zenon DEF ForEach, FreeUserMem
  <1> HIDE DEF A
  <1>7. \A k \in 0 .. WORDS :
           A[k] = IF k = 0 THEN m
                  ELSE IF A[k - 1].ok THEN FreeTable(A[k - 1], dir, k - 1)
                  ELSE A[k - 1]
    BY <1>5
  <1> HIDE DEF Eq
  <1> DEFINE S == {k \in 0 .. WORDS : A[k] = g[k]}
  <1>8. \A k \in 0 .. WORDS : k \in S
    <2>1. 0 \in S
      BY <1>3, <1>7, Sizes
    <2>2. ASSUME NEW k \in 1 .. WORDS, k - 1 \in S PROVE k \in S
      BY <1>3, <1>7, <2>2
    <2> HIDE DEF S
    <2> QED
      BY <2>1, <2>2, UpTo, Sizes
  <1>9. A[WORDS] \in P
    BY <1>2, <1>8, Sizes
  <1> QED
    BY <1>6, <1>9, Zenon

-----------------------------------------------------------------------------
(***************************************************************************)
(* c calls of alloc_page: the c pages in front are gone and the rest is    *)
(* the list, whatever is then written to the pages taken.                  *)
(***************************************************************************)
LEMMA ListPop ==
    ASSUME NEW m, m.head \in Lists, NEW n, IsList(m, n), NEW c \in 0 .. n,
           NEW w, w.head = ListFrom(m)[c],
           \A k \in 0 .. c - 1 : ListFrom(m)[k] # PAGES,
           \A k \in c .. n - 1 : w.mem[ListFrom(m)[k]] = m.mem[ListFrom(m)[k]]
    PROVE  /\ IsList(w, n - c)
           /\ OnList(w) = {ListFrom(m)[k] : k \in c .. n - 1}
           /\ OnList(w) = OnList(m) \ {ListFrom(m)[k] : k \in 0 .. c - 1}
  <1> DEFINE L == ListFrom(m)
             f == [k \in 0 .. PAGES |-> IF k + c <= PAGES THEN L[k + c]
                                        ELSE NoPage]
  <1>1. /\ n \in 0 .. PAGES /\ n \in Nat /\ PAGES \in Nat /\ c \in Nat
        /\ \A k \in 0 .. PAGES : L[k] = NoPage <=> n <= k
        /\ \A j, k \in 0 .. n - 1 : L[j] = L[k] => j = k
    BY Sizes DEF IsList
  <1>2. /\ \A k \in 0 .. PAGES : L[k] \in Lists
        /\ \A k \in 1 .. PAGES : L[k] = NextIn(m.mem, L[k - 1])
    BY ListIs
  <1>3. w.head \in Lists
    BY <1>1, <1>2
  <1> HIDE DEF L
  <1>4. \A k \in 0 .. PAGES : ListFrom(w)[k] = f[k]
    <2>1. f[0] = w.head
      BY <1>1 DEF L
    <2>2. ASSUME NEW k \in 1 .. PAGES PROVE f[k] = NextIn(w.mem, f[k - 1])
      <3>1. CASE k + c <= PAGES
        <4>1. /\ k + c \in 1 .. PAGES /\ k + c - 1 \in 0 .. PAGES
              /\ k - 1 \in 0 .. PAGES /\ k - 1 + c = k + c - 1
          BY <1>1, <3>1
        <4>2. f[k] = L[k + c] /\ f[k - 1] = L[k + c - 1]
          BY <1>1, <3>1, <4>1
        <4>3. L[k + c] = NextIn(m.mem, L[k + c - 1])
          BY <1>2, <4>1
        <4>4. CASE L[k + c - 1] = NoPage
          BY <4>2, <4>3, <4>4 DEF NextIn, Ends
        <4>5. CASE L[k + c - 1] # NoPage
          <5>1. k + c - 1 \in c .. n - 1
            BY <1>1, <4>1, <4>5
          <5>2. w.mem[L[k + c - 1]] = m.mem[L[k + c - 1]]
            BY <5>1 DEF L
          <5> QED
            BY <4>2, <4>3, <5>2 DEF NextIn, LinkIn
        <4> QED
          BY <4>4, <4>5
      <3>2. CASE ~(k + c <= PAGES)
        <4>1. f[k] = NoPage
          BY <3>2
        <4>2. f[k - 1] = NoPage
          <5>1. k - 1 \in 0 .. PAGES
                /\ (k - 1 + c <= PAGES => k - 1 + c = PAGES)
            BY <1>1, <3>2
          <5>2. L[PAGES] = NoPage
            BY <1>1
          <5> QED
            BY <5>1, <5>2
        <4> QED
          BY <4>1, <4>2 DEF NextIn, Ends
      <3> QED
        BY <3>1, <3>2
    <2> HIDE DEF f
    <2> QED
      BY <1>3, <2>1, <2>2, ListUnique
  <1>5. IsList(w, n - c)
    <2>1. n - c \in 0 .. PAGES
      BY <1>1
    <2>2. ASSUME NEW k \in 0 .. PAGES
          PROVE  ListFrom(w)[k] = NoPage <=> n - c <= k
      BY <1>1, <1>4, <2>2
    <2>3. ASSUME NEW j \in 0 .. n - c - 1, NEW k \in 0 .. n - c - 1,
                 ListFrom(w)[j] = ListFrom(w)[k]
          PROVE  j = k
      <3>1. /\ j \in 0 .. PAGES /\ k \in 0 .. PAGES
            /\ j + c \in 0 .. n - 1 /\ k + c \in 0 .. n - 1
            /\ j + c <= PAGES /\ k + c <= PAGES
        BY <1>1
      <3>2. L[j + c] = L[k + c]
        BY <1>4, <2>3, <3>1
      <3>3. j + c = k + c
        BY <1>1, <3>1, <3>2
      <3> QED
        BY <1>1, <3>3
    <2>4. PAGES \in OnList(w)
      <3>1. PICK k \in 0 .. n - 1 : PAGES = L[k]
        BY OnListIs DEF IsList, L
      <3>2. k \notin 0 .. c - 1
        BY <3>1 DEF L
      <3>3. k - c \in 0 .. PAGES /\ k - c + c = k /\ k <= PAGES
        BY <1>1, <3>2
      <3>4. ListFrom(w)[k - c] = PAGES
        BY <1>4, <3>1, <3>3
      <3> QED
        BY <3>3, <3>4, Sizes DEF OnList, NoPage
    <2> QED
      BY <2>1, <2>2, <2>3, <2>4 DEF IsList
  <1>6. OnList(w) = {L[k] : k \in c .. n - 1}
    <2>1. OnList(w) = {ListFrom(w)[k] : k \in 0 .. n - c - 1}
      BY <1>3, <1>5, OnListIs
    <2>2. \A k \in 0 .. n - c - 1 : k + c \in c .. n - 1
                                    /\ ListFrom(w)[k] = L[k + c]
      BY <1>1, <1>4
    <2>3. ASSUME NEW k \in c .. n - 1
          PROVE  k - c \in 0 .. n - c - 1 /\ ListFrom(w)[k - c] = L[k]
      <3>1. k - c \in 0 .. n - c - 1 /\ k - c + c = k
        BY <1>1
      <3> QED
        BY <2>2, <3>1
    <2> QED
      BY <2>1, <2>2, <2>3
  <1>7. OnList(w) = OnList(m) \ {L[k] : k \in 0 .. c - 1}
    <2>1. OnList(m) = {L[k] : k \in 0 .. n - 1}
      BY OnListIs DEF L
    <2>2. \A k \in 0 .. n - 1 : k \in 0 .. c - 1 \/ k \in c .. n - 1
      BY <1>1
    <2>3. \A k \in c .. n - 1 : k \in 0 .. n - 1
                                /\ \A j \in 0 .. c - 1 :
                                     j \in 0 .. n - 1 /\ j # k
      BY <1>1
    <2>4. \A k \in c .. n - 1, j \in 0 .. c - 1 : L[j] # L[k]
      BY <1>1, <2>3
    <2> QED
      BY <1>6, <2>1, <2>2, <2>3, <2>4
  <1> QED
    BY <1>5, <1>6, <1>7 DEF L

(***************************************************************************)
(* Writes to pages that are not on the list leave it alone.                *)
(***************************************************************************)
LEMMA ListKept ==
    ASSUME NEW m, m.head \in Lists, NEW n, IsList(m, n),
           NEW w, w.head = m.head,
           \A q \in OnList(m) : w.mem[q] = m.mem[q]
    PROVE  IsList(w, n) /\ OnList(w) = OnList(m)
  <1> DEFINE L == ListFrom(m)
  <1>1. /\ \A k \in 0 .. PAGES : L[k] \in Lists
        /\ \A k \in 1 .. PAGES : L[k] = NextIn(m.mem, L[k - 1])
        /\ L[0] = w.head
    BY ListIs
  <1>2. ASSUME NEW k \in 1 .. PAGES PROVE L[k] = NextIn(w.mem, L[k - 1])
    <2>1. k - 1 \in 0 .. PAGES
      BY Sizes
    <2>2. L[k - 1] = NoPage \/ L[k - 1] \in OnList(m)
      BY <2>1 DEF OnList
    <2> HIDE DEF L
    <2> QED
      BY <1>1, <2>1, <2>2 DEF NextIn, LinkIn, Ends
  <1> HIDE DEF L
  <1>3. \A k \in 0 .. PAGES : ListFrom(w)[k] = L[k]
    BY <1>1, <1>2, ListUnique
  <1>4. n \in 0 .. PAGES /\ \A k \in 0 .. n - 1 : k \in 0 .. PAGES
    BY Sizes DEF IsList
  <1> QED
    BY <1>3, <1>4 DEF IsList, OnList, L

-----------------------------------------------------------------------------
(***************************************************************************)
(* Directory entries and table entries of a process lead to pages.         *)
(***************************************************************************)
LEMMA SpaceTypes ==
    ASSUME ram \in Memories, NEW p, pagedir[p] \in Pages
    PROVE  /\ \A i \in Regions(p) : i \in Words /\ Table(p, i) \in Pages
           /\ \A at \in Mapped(p) : /\ at \in Words \X Words
                                    /\ at[1] \in Regions(p)
                                    /\ Frame(p, at) \in Pages
           /\ Places(p) \subseteq Mapped(p)
           /\ Tables(p) \subseteq Pages /\ Frames(p) \subseteq Pages
           /\ SpaceOf(p) \subseteq Pages
  <1>1. ASSUME NEW i \in Regions(p) PROVE i \in Words /\ Table(p, i) \in Pages
    BY MemoryIs DEF Regions, Table
  <1>2. ASSUME NEW at \in Mapped(p)
        PROVE  at \in Words \X Words /\ at[1] \in Regions(p)
               /\ Frame(p, at) \in Pages
    <2>1. /\ at \in Words \X Words /\ at[1] \in Regions(p)
          /\ IsEntry(ram.mem[Table(p, at[1])][at[2]])
      BY DEF Mapped
    <2>2. Table(p, at[1]) \in Pages /\ at[2] \in Words
      BY <1>1, <2>1
    <2>3. ram.mem[Table(p, at[1])][at[2]].val \in Pages
      BY <2>1, <2>2, MemoryIs
    <2> QED
      BY <2>1, <2>3 DEF Frame
  <1>3. Places(p) \subseteq Mapped(p)
    BY DEF Places
  <1>4. Tables(p) \subseteq Pages /\ Frames(p) \subseteq Pages
    BY <1>1, <1>2, <1>3 DEF Tables, Frames
  <1> QED
    BY <1>1, <1>2, <1>3, <1>4 DEF SpaceOf

(***************************************************************************)
(* An address space depends on its directory and its tables only.          *)
(***************************************************************************)
LEMMA SpaceKept ==
    ASSUME NEW p, pagedir'[p] = pagedir[p],
           ram.mem[pagedir[p]] = ram'.mem[pagedir[p]],
           \A t \in Tables(p) : ram'.mem[t] = ram.mem[t]
    PROVE  /\ Regions(p)' = Regions(p) /\ Mapped(p)' = Mapped(p)
           /\ Places(p)' = Places(p)
           /\ \A i \in Regions(p) : Table(p, i)' = Table(p, i)
           /\ \A at \in Mapped(p) : Frame(p, at)' = Frame(p, at)
           /\ Tables(p)' = Tables(p) /\ Frames(p)' = Frames(p)
           /\ SpaceOf(p)' = SpaceOf(p)
  <1>1. Regions(p)' = Regions(p)
    BY DEF Regions
  <1>2. \A i \in Words : Table(p, i)' = Table(p, i)
    BY DEF Table
  <1>3. \A i \in Regions(p) : i \in Words
                              /\ ram'.mem[Table(p, i)] = ram.mem[Table(p, i)]
    BY DEF Tables, Regions
  <1>4. Mapped(p)' = Mapped(p)
    <2>1. ASSUME NEW at \in Words \X Words
          PROVE  (/\ at[1] \in Regions(p)'
                  /\ IsEntry(ram'.mem[Table(p, at[1])'][at[2]]))
                 = (/\ at[1] \in Regions(p)
                    /\ IsEntry(ram.mem[Table(p, at[1])][at[2]]))
      BY <1>1, <1>2, <1>3
    <2> QED
      BY <2>1 DEF Mapped
  <1>5. ASSUME NEW at \in Mapped(p) PROVE Frame(p, at)' = Frame(p, at)
    <2>1. at[1] \in Regions(p)
      BY DEF Mapped
    <2> QED
      BY <1>2, <1>3, <2>1 DEF Frame
  <1>6. Places(p)' = Places(p)
    BY <1>4 DEF Places
  <1>7. Tables(p)' = Tables(p)
    BY <1>1, <1>2, <1>3 DEF Tables
  <1>8. Frames(p)' = Frames(p)
    <2>1. \A at \in Places(p) : Frame(p, at)' = Frame(p, at)
      BY <1>5 DEF Places
    <2> QED
      BY <1>6, <2>1 DEF Frames
  <1>9. SpaceOf(p)' = SpaceOf(p)
    BY <1>7, <1>8 DEF SpaceOf
  <1> QED
    BY <1>1, <1>2, <1>3, <1>4, <1>5, <1>6, <1>7, <1>8, <1>9

(***************************************************************************)
(* What each live process has: a directory, a page for the stack, and      *)
(* pages that are all different and not on the free list.                  *)
(***************************************************************************)
SpaceInv(p) ==
    /\ pagedir[p] \in Pages
    /\ <<Top, Top>> \in Mapped(p)
    /\ SpaceOf(p) \cap FreePages = {}
    /\ pagedir[p] \notin Tables(p) \cup Frames(p)
    /\ Tables(p) \cap Frames(p) = {}
    /\ \A s, t \in Places(p) : s # t => Frame(p, s) # Frame(p, t)

(***************************************************************************)
(* The free list has an end and the address spaces have no page in common. *)
(***************************************************************************)
Separate ==
    /\ \E n : IsList(ram, n)
    /\ \A p \in live : SpaceInv(p)
    /\ \A p, q \in live : p # q => SpaceOf(p) \cap SpaceOf(q) = {}

(***************************************************************************)
(* The invariant. Separate is what alloc_page and free_page rely on; it is *)
(* claimed until an allocation fails or the first execve, the types for    *)
(* ever, since an execve goes on with whatever its words lead to. Without  *)
(* the end of the list Separate is not inductive: on a list that came back *)
(* to itself, fork would take one page for two parts of its copy.          *)
(***************************************************************************)
MInv ==
    /\ TypeOK
    /\ ram \in Memories
    /\ pagedir[0] = 0
    /\ Sound => Separate

LEMMA FreePagesAre == FreePages = OnList(ram) /\ OnFreeList = ListFrom(ram)
  BY DEF FreePages, OnList, OnFreeList

-----------------------------------------------------------------------------
(***************************************************************************)
(* The parts of a copy: the directory, a table for each region, a page for *)
(* each place.                                                             *)
(***************************************************************************)
LEMMA PartsAre ==
    ASSUME ram \in Memories, NEW p, pagedir[p] \in Pages
    PROVE  /\ IsFiniteSet(Parts(p)) /\ Parts(p) \subseteq Int \X Int
           /\ Directory \in Parts(p)
           /\ RankIn(Parts(p), Directory) = 0
           /\ \A i \in Regions(p) : i \in Words /\ <<i, -1>> \in Parts(p)
           /\ \A at \in Mapped(p) : at \in Parts(p) /\ at[2] # -1
           /\ \A t \in Parts(p) : \/ t = Directory
                                  \/ \E i \in Regions(p) : t = <<i, -1>>
                                  \/ t \in Mapped(p)
  <1> DEFINE R == -1 .. WORDS - 1
  <1>1. \A i \in Regions(p) : i \in Words
    BY SpaceTypes
  <1>2. \A at \in Mapped(p) : at \in Words \X Words
    BY SpaceTypes
  <1>3. Words \subseteq R /\ -1 \in R /\ R \subseteq Int /\ -1 \notin Words
    BY Sizes DEF Words
  <1>4. Parts(p) \subseteq R \X R
    <2> HIDE DEF R
    <2>1. Directory \in R \X R
      BY <1>3 DEF Directory
    <2>2. Regions(p) \X {-1} \subseteq R \X R
      BY <1>1, <1>3
    <2>3. Mapped(p) \subseteq R \X R
      BY <1>2, <1>3
    <2> QED
      BY <2>1, <2>2, <2>3 DEF Parts
  <1>5. IsFiniteSet(R)
    <2>1. -1 \in Int /\ WORDS - 1 \in Int
      BY Sizes
    <2> QED
      BY <2>1, FS_Interval, Zenon
  <1>6. IsFiniteSet(Parts(p))
    <2> HIDE DEF R
    <2>1. IsFiniteSet(R \X R)
      BY <1>5, FS_Product
    <2> QED
      BY <1>4, <2>1, FS_Subset
  <1>7. Parts(p) \subseteq Int \X Int
    <2> HIDE DEF R
    <2> QED
      BY <1>3, <1>4
  <1>8. RankIn(Parts(p), Directory) = 0
    <2>1. \A s \in R \X R : ~Earlier(s, Directory)
      BY Sizes DEF Earlier, Directory
    <2>2. {s \in Parts(p) : Earlier(s, Directory)} = {}
      BY <1>4, <2>1
    <2> QED
      BY <2>2, FS_EmptySet DEF RankIn
  <1> HIDE DEF R
  <1>9. \A t \in Mapped(p) : t[2] # -1
    BY <1>2, <1>3
  <1> QED
    BY <1>1, <1>6, <1>7, <1>8, <1>9 DEF Parts

(***************************************************************************)
(* The pages a fork takes from the list.                                   *)
(***************************************************************************)
Taken(p) == {NewPages(p)[t] : t \in Parts(p)}

(***************************************************************************)
(* If the list is long enough, they are those in its front, one for each   *)
(* part, the first of them for the directory.                              *)
(***************************************************************************)
LEMMA NewPagesAre ==
    ASSUME ram \in Memories, NEW p, pagedir[p] \in Pages,
           NEW n, IsList(ram, n), Taken(p) \cap Ends = {}
    PROVE  /\ \E c \in 0 .. n : /\ Cardinality(Taken(p)) = c
                               /\ Taken(p) = {OnFreeList[k] : k \in 0 .. c - 1}
           /\ Taken(p) \subseteq FreePages /\ Taken(p) \subseteq Pages
           /\ \A s, t \in Parts(p) : NewPages(p)[s] = NewPages(p)[t] => s = t
           /\ NewPages(p)[Directory] = ram.head
           /\ ram.head \in Taken(p)
  <1> DEFINE L == ListFrom(ram)
             S == Parts(p)
             new == NewPages(p)
             c == Cardinality(S)
  <1>1. /\ IsFiniteSet(S) /\ S \subseteq Int \X Int
        /\ Directory \in S /\ RankIn(S, Directory) = 0
    BY PartsAre
  <1>2. /\ c \in Nat
        /\ \A t \in S : RankIn(S, t) \in 0 .. c - 1
        /\ \A s, t \in S : RankIn(S, s) = RankIn(S, t) => s = t
        /\ \A k \in 0 .. c - 1 : \E t \in S : RankIn(S, t) = k
    BY <1>1, RankIs
  <1>3. \A t \in S : new[t] = L[RankIn(S, t)]
    BY DEF NewPages, Rank, RankIn, OnFreeList
  <1>4. /\ n \in 0 .. PAGES /\ PAGES \in Nat
        /\ \A k \in 0 .. PAGES : L[k] = NoPage <=> n <= k
        /\ \A j, k \in 0 .. n - 1 : L[j] = L[k] => j = k
    BY Sizes DEF IsList
  <1>5. ram.head \in Lists
    BY MemoryIs
  <1>6. /\ OnList(ram) = {L[k] : k \in 0 .. n - 1}
        /\ OnList(ram) \subseteq Pages
        /\ L[0] = ram.head
    BY <1>5, OnListIs, ListIs
  <1> HIDE DEF L, S, new, c
  <1>7. c <= n
    <2>1. SUFFICES ASSUME n < c PROVE FALSE
      BY <1>2, <1>4
    <2>2. n \in 0 .. c - 1 /\ n \in 0 .. PAGES
      BY <1>2, <1>4, <2>1
    <2>3. PICK t \in S : RankIn(S, t) = n
      BY <1>2, <2>2
    <2>4. new[t] = NoPage
      BY <1>3, <1>4, <2>2, <2>3
    <2> QED
      BY <2>3, <2>4 DEF Taken, S, new, Ends
  <1>8. \A k \in 0 .. c - 1 : k \in 0 .. n - 1
    BY <1>2, <1>4, <1>7
  <1>9. Taken(p) = {L[k] : k \in 0 .. c - 1}
    <2>1. \A t \in S : new[t] \in {L[k] : k \in 0 .. c - 1}
      BY <1>2, <1>3
    <2>2. \A k \in 0 .. c - 1 : \E t \in S : new[t] = L[k]
      BY <1>2, <1>3
    <2>3. Taken(p) = {new[t] : t \in S}
      BY DEF Taken, S, new
    <2> QED
      BY <2>1, <2>2, <2>3
  <1>10. ASSUME NEW s \in S, NEW t \in S, new[s] = new[t] PROVE s = t
    BY <1>2, <1>3, <1>4, <1>8, <1>10
  <1>11. Cardinality(Taken(p)) = c
    <2>1. new \in [S -> Taken(p)]
      <3>1. new = [t \in S |-> new[t]]
        BY DEF new, S, NewPages
      <3>2. \A t \in S : new[t] \in Taken(p)
        BY DEF Taken, S, new
      <3> QED
        BY <3>1, <3>2
    <2>2. \A q \in Taken(p) : \E t \in S : new[t] = q
      BY DEF Taken, S, new
    <2>3. new \in Surjection(S, Taken(p))
      BY <2>1, <2>2 DEF Surjection
    <2>4. new \in Injection(S, Taken(p))
      BY <1>10, <2>1 DEF Injection, IsInjective
    <2> QED
      BY <1>1, <2>3, <2>4, FS_Surjection DEF c
  <1>12. Taken(p) \subseteq FreePages /\ Taken(p) \subseteq Pages
    BY <1>6, <1>8, <1>9, FreePagesAre
  <1>13. new[Directory] = ram.head
    BY <1>1, <1>3, <1>6
  <1>14. ram.head \in Taken(p)
    BY <1>1, <1>13 DEF Taken, S, new
  <1>15. \E d \in 0 .. n : Cardinality(Taken(p)) = d
         /\ Taken(p) = {L[k] : k \in 0 .. d - 1}
    <2>1. c \in 0 .. n
      BY <1>2, <1>4, <1>7
    <2> QED
      BY <1>9, <1>11, <2>1
  <1> QED
    BY <1>10, <1>12, <1>13, <1>14, <1>15 DEF L, S, new, OnFreeList

(***************************************************************************)
(* A word of a page replaced.                                              *)
(***************************************************************************)
Entered(mem, q, i, e) == [mem EXCEPT ![q][i] = e]

LEMMA EnteredIs ==
    ASSUME NEW mem \in MemType, NEW q \in Pages, NEW i \in Words, NEW e \in Word
    PROVE  /\ Entered(mem, q, i, e) \in MemType
           /\ \A x \in Pages \ {q} : Entered(mem, q, i, e)[x] = mem[x]
           /\ \A j \in Words : Entered(mem, q, i, e)[q][j] =
                IF j = i THEN e ELSE mem[q][j]
  <1> DEFINE page == [mem[q] EXCEPT ![i] = e]
             w == Entered(mem, q, i, e)
  <1>1. mem[q] \in [Words -> Word]
    BY DEF MemType
  <1>2. page \in [Words -> Word]
        /\ \A j \in Words : page[j] = IF j = i THEN e ELSE mem[q][j]
    BY <1>1
  <1>3. w = [mem EXCEPT ![q] = page]
    BY DEF Entered
  <1> HIDE DEF page, w
  <1>4. w \in MemType /\ w[q] = page /\ \A x \in Pages \ {q} : w[x] = mem[x]
    BY <1>2, <1>3 DEF MemType
  <1> QED
    BY <1>2, <1>4 DEF w

(***************************************************************************)
(* One part of a copy: its page gets what the original holds now, and the  *)
(* entry for it is written; other pages stay.                              *)
(***************************************************************************)
LEMMA CopyPartIs ==
    ASSUME ram \in Memories, NEW p, pagedir[p] \in Pages, NEW mem \in MemType,
           NEW new, \A s \in Parts(p) : new[s] \in Pages,
           \A s, t \in Parts(p) : new[s] = new[t] => s = t,
           NEW t \in Parts(p), NEW w, w = CopyPart(mem, p, new, t)
    PROVE  /\ w \in MemType
           /\ w[new[t]] = mem[Original(p, t)]
           /\ \A q \in Pages \ {new[s] : s \in Parts(p)} : w[q] = mem[q]
           /\ \A s \in Parts(p) \ {t}, j \in Words :
                w[new[s]][j] =
                  IF (s = Directory /\ t = <<j, -1>>)
                     \/ (t \in Mapped(p) /\ s = <<t[1], -1>> /\ t[2] = j)
                  THEN Entry(new[t]) ELSE mem[new[s]][j]
           /\ \A s \in Parts(p) \ {t} :
                s \in Mapped(p) => w[new[s]] = mem[new[s]]
  <1> DEFINE copied == [mem EXCEPT ![new[t]] = mem[Original(p, t)]]
  <1>1. /\ \A i \in Regions(p) : i \in Words /\ <<i, -1>> \in Parts(p)
        /\ \A at \in Mapped(p) : at \in Parts(p) /\ at[2] # -1
                                 /\ at \in Words \X Words
                                 /\ at[1] \in Regions(p)
        /\ Directory \in Parts(p)
        /\ \/ t = Directory
           \/ \E i \in Regions(p) : t = <<i, -1>>
           \/ t \in Mapped(p)
        /\ \A q \in Pages : mem[q] \in [Words -> Word]
        /\ \A i \in Words : i # -1
    BY PartsAre, SpaceTypes, Sizes DEF MemType, Words
  <1>2. Original(p, t) \in Pages
    <2>1. CASE t = Directory
      BY <2>1 DEF Original
    <2>2. CASE \E i \in Regions(p) : t = <<i, -1>>
      <3>1. t # Directory
        BY <1>1, <2>2 DEF Directory
      <3> QED
        BY <2>2, <3>1, SpaceTypes DEF Original
    <2>3. CASE t \in Mapped(p)
      <3>1. t # Directory /\ t[2] # -1
        BY <1>1, <2>3 DEF Directory
      <3> QED
        BY <2>3, <3>1, SpaceTypes DEF Original
    <2> QED
      BY <1>1, <2>1, <2>2, <2>3
  <1>3. /\ copied \in MemType
        /\ copied[new[t]] = mem[Original(p, t)]
        /\ \A q \in Pages \ {new[t]} : copied[q] = mem[q]
    <2>1. mem[Original(p, t)] \in [Words -> Word] /\ new[t] \in Pages
      BY <1>1, <1>2
    <2> QED
      BY <2>1 DEF MemType
  <1>4. Entry(new[t]) \in Word
    BY WordIs
  <1> HIDE DEF copied
  <1>5. ASSUME NEW d \in Parts(p) \ {t}, NEW i \in Words, NEW v,
               v = Entered(copied, new[d], i, Entry(new[t]))
        PROVE  /\ v \in MemType
               /\ \A q \in Pages \ {new[d]} : v[q] = copied[q]
               /\ \A j \in Words : v[new[d]][j] =
                    IF j = i THEN Entry(new[t]) ELSE copied[new[d]][j]
    <2>1. new[d] \in Pages
      OBVIOUS
    <2> QED
      BY <1>3, <1>4, <1>5, <2>1, EnteredIs
  <1>6. CASE t = Directory
    <2>1. w = copied
      BY <1>6, Zenon DEF CopyPart, copied
    <2>2. ASSUME NEW i PROVE t # <<i, -1>> \/ i = -1
      BY <1>6 DEF Directory
    <2>3. t \notin Mapped(p)
      BY <1>1, <1>6 DEF Directory
    <2>4. \A j \in Words : t # <<j, -1>>
      BY <1>1, <2>2
    <2> QED
      BY <1>3, <2>1, <2>3, <2>4
  <1>7. CASE \E i \in Regions(p) : t = <<i, -1>>
    <2>1. PICK i \in Regions(p) : t = <<i, -1>>
      BY <1>7
    <2>2. /\ t # Directory /\ t[1] = i /\ t[2] = -1 /\ i \in Words
          /\ t \notin Mapped(p) /\ Directory \in Parts(p) \ {t}
      BY <1>1, <2>1 DEF Directory
    <2>3. w = Entered(copied, new[Directory], i, Entry(new[t]))
      BY <2>2 DEF CopyPart, copied, Entered
    <2>4. /\ w \in MemType
          /\ \A q \in Pages \ {new[Directory]} : w[q] = copied[q]
          /\ \A j \in Words : w[new[Directory]][j] =
               IF j = i THEN Entry(new[t]) ELSE copied[new[Directory]][j]
      <3>1. Directory \in Parts(p) \ {t} /\ i \in Words
        BY <2>2
      <3> QED
        BY <1>5, <2>3, <3>1
    <2>5. w[new[t]] = mem[Original(p, t)]
      BY <1>3, <2>2, <2>4
    <2>6. ASSUME NEW s \in Parts(p) \ {t}, s # Directory
          PROVE  w[new[s]] = mem[new[s]]
      BY <1>3, <2>2, <2>4, <2>6
    <2>7. \A q \in Pages \ {new[s] : s \in Parts(p)} : w[q] = mem[q]
      BY <1>3, <2>2, <2>4
    <2>8. ASSUME NEW j \in Words
          PROVE  w[new[Directory]][j] = IF t = <<j, -1>> THEN Entry(new[t])
                                        ELSE mem[new[Directory]][j]
      <3>1. t = <<j, -1>> <=> j = i
        BY <2>1
      <3>2. copied[new[Directory]] = mem[new[Directory]]
        BY <1>3, <2>2
      <3> QED
        BY <2>4, <3>1, <3>2
    <2>9. Directory \notin Mapped(p)
      BY <1>1 DEF Directory
    <2>10. ASSUME NEW s \in Parts(p) \ {t}, NEW j \in Words
           PROVE  w[new[s]][j] =
                    IF (s = Directory /\ t = <<j, -1>>)
                       \/ (t \in Mapped(p) /\ s = <<t[1], -1>> /\ t[2] = j)
                    THEN Entry(new[t]) ELSE mem[new[s]][j]
      <3>1. CASE s = Directory
        <4>1. w[new[s]][j] = IF t = <<j, -1>> THEN Entry(new[t])
                             ELSE mem[new[s]][j]
          BY <2>8, <3>1
        <4>2. t \notin Mapped(p)
          BY <2>2
        <4> HIDE DEF copied
        <4> QED
          BY <3>1, <4>1, <4>2, Zenon
      <3>2. CASE s # Directory
        BY <2>2, <2>6, <3>2
      <3> QED
        BY <3>1, <3>2
    <2>11. ASSUME NEW s \in Parts(p) \ {t}, s \in Mapped(p)
           PROVE  w[new[s]] = mem[new[s]]
      BY <2>6, <2>9, <2>11
    <2> QED
      BY <2>4, <2>5, <2>7, <2>10, <2>11
  <1>8. CASE t \in Mapped(p)
    <2> DEFINE d == <<t[1], -1>>
    <2>1. /\ t # Directory /\ t[2] # -1 /\ t[2] \in Words
          /\ d \in Parts(p) \ {t} /\ d \notin Mapped(p) /\ d # Directory
      <3>1. t[2] # -1 /\ t[1] \in Regions(p) /\ t \in Words \X Words
        BY <1>1, <1>8
      <3>2. d \in Parts(p) /\ d[2] = -1 /\ d[1] = t[1]
        BY <1>1, <3>1
      <3>3. t[1] # -1 /\ Directory[1] = -1 /\ Directory[2] = -1
        BY <1>1, <3>1 DEF Directory
      <3> QED
        BY <1>1, <3>1, <3>2, <3>3
    <2>2. w = Entered(copied, new[d], t[2], Entry(new[t]))
      BY <2>1 DEF CopyPart, copied, Entered
    <2> HIDE DEF d
    <2>3. /\ w \in MemType
          /\ \A q \in Pages \ {new[d]} : w[q] = copied[q]
          /\ \A j \in Words : w[new[d]][j] =
               IF j = t[2] THEN Entry(new[t]) ELSE copied[new[d]][j]
      <3>1. d \in Parts(p) \ {t} /\ t[2] \in Words
        BY <2>1
      <3> QED
        BY <1>5, <2>2, <3>1
    <2>4. w[new[t]] = mem[Original(p, t)]
      BY <1>3, <2>1, <2>3
    <2>5. ASSUME NEW s \in Parts(p) \ {t}, s # d
          PROVE  w[new[s]] = mem[new[s]]
      BY <1>3, <2>1, <2>3, <2>5
    <2>6. \A q \in Pages \ {new[s] : s \in Parts(p)} : w[q] = mem[q]
      BY <1>3, <2>1, <2>3
    <2>7. copied[new[d]] = mem[new[d]]
      BY <1>3, <2>1
    <2>8. \A j \in Words : t # <<j, -1>>
      BY <2>1
    <2>9. ASSUME NEW s \in Parts(p) \ {t}, NEW j \in Words
          PROVE  w[new[s]][j] =
                   IF (s = Directory /\ t = <<j, -1>>)
                      \/ (t \in Mapped(p) /\ s = <<t[1], -1>> /\ t[2] = j)
                   THEN Entry(new[t]) ELSE mem[new[s]][j]
      <3>1. CASE s = d
        BY <1>8, <2>3, <2>7, <2>8, <3>1 DEF d
      <3>2. CASE s # d
        BY <2>5, <2>8, <3>2 DEF d
      <3> QED
        BY <3>1, <3>2
    <2>10. ASSUME NEW s \in Parts(p) \ {t}, s \in Mapped(p)
           PROVE  w[new[s]] = mem[new[s]]
      BY <2>1, <2>5, <2>10
    <2> QED
      BY <2>3, <2>4, <2>6, <2>9, <2>10
  <1> QED
    BY <1>1, <1>6, <1>7, <1>8

(***************************************************************************)
(* The memory after k parts: directory and tables hold their originals'    *)
(* words but for the entries made so far; a page whose original the fork   *)
(* does not take holds what that holds.                                    *)
(***************************************************************************)
CopiedUpTo(p, new, k, m) ==
    /\ m \in MemType
    /\ \A q \in Pages \ Taken(p) : m[q] = ram.mem[q]
    /\ 0 < k => \A i \in Words : m[new[Directory]][i] =
         IF i \in Regions(p) /\ Rank(p, <<i, -1>>) < k
         THEN Entry(new[<<i, -1>>]) ELSE ram.mem[pagedir[p]][i]
    /\ \A i \in Regions(p), j \in Words : Rank(p, <<i, -1>>) < k =>
         m[new[<<i, -1>>]][j] =
           IF <<i, j>> \in Mapped(p) /\ Rank(p, <<i, j>>) < k
           THEN Entry(new[<<i, j>>]) ELSE ram.mem[Table(p, i)][j]
    /\ \A at \in Mapped(p) : Rank(p, at) < k /\ Frame(p, at) \notin Taken(p) =>
         m[new[at]] = ram.mem[Frame(p, at)]

LEMMA Ranks ==
    ASSUME ram \in Memories, NEW p, pagedir[p] \in Pages
    PROVE  /\ Cardinality(Parts(p)) \in Nat
           /\ \A t \in Parts(p) : Rank(p, t) \in 0 .. Cardinality(Parts(p)) - 1
           /\ \A s, t \in Parts(p) : Rank(p, s) = Rank(p, t) => s = t
           /\ \A k \in 0 .. Cardinality(Parts(p)) - 1 :
                \E t \in Parts(p) : Rank(p, t) = k
           /\ Rank(p, Directory) = 0
           /\ \A i \in Regions(p) : 0 < Rank(p, <<i, -1>>)
           /\ \A at \in Mapped(p) : Rank(p, <<at[1], -1>>) < Rank(p, at)
  <1>1. /\ IsFiniteSet(Parts(p)) /\ Parts(p) \subseteq Int \X Int
        /\ Directory \in Parts(p) /\ RankIn(Parts(p), Directory) = 0
        /\ \A i \in Regions(p) : i \in Words /\ <<i, -1>> \in Parts(p)
        /\ \A at \in Mapped(p) : at \in Parts(p) /\ at \in Words \X Words
                                 /\ at[1] \in Regions(p)
    BY PartsAre, SpaceTypes
  <1>2. /\ Cardinality(Parts(p)) \in Nat
        /\ \A t \in Parts(p) :
             RankIn(Parts(p), t) \in 0 .. Cardinality(Parts(p)) - 1
        /\ \A s, t \in Parts(p) :
             RankIn(Parts(p), s) = RankIn(Parts(p), t) => s = t
        /\ \A s, t \in Parts(p) :
             Earlier(s, t) => RankIn(Parts(p), s) < RankIn(Parts(p), t)
        /\ \A k \in 0 .. Cardinality(Parts(p)) - 1 :
             \E t \in Parts(p) : RankIn(Parts(p), t) = k
    BY <1>1, RankIs
  <1>3. \A t : Rank(p, t) = RankIn(Parts(p), t)
    BY DEF Rank, RankIn
  <1>4. \A i \in Words : -1 < i
    BY Sizes DEF Words
  <1>5. \A i \in Regions(p) : Earlier(Directory, <<i, -1>>)
    BY <1>1, <1>4 DEF Earlier, Directory
  <1>6. \A at \in Mapped(p) : Earlier(<<at[1], -1>>, at)
    BY <1>1, <1>4 DEF Earlier
  <1> QED
    BY <1>1, <1>2, <1>3, <1>5, <1>6

LEMMA CopyPartKeeps ==
    ASSUME ram \in Memories, NEW p, pagedir[p] \in Pages,
           NEW new, \A s \in Parts(p) : new[s] \in Taken(p),
           Taken(p) \subseteq Pages, Taken(p) = {new[s] : s \in Parts(p)},
           \A s, t \in Parts(p) : new[s] = new[t] => s = t,
           {pagedir[p]} \cup Tables(p) \subseteq Pages \ Taken(p),
           NEW k \in Nat, NEW m, CopiedUpTo(p, new, k, m),
           NEW t \in Parts(p), Rank(p, t) = k
    PROVE  CopiedUpTo(p, new, k + 1, CopyPart(m, p, new, t))
  <1> DEFINE w == CopyPart(m, p, new, t)
  <1>1. /\ \A s \in Parts(p) : Rank(p, s) \in Nat
        /\ \A s \in Parts(p) : Rank(p, s) < k + 1 <=> Rank(p, s) < k \/ s = t
    <2>1. \A s \in Parts(p) : Rank(p, s) \in Nat
      BY Ranks
    <2>2. \A s \in Parts(p) : Rank(p, s) = k <=> s = t
      BY Ranks
    <2> QED
      BY <2>1, <2>2
  <1>2. /\ Rank(p, Directory) = 0
        /\ \A i \in Regions(p) : 0 < Rank(p, <<i, -1>>)
        /\ \A at \in Mapped(p) : Rank(p, <<at[1], -1>>) < Rank(p, at)
    BY Ranks
  <1>3. /\ \A i \in Regions(p) : i \in Words /\ <<i, -1>> \in Parts(p)
        /\ \A at \in Mapped(p) : at \in Parts(p) /\ at[2] # -1
                                 /\ at \in Words \X Words
                                 /\ at[1] \in Regions(p)
        /\ Directory \in Parts(p)
        /\ \/ t = Directory
           \/ \E i \in Regions(p) : t = <<i, -1>>
           \/ t \in Mapped(p)
        /\ \A i \in Words : i # -1
        /\ \A i \in Regions(p) : Table(p, i) \in Pages \ Taken(p)
    BY PartsAre, SpaceTypes, Sizes DEF Words, Tables
  <1>4. m \in MemType /\ \A s \in Parts(p) : new[s] \in Pages
    BY DEF CopiedUpTo
  <1>5. /\ w \in MemType
        /\ w[new[t]] = m[Original(p, t)]
        /\ \A q \in Pages \ Taken(p) : w[q] = m[q]
        /\ \A s \in Parts(p) \ {t}, j \in Words :
             w[new[s]][j] =
               IF (s = Directory /\ t = <<j, -1>>)
                  \/ (t \in Mapped(p) /\ s = <<t[1], -1>> /\ t[2] = j)
               THEN Entry(new[t]) ELSE m[new[s]][j]
        /\ \A s \in Parts(p) \ {t} :
             s \in Mapped(p) => w[new[s]] = m[new[s]]
    <2>1. /\ w \in MemType
          /\ w[new[t]] = m[Original(p, t)]
          /\ \A q \in Pages \ {new[s] : s \in Parts(p)} : w[q] = m[q]
          /\ \A s \in Parts(p) \ {t}, j \in Words :
               w[new[s]][j] =
                 IF (s = Directory /\ t = <<j, -1>>)
                    \/ (t \in Mapped(p) /\ s = <<t[1], -1>> /\ t[2] = j)
                 THEN Entry(new[t]) ELSE m[new[s]][j]
          /\ \A s \in Parts(p) \ {t} :
               s \in Mapped(p) => w[new[s]] = m[new[s]]
      BY <1>4, CopyPartIs, SMTT(40)
    <2> HIDE DEF w
    <2> QED
      BY <2>1, Zenon
  <1> HIDE DEF w
  <1>6. \A q \in Pages \ Taken(p) : w[q] = ram.mem[q]
    BY <1>5 DEF CopiedUpTo
  <1>7. ASSUME NEW i \in Words
        PROVE  w[new[Directory]][i] =
                 IF i \in Regions(p) /\ Rank(p, <<i, -1>>) < k + 1
                 THEN Entry(new[<<i, -1>>]) ELSE ram.mem[pagedir[p]][i]
    <2>1. CASE t = Directory
      <3>1. k = 0 /\ w[new[Directory]] = m[pagedir[p]]
        BY <1>2, <1>5, <2>1 DEF Original
      <3>2. m[pagedir[p]] = ram.mem[pagedir[p]]
        BY DEF CopiedUpTo
      <3>3. i \in Regions(p) => ~(Rank(p, <<i, -1>>) < k + 1)
        BY <1>1, <1>2, <1>3, <3>1
      <3> QED
        BY <3>1, <3>2, <3>3
    <2>2. CASE t # Directory
      <3>1. 0 < k
        BY <1>1, <1>2, <1>3, <2>2, Ranks
      <3>2. m[new[Directory]][i] =
              IF i \in Regions(p) /\ Rank(p, <<i, -1>>) < k
              THEN Entry(new[<<i, -1>>]) ELSE ram.mem[pagedir[p]][i]
        BY <3>1 DEF CopiedUpTo
      <3>3. t \in Mapped(p) => Directory # <<t[1], -1>>
        BY <1>3 DEF Directory
      <3>4. w[new[Directory]][i] = IF t = <<i, -1>> THEN Entry(new[t])
                                   ELSE m[new[Directory]][i]
        <4>1. Directory \in Parts(p) \ {t}
          BY <1>3, <2>2
        <4>2. \A s \in Parts(p) \ {t} : s = Directory =>
                w[new[s]][i] =
                  IF (s = Directory /\ t = <<i, -1>>)
                     \/ (t \in Mapped(p) /\ s = <<t[1], -1>> /\ t[2] = i)
                  THEN Entry(new[t]) ELSE m[new[s]][i]
          BY <1>5
        <4>3. CASE t = <<i, -1>>
          <5>1. \A s \in Parts(p) \ {t} : s = Directory =>
                  w[new[s]][i] = Entry(new[t])
            BY <4>2, <4>3, Zenon
          <5> QED
            BY <4>1, <4>3, <5>1, Zenon
        <4>4. CASE t # <<i, -1>>
          BY <3>3, <4>1, <4>2, <4>4
        <4> QED
          BY <4>3, <4>4
      <3>5. CASE t = <<i, -1>>
        <4>1. i \in Regions(p)
          <5>1. t \notin Mapped(p)
            BY <1>3, <3>5
          <5>2. PICK r \in Regions(p) : t = <<r, -1>>
            BY <1>3, <2>2, <5>1
          <5> QED
            BY <3>5, <5>2
        <4> QED
          BY <1>1, <1>3, <3>4, <3>5, <4>1
      <3>6. CASE t # <<i, -1>>
        <4>1. i \in Regions(p) =>
                (Rank(p, <<i, -1>>) < k + 1 <=> Rank(p, <<i, -1>>) < k)
          BY <1>1, <1>3, <3>6
        <4> QED
          BY <3>2, <3>4, <3>6, <4>1
      <3> QED
        BY <3>5, <3>6
    <2> QED
      BY <2>1, <2>2
  <1>8. ASSUME NEW i \in Regions(p), NEW j \in Words,
               Rank(p, <<i, -1>>) < k + 1
        PROVE  w[new[<<i, -1>>]][j] =
                 IF <<i, j>> \in Mapped(p) /\ Rank(p, <<i, j>>) < k + 1
                 THEN Entry(new[<<i, j>>]) ELSE ram.mem[Table(p, i)][j]
    <2>1. /\ i \in Words /\ <<i, -1>> \in Parts(p) /\ i # -1 /\ j # -1
          /\ <<i, -1>> # Directory
      BY <1>3 DEF Directory
    <2>2. CASE t = <<i, -1>>
      <3>1. t[2] = -1 /\ t[1] = i /\ t # Directory
        BY <2>1, <2>2
      <3>2. w[new[t]] = m[Table(p, i)]
        BY <1>5, <3>1 DEF Original
      <3>3. m[Table(p, i)] = ram.mem[Table(p, i)]
        BY <1>3 DEF CopiedUpTo
      <3>4. ASSUME <<i, j>> \in Mapped(p) PROVE ~(Rank(p, <<i, j>>) < k + 1)
        <4>1. Rank(p, <<i, -1>>) < Rank(p, <<i, j>>)
          BY <1>2, <3>4
        <4>2. Rank(p, <<i, j>>) \in Nat
          BY <1>1, <1>3, <3>4
        <4> QED
          BY <2>2, <4>1, <4>2
      <3> QED
        BY <2>2, <3>2, <3>3, <3>4
    <2>3. CASE t # <<i, -1>>
      <3>1. Rank(p, <<i, -1>>) < k
        BY <1>1, <1>8, <2>1, <2>3
      <3>2. m[new[<<i, -1>>]][j] =
              IF <<i, j>> \in Mapped(p) /\ Rank(p, <<i, j>>) < k
              THEN Entry(new[<<i, j>>]) ELSE ram.mem[Table(p, i)][j]
        BY <3>1 DEF CopiedUpTo
      <3>3. w[new[<<i, -1>>]][j] =
              IF t \in Mapped(p) /\ <<i, -1>> = <<t[1], -1>> /\ t[2] = j
              THEN Entry(new[t]) ELSE m[new[<<i, -1>>]][j]
        BY <1>5, <2>1, <2>3
      <3>4. ASSUME t \in Mapped(p)
            PROVE  <<i, -1>> = <<t[1], -1>> /\ t[2] = j <=> t = <<i, j>>
        BY <1>3, <3>4
      <3>5. CASE t = <<i, j>> /\ t \in Mapped(p)
        <4>1. Rank(p, <<i, j>>) < k + 1
          BY <1>1, <3>5
        <4> QED
          BY <3>3, <3>4, <3>5, <4>1
      <3>6. CASE ~(t = <<i, j>> /\ t \in Mapped(p))
        <4>1. <<i, j>> \in Mapped(p) =>
                (Rank(p, <<i, j>>) < k + 1 <=> Rank(p, <<i, j>>) < k)
          BY <1>1, <1>3, <3>6
        <4> QED
          BY <3>2, <3>3, <3>4, <3>6, <4>1
      <3> QED
        BY <3>5, <3>6
    <2> QED
      BY <2>2, <2>3
  <1>9. ASSUME NEW at \in Mapped(p), Rank(p, at) < k + 1,
               Frame(p, at) \notin Taken(p)
        PROVE  w[new[at]] = ram.mem[Frame(p, at)]
    <2>1. at \in Parts(p) /\ at[2] # -1 /\ at # Directory
      BY <1>3 DEF Directory
    <2>2. CASE at = t
      <3>1. w[new[at]] = m[Frame(p, at)]
        BY <1>5, <2>1, <2>2 DEF Original
      <3>2. Frame(p, at) \in Pages
        BY SpaceTypes
      <3> QED
        BY <1>9, <3>1, <3>2 DEF CopiedUpTo
    <2>3. CASE at # t
      <3>1. Rank(p, at) < k
        BY <1>1, <1>9, <2>1, <2>3
      <3>2. w[new[at]] = m[new[at]]
        BY <1>5, <2>1, <2>3
      <3> QED
        BY <1>9, <3>1, <3>2 DEF CopiedUpTo
    <2> QED
      BY <2>2, <2>3
  <1> QED
    BY <1>5, <1>6, <1>7, <1>8, <1>9 DEF CopiedUpTo, w

(***************************************************************************)
(* All parts.                                                              *)
(***************************************************************************)
LEMMA CopyPartsAre ==
    ASSUME ram \in Memories, NEW p, pagedir[p] \in Pages,
           NEW new, \A s \in Parts(p) : new[s] \in Taken(p),
           Taken(p) \subseteq Pages, Taken(p) = {new[s] : s \in Parts(p)},
           \A s, t \in Parts(p) : new[s] = new[t] => s = t,
           {pagedir[p]} \cup Tables(p) \subseteq Pages \ Taken(p)
    PROVE  CopiedUpTo(p, new, Cardinality(Parts(p)), CopyParts(p, new))
  <1> DEFINE n == Cardinality(Parts(p))
             part == [k \in 1 .. n |->
                        CHOOSE t \in Parts(p) : Rank(p, t) = k - 1]
             Eq(f) == f = [k \in 0 .. n |->
                             IF k = 0 THEN ram.mem
                             ELSE CopyPart(f[k - 1], p, new, part[k])]
             A == CHOOSE f : Eq(f)
             G == [m \in MemType |->
                     [k \in 0 .. n - 1 |-> CopyPart(m, p, new, part[k + 1])]]
             C(k) == {m \in MemType : CopiedUpTo(p, new, k, m)}
  <1>1. n \in Nat /\ \A k \in 1 .. n : part[k] \in Parts(p)
                                       /\ Rank(p, part[k]) = k - 1
    <2>1. n \in Nat
      BY Ranks
    <2>2. ASSUME NEW k \in 1 .. n
          PROVE  part[k] \in Parts(p) /\ Rank(p, part[k]) = k - 1
      <3>1. k - 1 \in 0 .. Cardinality(Parts(p)) - 1
        BY <2>1
      <3>2. \E t \in Parts(p) : Rank(p, t) = k - 1
        BY <3>1, Ranks
      <3>3. part[k] = CHOOSE t \in Parts(p) : Rank(p, t) = k - 1
        OBVIOUS
      <3> HIDE DEF part
      <3> QED
        BY <3>2, <3>3
    <2> QED
      BY <2>1, <2>2
  <1>2. ram.mem \in C(0)
    <2>1. ram.mem \in MemType
      BY MemoryIs
    <2>2. \A t \in Parts(p) : ~(Rank(p, t) < 0)
      BY Ranks
    <2>3. /\ \A i \in Regions(p) : <<i, -1>> \in Parts(p)
          /\ \A at \in Mapped(p) : at \in Parts(p)
      BY PartsAre
    <2> QED
      BY <2>1, <2>2, <2>3 DEF CopiedUpTo
  <1>3. ASSUME NEW k \in 1 .. n, NEW m \in C(k - 1)
        PROVE  CopyPart(m, p, new, part[k]) \in C(k)
    <2>1. /\ k - 1 \in Nat /\ k - 1 + 1 = k
          /\ part[k] \in Parts(p) /\ Rank(p, part[k]) = k - 1
      BY <1>1
    <2>2. CopiedUpTo(p, new, k - 1 + 1, CopyPart(m, p, new, part[k]))
      <3> HIDE DEF part
      <3> QED
        BY <2>1, CopyPartKeeps
    <2>3. CopiedUpTo(p, new, k, CopyPart(m, p, new, part[k]))
      <3> HIDE DEF part, n
      <3> QED
        BY <2>1, <2>2
    <2>4. CopyPart(m, p, new, part[k]) \in MemType
      BY <2>3 DEF CopiedUpTo
    <2> HIDE DEF part, n
    <2> QED
      BY <2>3, <2>4
  <1>4. PICK g : Iteration(G, ram.mem, n, g)
    <2> HIDE DEF G, n
    <2> QED
      BY <1>1, IterationExists
  <1>5. \A k \in 0 .. n : g[k] = IF k = 0 THEN ram.mem ELSE G[g[k - 1]][k - 1]
    <2> HIDE DEF G, n
    <2> QED
      BY <1>4 DEF Iteration
  <1>6. \A m \in MemType, k \in 1 .. n :
           G[m][k - 1] = CopyPart(m, p, new, part[k])
    <2> HIDE DEF part
    <2>1. ASSUME NEW m \in MemType, NEW k \in 1 .. n
          PROVE  G[m][k - 1] = CopyPart(m, p, new, part[k])
      <3>1. k - 1 \in 0 .. n - 1 /\ k - 1 + 1 = k
        BY <1>1
      <3> QED
        BY <3>1
    <2> QED
      BY <2>1
  <1> HIDE DEF G, part
  <1> DEFINE S == {k \in 0 .. n : g[k] \in C(k)}
  <1>7. \A k \in 0 .. n : k \in S
    <2>1. 0 \in S
      <3> HIDE DEF C, n
      <3> QED
        BY <1>1, <1>2, <1>5
    <2>2. ASSUME NEW k \in 1 .. n, k - 1 \in S PROVE k \in S
      <3>1. k \in 0 .. n /\ k # 0 /\ g[k - 1] \in C(k - 1)
        BY <1>1, <2>2
      <3>2. g[k - 1] \in MemType
        BY <3>1
      <3>3. g[k] = CopyPart(g[k - 1], p, new, part[k])
        <4> HIDE DEF C, n
        <4> QED
          BY <1>5, <1>6, <3>1, <3>2
      <3>4. CopyPart(g[k - 1], p, new, part[k]) \in C(k)
        <4> HIDE DEF C, n
        <4> QED
          BY <1>3, <3>1
      <3> HIDE DEF C, n
      <3> QED
        BY <3>1, <3>3, <3>4
    <2> HIDE DEF S, n
    <2> QED
      BY <1>1, <2>1, <2>2, UpTo
  <1>8. ASSUME NEW k \in 0 .. n
        PROVE  g[k] = IF k = 0 THEN ram.mem
                      ELSE CopyPart(g[k - 1], p, new, part[k])
    <2>1. CASE k = 0
      BY <1>5, <2>1
    <2>2. CASE k # 0
      <3>1. k \in 1 .. n /\ k - 1 \in 0 .. n
        BY <1>1, <2>2
      <3>2. g[k - 1] \in MemType
        BY <1>7, <3>1
      <3> HIDE DEF n
      <3> QED
        BY <1>5, <1>6, <2>2, <3>1, <3>2
    <2> QED
      BY <2>1, <2>2
  <1>9. Eq(g)
    <2> HIDE DEF n
    <2>1. g = [k \in 0 .. n |-> g[k]]
      BY <1>4 DEF Iteration
    <2> QED
      BY <1>8, <2>1
  <1>10. Eq(A)
    <2> HIDE DEF Eq
    <2> QED
      BY <1>9, Zenon
  <1>11. CopyParts(p, new) = A[n]
    BY Zenon DEF CopyParts, part
  <1> HIDE DEF A
  <1>12. \A k \in 0 .. n : A[k] = IF k = 0 THEN ram.mem
                                  ELSE CopyPart(A[k - 1], p, new, part[k])
    <2> HIDE DEF n
    <2> QED
      BY <1>10
  <1> HIDE DEF Eq
  <1> DEFINE Q == {k \in 0 .. n : A[k] = g[k]}
  <1>13. \A k \in 0 .. n : k \in Q
    <2> HIDE DEF n
    <2>1. 0 \in Q
      BY <1>1, <1>8, <1>12
    <2>2. ASSUME NEW k \in 1 .. n, k - 1 \in Q PROVE k \in Q
      BY <1>1, <1>8, <1>12, <2>2
    <2> HIDE DEF Q
    <2> QED
      BY <1>1, <2>1, <2>2, UpTo
  <1>14. n \in 0 .. n
    BY <1>1
  <1> QED
    BY <1>7, <1>11, <1>13, <1>14

(***************************************************************************)
(* Who forks and what else changes.                                        *)
(***************************************************************************)
LEMMA ForkCalls ==
    ASSUME MInv, NEW p \in Procs, NEW c \in Procs, Fork(p, c)
    PROVE  /\ Sound /\ p \in live /\ c \notin live /\ c # 0 /\ c # p
           /\ SpaceInv(p) /\ Separate
           /\ pagedir' = [pagedir EXCEPT ![c] = ram.head]
           /\ pagedir'[c] = ram.head
           /\ \A q \in live : pagedir'[q] = pagedir[q]
           /\ live' = live \cup {c} /\ replaced' = replaced
  <1>1. /\ Sound /\ p \in live /\ c \notin live
        /\ pagedir' = [pagedir EXCEPT ![c] = ram.head]
        /\ live' = live \cup {c} /\ replaced' = replaced
    BY DEF Fork, Calls, Sound
  <1>2. c # 0 /\ c # p
    BY <1>1 DEF MInv, TypeOK
  <1>3. Separate /\ SpaceInv(p)
    BY <1>1 DEF MInv, Separate
  <1>4. /\ pagedir'[c] = ram.head
        /\ \A q \in live : pagedir'[q] = pagedir[q]
    BY <1>1 DEF MInv, TypeOK
  <1> QED
    BY <1>1, <1>2, <1>3, <1>4

(***************************************************************************)
(* A fork that finds the list empty ends the model's account of the        *)
(* memory.                                                                 *)
(***************************************************************************)
LEMMA ForkFails ==
    ASSUME MInv, NEW p \in Procs, NEW c \in Procs, Fork(p, c),
           Taken(p) \cap Ends # {}
    PROVE  ram' \in Memories /\ ~ram'.ok /\ ram'.mem = ram.mem
  <1>1. ram' = [ram EXCEPT !.ok = FALSE]
    BY DEF Fork, CopyProcessMem, Taken
  <1>2. ram' = [mem |-> ram.mem, head |-> ram.head, ok |-> FALSE]
    <2>1. ram = [mem |-> ram.mem, head |-> ram.head, ok |-> ram.ok]
      BY MemoryIs DEF MInv
    <2> QED
      BY <1>1, <2>1
  <1>3. ram.mem \in MemType /\ ram.head \in Lists
    BY MemoryIs DEF MInv
  <1> QED
    BY <1>2, <1>3 DEF Memories

(***************************************************************************)
(* After a fork the pages taken hold the copies and all others what they   *)
(* held.                                                                   *)
(***************************************************************************)
LEMMA ForkMemory ==
    ASSUME MInv, NEW p \in Procs, NEW c \in Procs, Fork(p, c),
           Taken(p) \cap Ends = {}
    PROVE  /\ ram' \in Memories /\ ram'.ok
           /\ ram'.head = OnFreeList[Cardinality(Taken(p))]
           /\ CopiedUpTo(p, NewPages(p), Cardinality(Parts(p)), ram'.mem)
  <1> DEFINE new == NewPages(p)
             mem == CopyParts(p, new)
  <1>1. ram' = [ok |-> TRUE, head |-> OnFreeList[Cardinality(Taken(p))],
                mem |-> mem]
    BY DEF Fork, CopyProcessMem, Taken
  <1>2. /\ ram \in Memories /\ pagedir[p] \in Pages /\ Separate
        /\ SpaceOf(p) \cap FreePages = {}
    BY ForkCalls DEF MInv, SpaceInv
  <1>3. PICK n : IsList(ram, n)
    BY <1>2 DEF Separate
  <1>4. /\ Taken(p) \subseteq Pages /\ Taken(p) \subseteq FreePages
        /\ \A s, t \in Parts(p) : new[s] = new[t] => s = t
    BY <1>2, <1>3, NewPagesAre
  <1>5. PICK k \in 0 .. n : Cardinality(Taken(p)) = k
    BY <1>2, <1>3, NewPagesAre
  <1>6. /\ \A s \in Parts(p) : new[s] \in Taken(p)
        /\ Taken(p) = {new[s] : s \in Parts(p)}
    BY DEF Taken
  <1>7. {pagedir[p]} \cup Tables(p) \subseteq Pages \ Taken(p)
    <2>1. {pagedir[p]} \cup Tables(p) \subseteq SpaceOf(p)
      BY DEF SpaceOf
    <2>2. SpaceOf(p) \subseteq Pages
      BY <1>2, SpaceTypes
    <2> QED
      BY <1>2, <1>4, <2>1, <2>2
  <1> HIDE DEF new
  <1>8. CopiedUpTo(p, new, Cardinality(Parts(p)), mem)
    BY <1>2, <1>4, <1>6, <1>7, CopyPartsAre
  <1> HIDE DEF mem
  <1>9. OnFreeList[Cardinality(Taken(p))] \in Lists
    <2>1. ram.head \in Lists
      BY <1>2, MemoryIs
    <2>2. k \in 0 .. PAGES
      BY <1>3, Sizes DEF IsList
    <2> QED
      BY <1>5, <2>1, <2>2, ListIs, FreePagesAre
  <1>10. ram'.mem = mem /\ ram'.ok
         /\ ram'.head = OnFreeList[Cardinality(Taken(p))]
    BY <1>1
  <1>11. ram' \in Memories
    BY <1>1, <1>8, <1>9 DEF Memories, CopiedUpTo
  <1> QED
    BY <1>8, <1>10, <1>11 DEF new

(***************************************************************************)
(* Walked through, that memory is a copy of the father's.                  *)
(***************************************************************************)
LEMMA ForkCopied ==
    ASSUME MInv, NEW p \in Procs, NEW c \in Procs, Fork(p, c),
           Taken(p) \cap Ends = {}
    PROVE  /\ \A q \in Pages \ Taken(p) : ram'.mem[q] = ram.mem[q]
           /\ \A i \in Words : ram'.mem[NewPages(p)[Directory]][i] =
                IF i \in Regions(p) THEN Entry(NewPages(p)[<<i, -1>>])
                ELSE ram.mem[pagedir[p]][i]
           /\ \A i \in Regions(p), j \in Words :
                ram'.mem[NewPages(p)[<<i, -1>>]][j] =
                  IF <<i, j>> \in Mapped(p) THEN Entry(NewPages(p)[<<i, j>>])
                  ELSE ram.mem[Table(p, i)][j]
           /\ \A at \in Mapped(p) : Frame(p, at) \notin Taken(p) =>
                ram'.mem[NewPages(p)[at]] = ram.mem[Frame(p, at)]
  <1> DEFINE n == Cardinality(Parts(p))
             new == NewPages(p)
  <1>1. CopiedUpTo(p, new, n, ram'.mem)
    BY ForkMemory
  <1>2. ram \in Memories /\ pagedir[p] \in Pages
    BY ForkCalls DEF MInv, SpaceInv
  <1>3. /\ n \in Nat
        /\ \A t \in Parts(p) : Rank(p, t) < n
    <2>1. n \in Nat /\ \A t \in Parts(p) : Rank(p, t) \in 0 .. n - 1
      BY <1>2, Ranks
    <2> HIDE DEF n
    <2> QED
      BY <2>1
  <1>4. /\ \A i \in Regions(p) : <<i, -1>> \in Parts(p)
        /\ \A at \in Mapped(p) : at \in Parts(p)
        /\ Directory \in Parts(p)
    BY <1>2, PartsAre
  <1>5. 0 < n
    <2>1. Rank(p, Directory) = 0
      BY <1>2, Ranks
    <2> QED
      BY <1>3, <1>4, <2>1
  <1>6. ASSUME NEW i \in Regions(p), NEW j \in Words, <<i, j>> \in Mapped(p)
        PROVE  Rank(p, <<i, j>>) < n
    BY <1>3, <1>4, <1>6
  <1> HIDE DEF n, new
  <1> QED
    BY <1>1, <1>3, <1>4, <1>5, <1>6 DEF CopiedUpTo, new

(***************************************************************************)
(* copy_process_mem: walking the child's directory and tables leads to the *)
(* pages taken, at the addresses of the father, with the contents of his   *)
(* unless they are themselves pages that this fork takes.                  *)
(***************************************************************************)
LEMMA ForkChild ==
    ASSUME MInv, NEW p \in Procs, NEW c \in Procs, Fork(p, c),
           Taken(p) \cap Ends = {}
    PROVE  /\ Regions(c)' = Regions(p) /\ Mapped(c)' = Mapped(p)
           /\ Places(c)' = Mapped(p)
           /\ \A i \in Regions(p) : Table(c, i)' = NewPages(p)[<<i, -1>>]
           /\ \A at \in Mapped(p) :
                /\ Frame(c, at)' = NewPages(p)[at]
                /\ \/ ram'.mem[Frame(c, at)'] = ram.mem[Frame(p, at)]
                   \/ Frame(p, at) \in Taken(p)
           /\ SpaceOf(c)' = Taken(p)
  <1> DEFINE new == NewPages(p)
             dir == ram.head
  <1>1. /\ ram \in Memories /\ pagedir[p] \in Pages /\ Separate
        /\ pagedir'[c] = dir /\ c # 0
    BY ForkCalls DEF MInv, SpaceInv
  <1>2. PICK n : IsList(ram, n)
    BY <1>1 DEF Separate
  <1>3. /\ Taken(p) \subseteq Pages
        /\ new[Directory] = dir
    BY <1>1, <1>2, NewPagesAre
  <1>4. /\ \A i \in Words : ram'.mem[new[Directory]][i] =
             IF i \in Regions(p) THEN Entry(new[<<i, -1>>])
             ELSE ram.mem[pagedir[p]][i]
        /\ \A i \in Regions(p), j \in Words : ram'.mem[new[<<i, -1>>]][j] =
             IF <<i, j>> \in Mapped(p) THEN Entry(new[<<i, j>>])
             ELSE ram.mem[Table(p, i)][j]
        /\ \A at \in Mapped(p) : Frame(p, at) \notin Taken(p) =>
             ram'.mem[new[at]] = ram.mem[Frame(p, at)]
    BY ForkCopied
  <1>5. /\ Directory \in Parts(p)
        /\ \A i \in Regions(p) : i \in Words /\ <<i, -1>> \in Parts(p)
        /\ \A at \in Mapped(p) : at \in Parts(p) /\ at[2] # -1
        /\ \A t \in Parts(p) : \/ t = Directory
                               \/ \E i \in Regions(p) : t = <<i, -1>>
                               \/ t \in Mapped(p)
    BY <1>1, PartsAre
  <1>6. \A t \in Parts(p) : /\ new[t] \in Taken(p) /\ new[t] \in Pages
                           /\ IsEntry(Entry(new[t]))
                           /\ Entry(new[t]).val = new[t]
    <2>1. \A t \in Parts(p) : new[t] \in Taken(p)
      BY DEF Taken
    <2> HIDE DEF new
    <2> QED
      BY <1>3, <2>1, WordIs
  <1> HIDE DEF new
  <1>7. ASSUME NEW i \in Words
        PROVE  ram'.mem[dir][i] =
                 IF i \in Regions(p) THEN Entry(new[<<i, -1>>])
                 ELSE ram.mem[pagedir[p]][i]
    BY <1>3, <1>4
  <1>8. Regions(c)' = Regions(p)
    <2>1. Regions(c)' = {i \in Words : IsEntry(ram'.mem[dir][i])}
      BY <1>1 DEF Regions
    <2>2. ASSUME NEW i \in Words
          PROVE  IsEntry(ram'.mem[dir][i]) <=> i \in Regions(p)
      <3>1. CASE i \in Regions(p)
        <4>1. ram'.mem[dir][i] = Entry(new[<<i, -1>>])
          BY <1>7, <3>1
        <4>2. <<i, -1>> \in Parts(p)
          BY <1>5, <3>1
        <4>3. IsEntry(Entry(new[<<i, -1>>]))
          BY <1>6, <4>2
        <4> QED
          BY <3>1, <4>1, <4>3
      <3>2. CASE i \notin Regions(p)
        BY <1>7, <3>2 DEF Regions
      <3> QED
        BY <3>1, <3>2
    <2>3. Regions(p) \subseteq Words
      BY DEF Regions
    <2> QED
      BY <2>1, <2>2, <2>3
  <1>9. ASSUME NEW i \in Regions(p) PROVE Table(c, i)' = new[<<i, -1>>]
    <2>1. Table(c, i)' = ram'.mem[dir][i].val
      BY <1>1 DEF Table
    <2> QED
      BY <1>5, <1>6, <1>7, <2>1
  <1>10. ASSUME NEW i \in Regions(p), NEW j \in Words
         PROVE  ram'.mem[new[<<i, -1>>]][j] =
                  IF <<i, j>> \in Mapped(p) THEN Entry(new[<<i, j>>])
                  ELSE ram.mem[Table(p, i)][j]
    BY <1>4
  <1>11. Mapped(c)' = Mapped(p)
    <2>1. Mapped(c)' = {at \in Words \X Words :
                          /\ at[1] \in Regions(c)'
                          /\ IsEntry(ram'.mem[Table(c, at[1])'][at[2]])}
      BY DEF Mapped
    <2>2. ASSUME NEW i \in Regions(p), NEW j \in Words
          PROVE  IsEntry(ram'.mem[new[<<i, -1>>]][j])
                   <=> <<i, j>> \in Mapped(p)
      <3>1. CASE <<i, j>> \in Mapped(p)
        BY <1>5, <1>6, <1>10, <3>1
      <3>2. CASE <<i, j>> \notin Mapped(p)
        <4>1. i \in Words
          BY <1>5
        <4>2. ~IsEntry(ram.mem[Table(p, i)][j])
          BY <3>2, <4>1 DEF Mapped
        <4> QED
          BY <1>10, <3>2, <4>2
      <3> QED
        BY <3>1, <3>2
    <2>3. ASSUME NEW at \in Words \X Words
          PROVE  at \in Mapped(c)' <=> at \in Mapped(p)
      <3>1. PICK i \in Words, j \in Words : at = <<i, j>>
        OBVIOUS
      <3>2. CASE i \in Regions(p)
        BY <1>8, <1>9, <2>1, <2>2, <3>1, <3>2
      <3>3. CASE i \notin Regions(p)
        BY <1>8, <2>1, <3>1, <3>3 DEF Mapped
      <3> QED
        BY <3>2, <3>3
    <2>4. Mapped(p) \subseteq Words \X Words
          /\ Mapped(c)' \subseteq Words \X Words
      BY <2>1 DEF Mapped
    <2> QED
      BY <2>3, <2>4
  <1>12. ASSUME NEW at \in Mapped(p)
         PROVE  /\ Frame(c, at)' = new[at]
                /\ \/ ram'.mem[Frame(c, at)'] = ram.mem[Frame(p, at)]
                   \/ Frame(p, at) \in Taken(p)
    <2>1. /\ at \in Parts(p) /\ at[2] # -1
          /\ at[1] \in Regions(p) /\ at[2] \in Words /\ at = <<at[1], at[2]>>
      BY <1>5 DEF Mapped
    <2>2. Frame(c, at)' = ram'.mem[new[<<at[1], -1>>]][at[2]].val
      BY <1>9, <2>1 DEF Frame
    <2>3. ram'.mem[new[<<at[1], -1>>]][at[2]] = Entry(new[at])
      BY <1>10, <2>1
    <2>4. Frame(c, at)' = new[at]
      BY <1>6, <2>1, <2>2, <2>3
    <2> QED
      BY <1>4, <2>4
  <1>13. Places(c)' = Mapped(p)
    BY <1>1, <1>11 DEF Places
  <1>14. SpaceOf(c)' = Taken(p)
    <2>1. Tables(c)' = {new[<<i, -1>>] : i \in Regions(p)}
      BY <1>8, <1>9 DEF Tables
    <2>2. Frames(c)' = {new[at] : at \in Mapped(p)}
      BY <1>12, <1>13 DEF Frames
    <2>3. SpaceOf(c)' = {new[Directory]} \cup Tables(c)' \cup Frames(c)'
      BY <1>1, <1>3 DEF SpaceOf
    <2>4. Taken(p) = {new[t] : t \in Parts(p)}
      BY DEF Taken, new
    <2>5. \A t \in Parts(p) : new[t] \in SpaceOf(c)'
      BY <1>5, <2>1, <2>2, <2>3
    <2>6. \A q \in SpaceOf(c)' : q \in Taken(p)
      BY <1>5, <1>6, <2>1, <2>2, <2>3
    <2> QED
      BY <2>4, <2>5, <2>6
  <1> QED
    BY <1>8, <1>9, <1>11, <1>12, <1>13, <1>14 DEF new

(***************************************************************************)
(* The list after a fork is what the pages taken leave of it.              *)
(***************************************************************************)
LEMMA ForkList ==
    ASSUME MInv, NEW p \in Procs, NEW c \in Procs, Fork(p, c),
           Taken(p) \cap Ends = {}
    PROVE  /\ FreePages' = FreePages \ Taken(p)
           /\ \E n : IsList(ram', n)
           /\ Taken(p) \subseteq FreePages
  <1>1. ram \in Memories /\ pagedir[p] \in Pages /\ Separate
    BY ForkCalls DEF MInv, SpaceInv
  <1>2. PICK n : IsList(ram, n)
    BY <1>1 DEF Separate
  <1> DEFINE L == ListFrom(ram)
  <1>3. PICK c0 \in 0 .. n : /\ Cardinality(Taken(p)) = c0
                            /\ Taken(p) = {L[k] : k \in 0 .. c0 - 1}
    BY <1>1, <1>2, NewPagesAre, FreePagesAre
  <1>4. /\ ram'.head = L[c0]
        /\ \A q \in Pages \ Taken(p) : ram'.mem[q] = ram.mem[q]
        /\ \A k \in 0 .. c0 - 1 : L[k] # PAGES
    <2>1. ram'.head = L[c0]
      BY <1>3, ForkMemory, FreePagesAre
    <2>2. PAGES \notin Taken(p)
      BY DEF Ends
    <2> QED
      BY <1>3, <2>1, <2>2, ForkCopied
  <1>5. ram.head \in Lists
    BY <1>1, MemoryIs
  <1>6. ASSUME NEW k \in c0 .. n - 1 PROVE ram'.mem[L[k]] = ram.mem[L[k]]
    <2>1. /\ n \in Nat /\ k \in 0 .. n - 1
          /\ \A j \in 0 .. c0 - 1 : j \in 0 .. n - 1 /\ j # k
      BY <1>2, Sizes DEF IsList
    <2>2. L[k] \in Pages
      BY <1>2, <1>5, <2>1, OnListIs
    <2>3. \A j \in 0 .. c0 - 1 : L[j] # L[k]
      BY <1>2, <2>1 DEF IsList
    <2> QED
      BY <1>3, <1>4, <2>2, <2>3
  <1>7. /\ IsList(ram', n - c0)
        /\ OnList(ram') = OnList(ram) \ {L[k] : k \in 0 .. c0 - 1}
    BY <1>2, <1>4, <1>5, <1>6, ListPop
  <1>8. FreePages' = OnList(ram')
    BY DEF FreePages, OnFreeList, OnList
  <1> QED
    BY <1>1, <1>2, <1>3, <1>7, <1>8, FreePagesAre, NewPagesAre

-----------------------------------------------------------------------------
(***************************************************************************)
(* A process whose pages keep their contents keeps its address space and   *)
(* what it sees.                                                           *)
(***************************************************************************)
LEMMA OthersKept ==
    ASSUME MInv, Sound, NEW q \in live, pagedir'[q] = pagedir[q],
           \A x \in SpaceOf(q) : ram'.mem[x] = ram.mem[x]
    PROVE  /\ Regions(q)' = Regions(q) /\ Mapped(q)' = Mapped(q)
           /\ Places(q)' = Places(q)
           /\ \A i \in Regions(q) : Table(q, i)' = Table(q, i)
           /\ \A at \in Mapped(q) : Frame(q, at)' = Frame(q, at)
           /\ Tables(q)' = Tables(q) /\ Frames(q)' = Frames(q)
           /\ SpaceOf(q)' = SpaceOf(q)
           /\ Seen(q)' = Seen(q)
  <1>1. /\ ram.mem[pagedir[q]] = ram'.mem[pagedir[q]]
        /\ \A t \in Tables(q) : ram'.mem[t] = ram.mem[t]
    BY DEF SpaceOf
  <1>2. /\ Regions(q)' = Regions(q) /\ Mapped(q)' = Mapped(q)
        /\ Places(q)' = Places(q)
        /\ \A i \in Regions(q) : Table(q, i)' = Table(q, i)
        /\ \A at \in Mapped(q) : Frame(q, at)' = Frame(q, at)
        /\ Tables(q)' = Tables(q) /\ Frames(q)' = Frames(q)
        /\ SpaceOf(q)' = SpaceOf(q)
    BY <1>1, SpaceKept
  <1>3. ASSUME NEW at \in Places(q)
        PROVE  ram'.mem[Frame(q, at)'] = ram.mem[Frame(q, at)]
    <2>1. Frame(q, at)' = Frame(q, at) /\ Frame(q, at) \in SpaceOf(q)
      BY <1>2 DEF Places, Frames, SpaceOf
    <2> QED
      BY <2>1
  <1>4. Seen(q)' = Seen(q)
    BY <1>2, <1>3 DEF Seen
  <1> QED
    BY <1>2, <1>4

(***************************************************************************)
(* Fork writes to no page of a process that was there before.              *)
(***************************************************************************)
LEMMA ForkOthers ==
    ASSUME MInv, NEW p \in Procs, NEW c \in Procs, Fork(p, c),
           Taken(p) \cap Ends = {}, NEW q \in live
    PROVE  /\ pagedir'[q] = pagedir[q]
           /\ \A x \in SpaceOf(q) : ram'.mem[x] = ram.mem[x]
  <1>1. /\ Taken(p) \subseteq FreePages
        /\ \A x \in Pages \ Taken(p) : ram'.mem[x] = ram.mem[x]
    BY ForkList, ForkCopied
  <1>2. /\ pagedir[q] \in Pages /\ SpaceOf(q) \cap FreePages = {}
        /\ pagedir'[q] = pagedir[q]
    BY ForkCalls DEF Separate, SpaceInv
  <1>3. SpaceOf(q) \subseteq Pages
    BY <1>2, SpaceTypes DEF MInv
  <1> QED
    BY <1>1, <1>2, <1>3

(***************************************************************************)
(* Hence father, child and all others are separate.                        *)
(***************************************************************************)
LEMMA ForkSeparate ==
    ASSUME MInv, NEW p \in Procs, NEW c \in Procs, Fork(p, c),
           Taken(p) \cap Ends = {}
    PROVE  Separate'
  <1> DEFINE new == NewPages(p)
  <1>1. /\ Sound /\ Separate /\ SpaceInv(p) /\ ram \in Memories
        /\ c \notin live /\ live' = live \cup {c}
        /\ pagedir'[c] = ram.head
    BY ForkCalls DEF MInv
  <1>2. PICK n : IsList(ram, n)
    BY <1>1 DEF Separate
  <1>3. /\ \A s, t \in Parts(p) : new[s] = new[t] => s = t
        /\ new[Directory] = ram.head
        /\ Taken(p) \subseteq Pages
        /\ ram.head \in Taken(p)
    BY <1>1, <1>2, NewPagesAre DEF SpaceInv
  <1>4. /\ FreePages' = FreePages \ Taken(p)
        /\ \E k : IsList(ram', k)
        /\ Taken(p) \subseteq FreePages
    BY ForkList
  <1>5. ASSUME NEW q \in live
        PROVE  /\ SpaceInv(q)'
               /\ SpaceOf(q)' = SpaceOf(q)
               /\ SpaceOf(q)' \cap Taken(p) = {}
    <2>1. /\ pagedir'[q] = pagedir[q]
          /\ \A x \in SpaceOf(q) : ram'.mem[x] = ram.mem[x]
      BY ForkOthers
    <2>2. /\ Regions(q)' = Regions(q) /\ Mapped(q)' = Mapped(q)
          /\ Places(q)' = Places(q)
          /\ \A at \in Mapped(q) : Frame(q, at)' = Frame(q, at)
          /\ Tables(q)' = Tables(q) /\ Frames(q)' = Frames(q)
          /\ SpaceOf(q)' = SpaceOf(q)
      BY <1>1, <2>1, OthersKept
    <2>3. SpaceInv(q)
      BY <1>1 DEF Separate
    <2>4. \A at \in Places(q) : Frame(q, at)' = Frame(q, at)
      BY <2>2 DEF Places
    <2>5. SpaceInv(q)'
      BY <1>4, <2>1, <2>2, <2>3, <2>4 DEF SpaceInv
    <2> QED
      BY <1>4, <2>2, <2>3, <2>5 DEF SpaceInv
  <1>6. SpaceInv(c)' /\ SpaceOf(c)' = Taken(p)
    <2>1. /\ Regions(c)' = Regions(p) /\ Mapped(c)' = Mapped(p)
          /\ Places(c)' = Mapped(p)
          /\ \A i \in Regions(p) : Table(c, i)' = new[<<i, -1>>]
          /\ \A at \in Mapped(p) : Frame(c, at)' = new[at]
          /\ SpaceOf(c)' = Taken(p)
      BY ForkChild
    <2>2. /\ Directory \in Parts(p)
          /\ \A i \in Regions(p) : i \in Words /\ <<i, -1>> \in Parts(p)
          /\ \A at \in Mapped(p) : at \in Parts(p) /\ at[2] # -1
      BY <1>1, PartsAre DEF SpaceInv
    <2> HIDE DEF new
    <2>3. /\ Tables(c)' = {new[<<i, -1>>] : i \in Regions(p)}
          /\ Frames(c)' = {new[at] : at \in Mapped(p)}
      BY <2>1 DEF Tables, Frames
    <2>4. pagedir'[c] \notin Tables(c)' \cup Frames(c)'
      <3>1. \A i \in Regions(p) : new[<<i, -1>>] # new[Directory]
        <4>1. \A i \in Regions(p) : <<i, -1>> # Directory
          BY <2>2, Sizes DEF Words, Directory
        <4> QED
          BY <1>3, <2>2, <4>1
      <3>2. \A at \in Mapped(p) : new[at] # new[Directory]
        <4>1. \A at \in Mapped(p) : at # Directory
          BY <2>2 DEF Directory
        <4> QED
          BY <1>3, <2>2, <4>1
      <3> QED
        BY <1>1, <1>3, <2>3, <3>1, <3>2
    <2>5. Tables(c)' \cap Frames(c)' = {}
      <3>1. \A i \in Regions(p), at \in Mapped(p) : <<i, -1>> # at
        BY <2>2
      <3>2. \A i \in Regions(p), at \in Mapped(p) : new[<<i, -1>>] # new[at]
        BY <1>3, <2>2, <3>1
      <3> QED
        BY <2>3, <3>2
    <2>6. \A s, t \in Places(c)' : s # t => Frame(c, s)' # Frame(c, t)'
      BY <1>3, <2>1, <2>2
    <2>7. <<Top, Top>> \in Mapped(c)'
      BY <1>1, <2>1 DEF SpaceInv
    <2>8. SpaceOf(c)' \cap FreePages' = {} /\ pagedir'[c] \in Pages
      BY <1>1, <1>3, <1>4, <2>1
    <2> QED
      BY <2>1, <2>4, <2>5, <2>6, <2>7, <2>8 DEF SpaceInv
  <1>7. ASSUME NEW q \in live', NEW r \in live', q # r
        PROVE  SpaceOf(q)' \cap SpaceOf(r)' = {}
    <2>1. CASE q \in live /\ r \in live
      BY <1>1, <1>5, <1>7, <2>1 DEF Separate
    <2>2. CASE q = c
      BY <1>1, <1>5, <1>6, <1>7, <2>2
    <2>3. CASE r = c
      BY <1>1, <1>5, <1>6, <1>7, <2>3
    <2> QED
      BY <1>1, <2>1, <2>2, <2>3
  <1>8. \A q \in live' : SpaceInv(q)'
    BY <1>1, <1>5, <1>6
  <1> QED
    BY <1>4, <1>7, <1>8 DEF Separate

LEMMA ForkInv ==
    ASSUME MInv, NEW p \in Procs, NEW c \in Procs, Fork(p, c)
    PROVE  MInv'
  <1>1. /\ c \notin live /\ c # 0 /\ SpaceInv(p)
        /\ pagedir' = [pagedir EXCEPT ![c] = ram.head]
        /\ live' = live \cup {c} /\ replaced' = replaced
        /\ pagedir'[c] = ram.head
        /\ \A q \in live : pagedir'[q] = pagedir[q]
        /\ Separate /\ ram \in Memories /\ TypeOK /\ pagedir[0] = 0
    BY ForkCalls DEF MInv
  <1>2. ram' \in Memories
    BY ForkFails, ForkMemory
  <1>3. ram'.ok => Taken(p) \cap Ends = {} /\ Separate'
    BY ForkFails, ForkSeparate
  <1>4. TypeOK'
    <2>1. /\ ram'.mem \in [Pages -> [Words -> Word]]
          /\ ram'.head \in Pages \cup {NoPage} /\ ram'.ok \in BOOLEAN
      BY <1>2, MemoryIs DEF MemType, Lists
    <2>2. ram.head \in Pages \cup {NoPage}
      BY <1>1 DEF TypeOK
    <2>3. pagedir' \in [Procs -> Pages \cup {NoPage}]
      BY <1>1, <2>2 DEF TypeOK
    <2>4. \A q \in live' : pagedir'[q] # NoPage \/ ~ram'.ok
      <3>1. ASSUME ram'.ok, NEW q \in live' PROVE pagedir'[q] \in Pages
        BY <1>3, <3>1 DEF Separate, SpaceInv
      <3> QED
        BY <3>1, Sizes
    <2>5. /\ live' \subseteq Procs /\ 0 \in live'
          /\ replaced' \in Procs \cup {Nobody}
      BY <1>1 DEF TypeOK
    <2> QED
      BY <2>1, <2>3, <2>4, <2>5 DEF TypeOK
  <1>5. pagedir'[0] = 0
    BY <1>1 DEF TypeOK
  <1> QED
    BY <1>2, <1>3, <1>4, <1>5 DEF MInv, Sound

-----------------------------------------------------------------------------
(***************************************************************************)
(* The types, from those of the memory.                                    *)
(***************************************************************************)
LEMMA TypesFrom ==
    ASSUME MInv, ram' \in Memories, pagedir' = pagedir,
           live' \subseteq live, 0 \in live',
           replaced' \in Procs \cup {Nobody}, Sound
    PROVE  TypeOK' /\ pagedir'[0] = 0
  <1>1. /\ ram'.mem \in [Pages -> [Words -> Word]]
        /\ ram'.head \in Pages \cup {NoPage} /\ ram'.ok \in BOOLEAN
    BY MemoryIs DEF MemType, Lists
  <1>2. \A q \in live : pagedir[q] # NoPage
    BY DEF MInv, TypeOK, Sound
  <1> QED
    BY <1>1, <1>2 DEF MInv, TypeOK

(***************************************************************************)
(* sys_exit: the directory comes back to the list; tables and pages, which *)
(* nothing frees, belong to no process and are not on the list either.     *)
(***************************************************************************)
LEMMA ExitInv ==
    ASSUME MInv, NEW p \in Procs, Exit(p)
    PROVE  /\ MInv' /\ Sound'
           /\ FreePages' = FreePages \cup {pagedir[p]}
           /\ \A q \in live \ {p} :
                SpaceOf(q)' = SpaceOf(q) /\ Seen(q)' = Seen(q)
  <1> DEFINE d == pagedir[p]
  <1>1. /\ Sound /\ p \in live /\ p # 0
        /\ ram' = FreePage(ram, d) /\ live' = live \ {p}
        /\ pagedir' = pagedir /\ replaced' = replaced
        /\ ram \in Memories /\ pagedir[0] = 0 /\ 0 \in live
        /\ Separate /\ SpaceInv(p) /\ SpaceInv(0)
    BY DEF Exit, ExitFrees, Calls, Sound, MInv, Separate, TypeOK
  <1>2. /\ d \in Pages /\ d \notin FreePages /\ d \in SpaceOf(p)
        /\ 0 \notin FreePages /\ d # 0
    <2>1. 0 \in SpaceOf(0) /\ d \in SpaceOf(p)
      BY <1>1 DEF SpaceOf
    <2> QED
      BY <1>1, <2>1 DEF SpaceInv, Separate
  <1>3. /\ ram' \in Memories /\ ram'.head = d /\ ram'.ok = ram.ok
        /\ \A x \in Pages \ {d} : ram'.mem[x] = ram.mem[x]
        /\ LinkIn(ram'.mem, d) = ram.head
    BY <1>1, <1>2, FreePageType
  <1> HIDE DEF d
  <1>4. (\E n : IsList(ram', n)) /\ FreePages' = FreePages \cup {d}
    <2>1. PICK n : IsList(ram, n)
      BY <1>1 DEF Separate
    <2>2. /\ ram.head \in Lists /\ d \in Pages \ OnList(ram)
          /\ d \in Pages \ {0} /\ d \notin OnList(ram) /\ 0 \notin OnList(ram)
      BY <1>1, <1>2, MemoryIs, FreePagesAre
    <2>3. n + 1 <= PAGES
      BY <2>1, <2>2, ListHasRoom
    <2>4. \A x \in OnList(ram) : ram'.mem[x] = ram.mem[x]
      BY <1>3, <2>1, <2>2, OnListIs
    <2>5. IsList(ram', n + 1) /\ OnList(ram') = OnList(ram) \cup {d}
      BY <1>3, <2>1, <2>2, <2>3, <2>4, ListPush
    <2>6. FreePages' = OnList(ram')
      BY DEF FreePages, OnFreeList, OnList
    <2> QED
      BY <2>5, <2>6, FreePagesAre
  <1>5. ASSUME NEW q \in live \ {p}
        PROVE  SpaceInv(q)' /\ SpaceOf(q)' = SpaceOf(q) /\ Seen(q)' = Seen(q)
    <2>1. SpaceInv(q) /\ SpaceOf(q) \cap SpaceOf(p) = {}
          /\ SpaceOf(q) \subseteq Pages
      BY <1>1, SpaceTypes DEF Separate, SpaceInv
    <2>2. \A x \in SpaceOf(q) : ram'.mem[x] = ram.mem[x]
      BY <1>2, <1>3, <2>1
    <2>3. /\ Regions(q)' = Regions(q) /\ Mapped(q)' = Mapped(q)
          /\ Places(q)' = Places(q)
          /\ \A at \in Mapped(q) : Frame(q, at)' = Frame(q, at)
          /\ Tables(q)' = Tables(q) /\ Frames(q)' = Frames(q)
          /\ SpaceOf(q)' = SpaceOf(q)
          /\ Seen(q)' = Seen(q)
      BY <1>1, <2>2, OthersKept
    <2>4. \A at \in Places(q) : Frame(q, at)' = Frame(q, at)
      BY <2>3 DEF Places
    <2>5. SpaceOf(q)' \cap FreePages' = {}
      BY <1>2, <1>4, <2>1, <2>3 DEF SpaceInv
    <2>6. SpaceInv(q)'
      BY <1>1, <2>1, <2>3, <2>4, <2>5 DEF SpaceInv
    <2> QED
      BY <2>3, <2>6
  <1>6. Separate'
    BY <1>1, <1>4, <1>5 DEF Separate
  <1>7. TypeOK' /\ pagedir'[0] = 0
    <2>1. /\ live' \subseteq live /\ 0 \in live'
          /\ replaced' \in Procs \cup {Nobody}
      BY <1>1 DEF MInv, TypeOK
    <2> QED
      BY <1>1, <1>3, <2>1, TypesFrom
  <1>8. Sound'
    BY <1>1, <1>3 DEF Sound
  <1> QED
    BY <1>3, <1>4, <1>5, <1>6, <1>7, <1>8 DEF MInv, d

(***************************************************************************)
(* A store goes to one page of the process that stores.                    *)
(***************************************************************************)
LEMMA StoreInv ==
    ASSUME MInv, NEW p \in Procs, Store(p)
    PROVE  /\ MInv' /\ Sound'
           /\ FreePages' = FreePages
           /\ \A q \in live : SpaceOf(q)' = SpaceOf(q)
           /\ \A q \in live \ {p} : Seen(q)' = Seen(q)
  <1>1. /\ Sound /\ p \in live /\ p # 0
        /\ live' = live /\ pagedir' = pagedir /\ replaced' = replaced
        /\ ram \in Memories /\ Separate /\ SpaceInv(p)
    BY DEF Store, Calls, Sound, MInv, Separate
  <1>2. PICK at \in Places(p), v \in Stored :
           ram' = [ram EXCEPT !.mem[Frame(p, at)] = Filled(Data(v))]
    BY DEF Store
  <1> DEFINE f == Frame(p, at)
  <1>3. f \in Pages /\ f \in SpaceOf(p) /\ f \in Frames(p)
    <2>1. pagedir[p] \in Pages
      BY <1>1 DEF SpaceInv
    <2> QED
      BY <1>1, <2>1, SpaceTypes DEF Frames, SpaceOf
  <1> HIDE DEF f
  <1>4. /\ ram' \in Memories /\ ram'.head = ram.head /\ ram'.ok = ram.ok
        /\ \A x \in Pages \ {f} : ram'.mem[x] = ram.mem[x]
    <2>1. ram' = Put(ram, f, Filled(Data(v)))
      BY <1>2 DEF Put, f
    <2>2. Filled(Data(v)) \in [Words -> Word]
      BY WordIs
    <2> QED
      BY <1>1, <1>3, <2>1, <2>2, PageReplaced
  <1>5. (\E n : IsList(ram', n)) /\ FreePages' = FreePages
    <2>1. PICK n : IsList(ram, n)
      BY <1>1 DEF Separate
    <2>2. f \notin OnList(ram) /\ ram.head \in Lists
      BY <1>1, <1>3, MemoryIs, FreePagesAre DEF SpaceInv
    <2>3. \A x \in OnList(ram) : ram'.mem[x] = ram.mem[x]
      BY <1>4, <2>1, <2>2, OnListIs
    <2>4. IsList(ram', n) /\ OnList(ram') = OnList(ram)
      BY <1>4, <2>1, <2>2, <2>3, ListKept
    <2>5. FreePages' = OnList(ram')
      BY DEF FreePages, OnFreeList, OnList
    <2> QED
      BY <2>4, <2>5, FreePagesAre
  <1>6. ASSUME NEW q \in live
        PROVE  /\ SpaceInv(q)' /\ SpaceOf(q)' = SpaceOf(q)
               /\ q # p => Seen(q)' = Seen(q)
    <2>1. SpaceInv(q) /\ SpaceOf(q) \subseteq Pages
      BY <1>1, SpaceTypes DEF Separate, SpaceInv
    <2>2. q # p => f \notin SpaceOf(q)
      BY <1>1, <1>3 DEF Separate
    <2>3. pagedir[q] # f /\ f \notin Tables(q)
      BY <1>3, <2>1, <2>2 DEF SpaceInv, SpaceOf
    <2>4. /\ ram.mem[pagedir[q]] = ram'.mem[pagedir[q]]
          /\ \A t \in Tables(q) : ram'.mem[t] = ram.mem[t]
      BY <1>4, <2>1, <2>3 DEF SpaceOf
    <2>5. /\ Regions(q)' = Regions(q) /\ Mapped(q)' = Mapped(q)
          /\ Places(q)' = Places(q)
          /\ \A a \in Mapped(q) : Frame(q, a)' = Frame(q, a)
          /\ Tables(q)' = Tables(q) /\ Frames(q)' = Frames(q)
          /\ SpaceOf(q)' = SpaceOf(q)
      BY <1>1, <2>4, SpaceKept
    <2>6. \A a \in Places(q) : Frame(q, a)' = Frame(q, a)
      BY <2>5 DEF Places
    <2>7. SpaceInv(q)'
      BY <1>1, <1>5, <2>1, <2>5, <2>6 DEF SpaceInv
    <2>8. ASSUME q # p PROVE Seen(q)' = Seen(q)
      <3>1. \A x \in SpaceOf(q) : ram'.mem[x] = ram.mem[x]
        BY <1>4, <2>1, <2>2, <2>8
      <3> QED
        BY <1>1, <3>1, OthersKept
    <2> QED
      BY <2>5, <2>7, <2>8
  <1>7. Separate'
    BY <1>1, <1>5, <1>6 DEF Separate
  <1>8. TypeOK' /\ pagedir'[0] = 0
    <2>1. /\ live' \subseteq live /\ 0 \in live'
          /\ replaced' \in Procs \cup {Nobody}
      BY <1>1 DEF MInv, TypeOK
    <2> QED
      BY <1>1, <1>4, <2>1, TypesFrom
  <1>9. Sound'
    BY <1>1, <1>4 DEF Sound
  <1> QED
    BY <1>4, <1>5, <1>6, <1>7, <1>8, <1>9 DEF MInv

-----------------------------------------------------------------------------
(***************************************************************************)
(* The loops of loadProcess: over the pages of a segment and over the      *)
(* segments.                                                               *)
(***************************************************************************)
PageStep(d, p, stale, image, s, k) ==
    IF k < s.size
    THEN LoadPage(d, p, stale, image, <<s.region, s.page + k>>) ELSE d

LoadPages(m, p, stale, image, s) ==
    ForEach(LAMBDA d, k : PageStep(d, p, stale, image, s, k), m)

SegmentStep(d, p, stale, image, segments, k) ==
    IF k < Len(segments)
    THEN LoadSegment(d, p, stale, image, segments[k + 1]) ELSE d

LoadSegments(m, p, stale, image, segments) ==
    ForEach(LAMBDA d, k : SegmentStep(d, p, stale, image, segments, k), m)

LEMMA LoadPagesKeep ==
    ASSUME NEW p, NEW stale, NEW image, NEW s, NEW P, NEW m \in P,
           \A d \in P, k \in Words :
             PageStep(d, p, stale, image, s, k) \in P
    PROVE  LoadPages(m, p, stale, image, s) \in P
  <1> DEFINE G == [d \in P |->
                     [k \in Words |-> PageStep(d, p, stale, image, s, k)]]
             Eq(f) == f = [k \in 0 .. WORDS |-> IF k = 0 THEN m
                          ELSE IF f[k - 1].ok
                          THEN PageStep(f[k-1], p, stale, image, s, k-1)
                          ELSE f[k - 1]]
             A == CHOOSE f : Eq(f)
  <1>1. \A d \in P, k \in Words :
           G[d][k] = PageStep(d, p, stale, image, s, k)
    OBVIOUS
  <1> HIDE DEF G
  <1>2. PICK g : Looped(G, m, g) /\ \A k \in 0 .. WORDS : g[k] \in P
    <2>1. \A d \in P, k \in Words : G[d][k] \in P
      BY <1>1
    <2> QED
      BY <2>1, LoopKeeps, Zenon
  <1>3. ASSUME NEW k \in 0 .. WORDS
        PROVE  g[k] = IF k = 0 THEN m
                      ELSE IF g[k - 1].ok
                      THEN PageStep(g[k - 1], p, stale, image, s, k - 1)
                      ELSE g[k - 1]
    <2>1. g[k] = IF k = 0 THEN m
                 ELSE IF g[k - 1].ok THEN G[g[k - 1]][k - 1] ELSE g[k - 1]
      BY <1>2 DEF Looped
    <2>2. k # 0 => k - 1 \in Words /\ k - 1 \in 0 .. WORDS
      BY Sizes DEF Words
    <2> QED
      BY <1>1, <1>2, <2>1, <2>2
  <1>4. Eq(g)
    <2>1. g = [k \in 0 .. WORDS |-> g[k]]
      BY <1>2 DEF Looped
    <2> QED
      BY <1>3, <2>1
  <1>5. Eq(A)
    <2> HIDE DEF Eq
    <2> QED
      BY <1>4, Zenon
  <1>6. LoadPages(m, p, stale, image, s) = A[WORDS]
    BY Zenon DEF ForEach, LoadPages
  <1> HIDE DEF A
  <1>7. \A k \in 0 .. WORDS :
           A[k] = IF k = 0 THEN m
                  ELSE IF A[k - 1].ok
                  THEN PageStep(A[k - 1], p, stale, image, s, k - 1)
                  ELSE A[k - 1]
    BY <1>5
  <1> HIDE DEF Eq
  <1> DEFINE S == {k \in 0 .. WORDS : A[k] \in P}
  <1>8. \A k \in 0 .. WORDS : k \in S
    <2>1. 0 \in S
      BY <1>7, Sizes
    <2>2. ASSUME NEW k \in 1 .. WORDS, k - 1 \in S PROVE k \in S
      <3>1. k - 1 \in Words /\ k \in 0 .. WORDS /\ k # 0
        BY Sizes DEF Words
      <3> QED
        BY <1>7, <2>2, <3>1
    <2> HIDE DEF S
    <2> QED
      BY <2>1, <2>2, UpTo, Sizes
  <1> QED
    BY <1>6, <1>8, Sizes

LEMMA LoadSegmentsKeep ==
    ASSUME NEW p, NEW stale, NEW image, NEW segs, NEW P, NEW m \in P,
           \A d \in P, k \in Words :
             SegmentStep(d, p, stale, image, segs, k) \in P
    PROVE  LoadSegments(m, p, stale, image, segs) \in P
  <1> DEFINE G == [d \in P |->
                     [k \in Words |-> SegmentStep(d, p, stale, image, segs, k)]]
             Eq(f) == f = [k \in 0 .. WORDS |-> IF k = 0 THEN m
                          ELSE IF f[k - 1].ok
                          THEN SegmentStep(f[k-1], p, stale, image, segs, k-1)
                          ELSE f[k - 1]]
             A == CHOOSE f : Eq(f)
  <1>1. \A d \in P, k \in Words :
           G[d][k] = SegmentStep(d, p, stale, image, segs, k)
    OBVIOUS
  <1> HIDE DEF G
  <1>2. PICK g : Looped(G, m, g) /\ \A k \in 0 .. WORDS : g[k] \in P
    <2>1. \A d \in P, k \in Words : G[d][k] \in P
      BY <1>1
    <2> QED
      BY <2>1, LoopKeeps, Zenon
  <1>3. ASSUME NEW k \in 0 .. WORDS
        PROVE  g[k] = IF k = 0 THEN m
                      ELSE IF g[k - 1].ok
                      THEN SegmentStep(g[k - 1], p, stale, image, segs, k - 1)
                      ELSE g[k - 1]
    <2>1. g[k] = IF k = 0 THEN m
                 ELSE IF g[k - 1].ok THEN G[g[k - 1]][k - 1] ELSE g[k - 1]
      BY <1>2 DEF Looped
    <2>2. k # 0 => k - 1 \in Words /\ k - 1 \in 0 .. WORDS
      BY Sizes DEF Words
    <2> QED
      BY <1>1, <1>2, <2>1, <2>2
  <1>4. Eq(g)
    <2>1. g = [k \in 0 .. WORDS |-> g[k]]
      BY <1>2 DEF Looped
    <2> QED
      BY <1>3, <2>1
  <1>5. Eq(A)
    <2> HIDE DEF Eq
    <2> QED
      BY <1>4, Zenon
  <1>6. LoadSegments(m, p, stale, image, segs) = A[WORDS]
    BY Zenon DEF ForEach, LoadSegments
  <1> HIDE DEF A
  <1>7. \A k \in 0 .. WORDS :
           A[k] = IF k = 0 THEN m
                  ELSE IF A[k - 1].ok
                  THEN SegmentStep(A[k - 1], p, stale, image, segs, k - 1)
                  ELSE A[k - 1]
    BY <1>5
  <1> HIDE DEF Eq
  <1> DEFINE S == {k \in 0 .. WORDS : A[k] \in P}
  <1>8. \A k \in 0 .. WORDS : k \in S
    <2>1. 0 \in S
      BY <1>7, Sizes
    <2>2. ASSUME NEW k \in 1 .. WORDS, k - 1 \in S PROVE k \in S
      <3>1. k - 1 \in Words /\ k \in 0 .. WORDS /\ k # 0
        BY Sizes DEF Words
      <3> QED
        BY <1>7, <2>2, <3>1
    <2> HIDE DEF S
    <2> QED
      BY <2>1, <2>2, UpTo, Sizes
  <1> QED
    BY <1>6, <1>8, Sizes

(***************************************************************************)
(* What execve does to the memory, whatever its words lead to, keeps the   *)
(* types: alloc_page, page_map, the loops that free and those that load.   *)
(***************************************************************************)
LEMMA AllocType ==
    ASSUME NEW m \in Memories
    PROVE  /\ Alloc(m) \in Memories /\ Alloc(m).mem = m.mem
           /\ Alloc(m).ok => m.head \in Pages
  <1>1. /\ m = [mem |-> m.mem, head |-> m.head, ok |-> m.ok]
        /\ m.mem \in MemType /\ m.head \in Lists /\ m.ok \in BOOLEAN
    BY MemoryIs
  <1>2. CASE m.head \in Ends
    <2>1. Alloc(m) = [mem |-> m.mem, head |-> m.head, ok |-> FALSE]
      BY <1>1, <1>2 DEF Alloc
    <2> QED
      BY <1>1, <2>1 DEF Memories
  <1>3. CASE m.head \notin Ends
    <2>1. Alloc(m) =
            [mem |-> m.mem, head |-> LinkIn(m.mem, m.head), ok |-> m.ok]
      BY <1>1, <1>3 DEF Alloc
    <2>2. LinkIn(m.mem, m.head) \in Lists
      BY DEF LinkIn, Lists
    <2>3. m.head \in Pages
      BY <1>1, <1>3 DEF Lists, Ends
    <2> QED
      BY <1>1, <2>1, <2>2, <2>3 DEF Memories
  <1> QED
    BY <1>2, <1>3

LEMMA EnterType ==
    ASSUME NEW m \in Memories, NEW q \in Pages, NEW j \in Words, NEW x \in Pages
    PROVE  [m EXCEPT !.mem[q][j] = Entry(x)] \in Memories
  <1> DEFINE mem == Entered(m.mem, q, j, Entry(x))
  <1>1. /\ m = [mem |-> m.mem, head |-> m.head, ok |-> m.ok]
        /\ m.mem \in MemType /\ m.head \in Lists /\ m.ok \in BOOLEAN
    BY MemoryIs
  <1>2. mem \in MemType
    BY <1>1, EnteredIs, WordIs
  <1>3. [m EXCEPT !.mem[q][j] = Entry(x)] =
          [mem |-> mem, head |-> m.head, ok |-> m.ok]
    BY <1>1 DEF Entered
  <1> HIDE DEF mem
  <1> QED
    BY <1>1, <1>2, <1>3 DEF Memories

LEMMA PageMapType ==
    ASSUME NEW m \in Memories, NEW dir \in Pages, NEW i \in Words,
           NEW j \in Words, NEW x \in Pages
    PROVE  PageMap(m, dir, i, j, x) \in Memories
  <1> DEFINE w == m.mem[dir][i]
             a == Alloc(m)
             page == [Filled(Data(0)) EXCEPT ![j] = Entry(x)]
             b == Put(a, m.head, page)
  <1>1. a \in Memories /\ (a.ok => m.head \in Pages)
    BY AllocType
  <1>2. CASE IsEntry(w)
    <2>1. w.val \in Pages
      BY <1>2, MemoryIs
    <2>2. PageMap(m, dir, i, j, x) = [m EXCEPT !.mem[w.val][j] = Entry(x)]
      BY <1>2 DEF PageMap
    <2> HIDE DEF w
    <2> QED
      BY <2>1, <2>2, EnterType
  <1>3. CASE ~IsEntry(w) /\ ~a.ok
    BY <1>1, <1>3 DEF PageMap
  <1>4. CASE ~IsEntry(w) /\ a.ok
    <2>1. page \in [Words -> Word]
      BY WordIs
    <2>2. PageMap(m, dir, i, j, x) =
            [a EXCEPT !.mem[m.head] = page, !.mem[dir][i] = Entry(m.head)]
      BY <1>4 DEF PageMap
    <2>3. PageMap(m, dir, i, j, x) = [b EXCEPT !.mem[dir][i] = Entry(m.head)]
      <3> HIDE DEF a, page
      <3> QED
        BY <2>2 DEF Put
    <2> HIDE DEF a, page
    <2>4. b \in Memories
      BY <1>1, <1>4, <2>1, PageReplaced
    <2> HIDE DEF b
    <2> QED
      BY <1>1, <1>4, <2>3, <2>4, EnterType
  <1> QED
    BY <1>2, <1>3, <1>4

LEMMA MapNewPageType ==
    ASSUME NEW m \in Memories, NEW dir \in Pages,
           NEW i \in Words, NEW j \in Words
    PROVE  MapNewPage(m, dir, i, j) \in Memories
  <1>1. Alloc(m) \in Memories /\ (Alloc(m).ok => m.head \in Pages)
    BY AllocType
  <1> QED
    BY <1>1, PageMapType DEF MapNewPage

LEMMA LoadHeaderType ==
    ASSUME NEW m \in Memories, NEW image \in [Words -> Word]
    PROVE  LoadHeader(m, image) \in Memories
  <1>1. Alloc(m) \in Memories /\ (Alloc(m).ok => m.head \in Pages)
    BY AllocType
  <1>2. LoadHeader(m, image) = IF Alloc(m).ok THEN Put(Alloc(m), m.head, image)
                               ELSE Alloc(m)
    BY DEF LoadHeader, Put
  <1> QED
    BY <1>1, <1>2, PageReplaced

LEMMA FreeUserMemType ==
    ASSUME NEW m \in Memories, NEW dir \in Pages
    PROVE  FreeUserMem(m, dir) \in Memories
  <1>1. ASSUME NEW d \in Memories, NEW table \in Pages, NEW j \in Words
        PROVE  FreeFrame(d, table, j) \in Memories
    BY MemoryIs, FreePageType DEF FreeFrame
  <1>2. ASSUME NEW d \in Memories, NEW i \in Words
        PROVE  FreeTable(d, dir, i) \in Memories
    <2> DEFINE table == d.mem[dir][i].val
    <2>1. CASE IsEntry(d.mem[dir][i])
      <3>1. table \in Pages
        BY <2>1, MemoryIs
      <3>2. FreeTable(d, dir, i) = FreePage(FreeFrames(d, table), table)
        BY <2>1, Zenon DEF FreeTable, FreeFrames
      <3> HIDE DEF table
      <3>3. FreeFrames(d, table) \in Memories
        BY <1>1, <3>1, FreeFramesKeep
      <3> QED
        BY <3>1, <3>2, <3>3, FreePageType
    <2>2. CASE ~IsEntry(d.mem[dir][i])
      BY <2>2 DEF FreeTable
    <2> QED
      BY <2>1, <2>2
  <1> QED
    BY <1>2, FreeTablesKeep

LEMMA LoadProgramType ==
    ASSUME ram \in Memories, NEW p, pagedir[p] \in Pages,
           NEW m \in Memories, NEW stale \in SUBSET Mapped(p),
           NEW image \in [Words -> Word], NEW segments \in Programs
    PROVE  LoadProgram(m, p, stale, image, segments) \in Memories
  <1>1. ASSUME NEW d \in Memories, NEW at \in Words \X Words
        PROVE  LoadPage(d, p, stale, image, at) \in Memories
    <2> DEFINE to == IF at \in stale THEN Frame(p, at)
                     ELSE d.mem[d.mem[pagedir[p]][at[1]].val][at[2]].val
    <2>1. CASE at \in stale \/ Present(d, pagedir[p], at)
      <3>1. to \in Pages
        <4>1. CASE at \in stale
          BY <4>1, SpaceTypes
        <4>2. CASE at \notin stale
          <5>1. d.mem[pagedir[p]][at[1]].val \in Pages
            BY <2>1, <4>2, MemoryIs DEF Present
          <5> QED
            BY <2>1, <4>2, <5>1, MemoryIs DEF Present
        <4> QED
          BY <4>1, <4>2
      <3>2. LoadPage(d, p, stale, image, at) = Put(d, to, image)
        BY <2>1, Zenon DEF LoadPage, Put
      <3> HIDE DEF to
      <3> QED
        BY <3>1, <3>2, PageReplaced
    <2>2. CASE ~(at \in stale \/ Present(d, pagedir[p], at))
      <3>1. LoadPage(d, p, stale, image, at) = [d EXCEPT !.ok = FALSE]
        BY <2>2, Zenon DEF LoadPage
      <3>2. /\ d = [mem |-> d.mem, head |-> d.head, ok |-> d.ok]
            /\ d.mem \in MemType /\ d.head \in Lists
        BY MemoryIs
      <3>3. LoadPage(d, p, stale, image, at) =
              [mem |-> d.mem, head |-> d.head, ok |-> FALSE]
        BY <3>1, <3>2
      <3> QED
        BY <3>2, <3>3 DEF Memories
    <2> QED
      BY <2>1, <2>2
  <1>2. ASSUME NEW d \in Memories, NEW s \in Segment
        PROVE  LoadSegment(d, p, stale, image, s) \in Memories
    <2> DEFINE new == MapNewPage(d, pagedir[p], s.region, s.page)
    <2>1. /\ s.region \in Words /\ s.page \in Words /\ s.size \in 0 .. WORDS
          /\ s.page + s.size <= WORDS
      BY DEF Segment
    <2>2. new \in Memories
      BY <2>1, MapNewPageType
    <2>3. LoadSegment(d, p, stale, image, s) =
            IF new.ok THEN LoadPages(new, p, stale, image, s) ELSE new
      BY Zenon DEF LoadSegment, LoadPages, PageStep
    <2> HIDE DEF new
    <2>4. ASSUME NEW e \in Memories, NEW k \in Words
          PROVE  PageStep(e, p, stale, image, s, k) \in Memories
      <3>1. CASE k < s.size
        <4>1. s.page + k \in Words
          BY <2>1, <3>1, Sizes DEF Words
        <4>2. <<s.region, s.page + k>> \in Words \X Words
          BY <2>1, <4>1
        <4> QED
          BY <1>1, <3>1, <4>2 DEF PageStep
      <3>2. CASE ~(k < s.size)
        BY <3>2 DEF PageStep
      <3> QED
        BY <3>1, <3>2
    <2>5. LoadPages(new, p, stale, image, s) \in Memories
      BY <2>2, <2>4, LoadPagesKeep
    <2> QED
      BY <2>2, <2>3, <2>5
  <1>3. ASSUME NEW d \in Memories, NEW k \in Words
        PROVE  SegmentStep(d, p, stale, image, segments, k) \in Memories
    <2>1. CASE k < Len(segments)
      <3>1. segments \in Seq(Segment)
        BY AddressSpacesAssumption
      <3>2. k + 1 \in 1 .. Len(segments)
        BY <2>1, <3>1, Sizes DEF Words
      <3>3. segments[k + 1] \in Segment
        BY <3>1, <3>2
      <3> QED
        BY <1>2, <2>1, <3>3 DEF SegmentStep
    <2>2. CASE ~(k < Len(segments))
      BY <2>2 DEF SegmentStep
    <2> QED
      BY <2>1, <2>2
  <1>4. LoadProgram(m, p, stale, image, segments) =
          LoadSegments(m, p, stale, image, segments)
    BY Zenon DEF LoadProgram, LoadSegments, SegmentStep
  <1> QED
    BY <1>3, <1>4, LoadSegmentsKeep

LEMMA ExecveInv ==
    ASSUME MInv, NEW p \in Procs, Execve(p)
    PROVE  MInv' /\ ~Sound' /\ Sound /\ live' = live
  <1>1. PICK segments \in Programs : ExecveOf(p, segments)
    BY DEF Execve
  <1>2. /\ Sound /\ p \in live /\ replaced' = p
        /\ pagedir' = pagedir /\ live' = live
    BY <1>1 DEF ExecveOf, Calls, Sound
  <1>3. /\ ram \in Memories /\ pagedir[p] \in Pages /\ 0 \in live
    BY <1>2 DEF MInv, Separate, SpaceInv, TypeOK
  <1>4. PICK w \in AnyWords :
          LET header == LoadHeader(FreeUserMem(ram, pagedir[p]), Filled(w))
          IN  \/ ram' = header
              \/ \E stale \in SUBSET Mapped(p), entry \in BOOLEAN :
                   LET loaded ==
                         LoadProgram(header, p, stale, Filled(w), segments)
                   IN  ram' = IF loaded.ok /\ entry
                              THEN MapNewPage(loaded, pagedir[p], Top, Top)
                              ELSE loaded
    BY <1>1 DEF ExecveOf
  <1> DEFINE header == LoadHeader(FreeUserMem(ram, pagedir[p]), Filled(w))
  <1>5. Filled(w) \in [Words -> Word]
    BY AddressSpacesAssumption DEF Filled
  <1>6. header \in Memories
    BY <1>3, <1>5, FreeUserMemType, LoadHeaderType
  <1> HIDE DEF header
  <1>7. ASSUME NEW stale \in SUBSET Mapped(p)
        PROVE  LET loaded == LoadProgram(header, p, stale, Filled(w), segments)
               IN  /\ loaded \in Memories
                   /\ MapNewPage(loaded, pagedir[p], Top, Top) \in Memories
    <2>1. LoadProgram(header, p, stale, Filled(w), segments) \in Memories
      BY <1>3, <1>5, <1>6, LoadProgramType
    <2> QED
      BY <1>3, <2>1, MapNewPageType, Sizes
  <1>8. ram' \in Memories
    BY <1>4, <1>6, <1>7 DEF header
  <1>9. replaced' \in Procs \cup {Nobody} /\ replaced' # Nobody
    BY <1>2, Sizes DEF Nobody
  <1>10. TypeOK' /\ pagedir'[0] = 0
    BY <1>2, <1>3, <1>8, <1>9, TypesFrom
  <1> QED
    BY <1>2, <1>8, <1>9, <1>10 DEF MInv, Sound

-----------------------------------------------------------------------------
(***************************************************************************)
(* The memory that init_memory and switch_to_user leave.                   *)
(***************************************************************************)
LEMMA InitMemory ==
    ASSUME Init
    PROVE  /\ ram \in Memories /\ ram.head = 4 /\ ram.ok
           /\ ram.mem[0][0] = Entry(1) /\ ram.mem[0][Top] = Entry(3)
           /\ \A i \in Words \ {0, Top} : ram.mem[0][i] = Data(0)
           /\ \A j \in Words \ {Top} : ram.mem[3][j] = Data(0)
           /\ ram.mem[3][Top] = Entry(2)
           /\ \A q \in 4 .. PAGES - 1 : ram.mem[q][0] = Link(q + 1)
  <1>0. PICK any \in AnyWords, window \in Windows :
          ram = [head |-> 4, ok |-> TRUE, mem |-> [p \in Pages |->
            CASE p = 0 -> [Filled(Data(0)) EXCEPT ![0] = Entry(1),
                                                  ![Top] = Entry(3)]
              [] p = 1 -> [j \in Words |-> Entry(window[j])]
              [] p = 2 -> Filled(any)
              [] p = 3 -> [Filled(Data(0)) EXCEPT ![Top] = Entry(2)]
              [] p \in LinkedPages -> [Filled(any) EXCEPT ![0] = Link(p + 1)]
              [] OTHER -> Filled(any)]]
    BY DEF Init
  <1> DEFINE clear == Filled(Data(0))
             blank == Filled(any)
             page(q) == CASE q = 0 -> [clear EXCEPT ![0] = Entry(1),
                                                  ![Top] = Entry(3)]
                          [] q = 1 -> [j \in Words |-> Entry(window[j])]
                          [] q = 2 -> blank
                          [] q = 3 -> [clear EXCEPT ![Top] = Entry(2)]
                          [] q \in LinkedPages ->
                               [blank EXCEPT ![0] = Link(q + 1)]
                          [] OTHER -> blank
             mem == [q \in Pages |-> page(q)]
  <1>1. ram = [head |-> 4, ok |-> TRUE, mem |-> mem]
    BY <1>0
  <1>2. /\ 0 \in Pages /\ 1 \in Pages /\ 2 \in Pages /\ 3 \in Pages
        /\ 4 \in Pages
        /\ PAGES \in Pages
        /\ \A q \in 4 .. PAGES - 1 : q \in Pages /\ q + 1 \in Pages
        /\ \A q \in LinkedPages : q \in 4 .. PAGES - 1
        /\ \A q \in 4 .. PAGES - 1 : q \in LinkedPages
        /\ PAGES \notin LinkedPages /\ 3 < PAGES
    BY Sizes DEF Pages, LinkedPages
  <1>3. /\ \A q \in Pages : Entry(q) \in Word /\ Link(q) \in Word
        /\ Data(0) \in Word /\ any \in Word
        /\ \A j \in Words : window[j] \in Pages
    <2>1. any \in Word /\ window \in [Words -> Pages]
      BY AddressSpacesAssumption
    <2> QED
      BY <2>1, WordIs
  <1>4. /\ clear \in [Words -> Word] /\ \A j \in Words : clear[j] = Data(0)
        /\ blank \in [Words -> Word]
    BY <1>3 DEF Filled
  <1> HIDE DEF blank, clear
  <1>5. page(0) \in [Words -> Word] /\ page(0)[0] = Entry(1)
        /\ page(0)[Top] = Entry(3)
        /\ \A i \in Words \ {0, Top} : page(0)[i] = Data(0)
    BY <1>2, <1>3, <1>4, Sizes
  <1>6. page(1) \in [Words -> Word]
    BY <1>2, <1>3, Sizes
  <1>7. page(2) \in [Words -> Word]
    <2>1. 2 # 0 /\ 2 # 1
      OBVIOUS
    <2>2. page(2) = blank
      BY <1>2, <2>1
    <2> QED
      BY <1>4, <2>2
  <1>8. page(3) \in [Words -> Word] /\ page(3)[Top] = Entry(2)
        /\ \A j \in Words \ {Top} : page(3)[j] = Data(0)
    BY <1>2, <1>3, <1>4, Sizes
  <1>9. ASSUME NEW q \in 4 .. PAGES - 1
        PROVE  page(q) \in [Words -> Word] /\ page(q)[0] = Link(q + 1)
    <2>1. q # 0 /\ q # 1 /\ q # 2 /\ q # 3 /\ q \in LinkedPages
      BY <1>2
    <2>2. page(q) = [blank EXCEPT ![0] = Link(q + 1)]
      BY <2>1
    <2>3. Link(q + 1) \in Word
      BY <1>2, <1>3
    <2> QED
      BY <1>4, <2>2, <2>3, Sizes
  <1>10. page(PAGES) = blank
    <2>1. PAGES # 0 /\ PAGES # 1 /\ PAGES # 2 /\ PAGES # 3
          /\ PAGES \notin LinkedPages
      BY <1>2, Sizes
    <2> QED
      BY <1>4, <2>1, Sizes
  <1> HIDE DEF page
  <1>11. ASSUME NEW q \in Pages PROVE page(q) \in [Words -> Word]
    <2>1. q = 0 \/ q = 1 \/ q = 2 \/ q = 3 \/ q = PAGES \/ q \in 4 .. PAGES - 1
      BY Sizes DEF Pages
    <2> QED
      BY <1>4, <1>5, <1>6, <1>7, <1>8, <1>9, <1>10, <2>1
  <1>12. mem \in MemType
    BY <1>11 DEF MemType
  <1>13. \A q \in Pages : mem[q] = page(q)
    OBVIOUS
  <1> HIDE DEF mem
  <1>14. ram.mem = mem /\ ram.head = 4 /\ ram.ok = TRUE
    BY <1>1
  <1>15. ram \in Memories
    <2>1. 4 \in Lists
      BY <1>2 DEF Lists
    <2> QED
      BY <1>1, <1>12, <2>1 DEF Memories
  <1>16. /\ ram.mem[0] = page(0) /\ ram.mem[1] = page(1)
         /\ ram.mem[3] = page(3)
         /\ \A q \in 4 .. PAGES - 1 : ram.mem[q] = page(q)
    BY <1>2, <1>13, <1>14
  <1> QED
    BY <1>5, <1>8, <1>9, <1>14, <1>15, <1>16

(***************************************************************************)
(* init_memory links page 4 to page 5 and so on up to the last page.       *)
(***************************************************************************)
LEMMA InitList ==
    ASSUME Init
    PROVE  (\E n : IsList(ram, n)) /\ FreePages = 4 .. PAGES
  <1> DEFINE f == [k \in 0 .. PAGES |-> IF k <= PAGES - 4 THEN k + 4
                                        ELSE NoPage]
             n == PAGES - 3
  <1>1. /\ ram.head = 4 /\ ram.head \in Lists
        /\ \A q \in 4 .. PAGES - 1 : ram.mem[q][0] = Link(q + 1)
    BY InitMemory, MemoryIs
  <1>2. f[0] = ram.head
    BY <1>1, Sizes
  <1>3. ASSUME NEW k \in 1 .. PAGES PROVE f[k] = NextIn(ram.mem, f[k - 1])
    <2>1. k - 1 \in 0 .. PAGES /\ k \in 0 .. PAGES /\ PAGES \in Nat
          /\ 3 < PAGES
      BY Sizes
    <2>2. CASE k <= PAGES - 4
      <3>1. /\ f[k - 1] = k + 3 /\ k + 3 \in 4 .. PAGES - 1 /\ f[k] = k + 3 + 1
            /\ k + 3 + 1 \in Pages /\ k + 3 # NoPage
        BY <2>1, <2>2 DEF Pages, NoPage
      <3>2. LinkIn(ram.mem, k + 3) = k + 3 + 1
        BY <1>1, <3>1, LinkInIs
      <3> QED
        BY <3>1, <3>2 DEF NextIn, Ends
    <2>3. CASE k = PAGES - 3
      <3>1. f[k - 1] = PAGES /\ f[k] = NoPage /\ PAGES # NoPage
        BY <2>1, <2>3 DEF NoPage
      <3> QED
        BY <3>1 DEF NextIn, Ends
    <2>4. CASE k > PAGES - 3
      <3>1. f[k - 1] = NoPage /\ f[k] = NoPage
        BY <2>1, <2>4
      <3> QED
        BY <3>1 DEF NextIn, Ends
    <2> QED
      BY <2>1, <2>2, <2>3, <2>4
  <1>4. \A k \in 0 .. PAGES : ListFrom(ram)[k] = f[k]
    <2> HIDE DEF f
    <2> QED
      BY <1>1, <1>2, <1>3, ListUnique
  <1>5. \A k \in 0 .. PAGES : f[k] = IF k <= PAGES - 4 THEN k + 4 ELSE NoPage
    OBVIOUS
  <1> HIDE DEF f
  <1>6. IsList(ram, n)
    <2>1. n \in 0 .. PAGES /\ n \in Nat /\ PAGES \in Nat
      BY Sizes
    <2>2. \A k \in 0 .. PAGES : ListFrom(ram)[k] = NoPage <=> n <= k
      BY <1>4, <1>5, <2>1 DEF NoPage
    <2>3. \A k \in 0 .. n - 1 : ListFrom(ram)[k] = k + 4
      BY <1>4, <1>5, <2>1
    <2>4. PAGES \in OnList(ram)
      <3>1. PAGES - 4 \in 0 .. n - 1 /\ PAGES - 4 \in 0 .. PAGES
            /\ PAGES - 4 + 4 = PAGES /\ PAGES # NoPage
        BY Sizes
      <3>2. ListFrom(ram)[PAGES - 4] = PAGES
        BY <2>3, <3>1
      <3> QED
        BY <3>1, <3>2 DEF OnList
    <2> QED
      BY <2>1, <2>2, <2>3, <2>4 DEF IsList
  <1>7. FreePages = 4 .. PAGES
    <2>1. \A k \in 0 .. PAGES :
             ListFrom(ram)[k] = IF k <= PAGES - 4 THEN k + 4 ELSE NoPage
      BY <1>4, <1>5
    <2>2. ASSUME NEW q \in 4 .. PAGES PROVE q \in FreePages
      <3>1. /\ q - 4 \in 0 .. PAGES /\ q - 4 <= PAGES - 4 /\ q - 4 + 4 = q
            /\ q # NoPage
        BY Sizes DEF NoPage
      <3>2. ListFrom(ram)[q - 4] = q
        BY <2>1, <3>1
      <3> QED
        BY <3>1, <3>2, FreePagesAre DEF OnList
    <2>3. ASSUME NEW q \in FreePages PROVE q \in 4 .. PAGES
      <3>1. PICK k \in 0 .. PAGES : q = ListFrom(ram)[k] /\ q # NoPage
        BY FreePagesAre DEF OnList
      <3> QED
        BY <2>1, <3>1, Sizes
    <2> QED
      BY <2>2, <2>3
  <1> QED
    BY <1>6, <1>7

(***************************************************************************)
(* Process 0: whatever its first region shows is not its own; its stack is *)
(* page 2, through table 3.                                                *)
(***************************************************************************)
LEMMA InitSpace ==
    ASSUME Init
    PROVE  SpaceInv(0) /\ SpaceOf(0) = {0, 1, 2, 3}
  <1>1. /\ ram.mem[0][0] = Entry(1) /\ ram.mem[0][Top] = Entry(3)
        /\ \A i \in Words \ {0, Top} : ram.mem[0][i] = Data(0)
        /\ \A j \in Words \ {Top} : ram.mem[3][j] = Data(0)
        /\ ram.mem[3][Top] = Entry(2)
    BY InitMemory
  <1>2. /\ \A q : IsEntry(Entry(q)) /\ Entry(q).val = q
        /\ ~IsEntry(Data(0))
    BY DEF IsEntry, Entry, Data
  <1>3. pagedir[0] = 0
    BY Sizes DEF Init
  <1>4. 0 \in Words /\ Top \in Words /\ Top # 0 /\ Words \subseteq Nat
    BY Sizes
  <1>5. Regions(0) = {0, Top}
    <2>1. ASSUME NEW i \in Words
          PROVE  IsEntry(ram.mem[0][i]) <=> i \in {0, Top}
      <3>1. CASE i \in {0, Top}
        BY <1>1, <1>2, <3>1
      <3>2. CASE i \notin {0, Top}
        <4>1. ram.mem[0][i] = Data(0)
          BY <1>1, <3>2
        <4> QED
          BY <1>2, <3>2, <4>1
      <3> QED
        BY <3>1, <3>2
    <2>2. Regions(0) = {i \in Words : IsEntry(ram.mem[0][i])}
      BY <1>3 DEF Regions
    <2> QED
      BY <1>4, <2>1, <2>2
  <1>6. Table(0, 0) = 1 /\ Table(0, Top) = 3
    BY <1>1, <1>2, <1>3 DEF Table
  <1>7. <<Top, Top>> \in Mapped(0)
    BY <1>1, <1>2, <1>4, <1>5, <1>6 DEF Mapped
  <1>8. ASSUME NEW at \in Mapped(0), at[1] = Top PROVE at = <<Top, Top>>
    <2>1. at \in Words \X Words /\ IsEntry(ram.mem[3][at[2]])
      BY <1>6, <1>8 DEF Mapped
    <2>2. at[2] = Top
      BY <1>1, <1>2, <2>1
    <2> QED
      BY <1>8, <2>1, <2>2
  <1>9. Places(0) = {<<Top, Top>>}
    BY <1>7, <1>8 DEF Places
  <1>10. Frame(0, <<Top, Top>>) = 2
    BY <1>1, <1>2, <1>6 DEF Frame
  <1>11. Tables(0) = {1, 3} /\ Frames(0) = {2}
    BY <1>5, <1>6, <1>9, <1>10 DEF Tables, Frames
  <1>12. SpaceOf(0) = {0, 1, 2, 3}
    BY <1>3, <1>11 DEF SpaceOf
  <1>13. SpaceOf(0) \cap FreePages = {} /\ 0 \in Pages
    BY <1>12, InitList, Sizes DEF Pages
  <1>14. pagedir[0] \notin Tables(0) \cup Frames(0)
         /\ Tables(0) \cap Frames(0) = {}
    BY <1>3, <1>11
  <1>15. \A s, t \in Places(0) : s # t => Frame(0, s) # Frame(0, t)
    BY <1>9
  <1> QED
    BY <1>3, <1>5, <1>7, <1>12, <1>13, <1>14, <1>15 DEF SpaceInv

LEMMA InitInv == Init => MInv
  <1> SUFFICES ASSUME Init PROVE MInv
    OBVIOUS
  <1>1. ram \in Memories /\ ram.ok
    BY InitMemory
  <1>2. /\ pagedir = [p \in Procs |-> IF p = 0 THEN 0 ELSE NoPage]
        /\ live = {0} /\ replaced = Nobody
    BY DEF Init
  <1>3. pagedir[0] = 0 /\ pagedir \in [Procs -> Pages \cup {NoPage}]
        /\ 0 # NoPage
    BY <1>2, Sizes
  <1>4. TypeOK
    <2>1. /\ ram.mem \in [Pages -> [Words -> Word]]
          /\ ram.head \in Pages \cup {NoPage} /\ ram.ok \in BOOLEAN
      BY <1>1, MemoryIs DEF MemType, Lists
    <2> QED
      BY <1>2, <1>3, <2>1, Sizes DEF TypeOK
  <1>5. Separate
    BY <1>2, InitList, InitSpace DEF Separate
  <1> QED
    BY <1>1, <1>3, <1>4, <1>5 DEF MInv

(***************************************************************************)
(* Nothing changes in a step that changes nothing.                         *)
(***************************************************************************)
LEMMA StaysSeparate ==
    ASSUME MInv, Sound, ram' = ram, pagedir' = pagedir, live' = live
    PROVE  /\ Separate' /\ FreePages' = FreePages
           /\ \A q \in live : SpaceOf(q)' = SpaceOf(q) /\ Seen(q)' = Seen(q)
  <1>1. Separate /\ ram \in Memories
    BY DEF MInv
  <1>2. ASSUME NEW q \in live
        PROVE  /\ Regions(q)' = Regions(q) /\ Mapped(q)' = Mapped(q)
               /\ Places(q)' = Places(q)
               /\ \A at \in Mapped(q) : Frame(q, at)' = Frame(q, at)
               /\ Tables(q)' = Tables(q) /\ Frames(q)' = Frames(q)
               /\ SpaceOf(q)' = SpaceOf(q) /\ Seen(q)' = Seen(q)
    BY OthersKept
  <1>3. PICK n : IsList(ram, n)
    BY <1>1 DEF Separate
  <1>4. IsList(ram', n)
    BY <1>3
  <1>5. FreePages' = FreePages
    <2>1. OnFreeList' = ListFrom(ram') /\ OnFreeList = ListFrom(ram)
      BY DEF OnFreeList
    <2>2. OnFreeList' = OnFreeList
      BY <2>1
    <2> HIDE DEF OnFreeList
    <2> QED
      BY <2>2 DEF FreePages
  <1>6. ASSUME NEW q \in live PROVE SpaceInv(q)'
    <2>1. SpaceInv(q)
      BY <1>1 DEF Separate
    <2>2. Places(q) \subseteq Mapped(q)
      BY DEF Places
    <2>3. pagedir'[q] \in Pages
          /\ <<Top, Top>> \in Mapped(q)' /\ SpaceOf(q)' \cap FreePages' = {}
          /\ pagedir'[q] \notin Tables(q)' \cup Frames(q)'
          /\ Tables(q)' \cap Frames(q)' = {}
      BY <1>2, <1>5, <2>1 DEF SpaceInv
    <2>4. \A s, t \in Places(q)' : s # t => Frame(q, s)' # Frame(q, t)'
      BY <1>2, <2>1, <2>2 DEF SpaceInv
    <2> QED
      BY <2>3, <2>4 DEF SpaceInv
  <1>7. \A p, q \in live' : p # q => SpaceOf(p)' \cap SpaceOf(q)' = {}
    BY <1>1, <1>2 DEF Separate
  <1>8. Separate'
    BY <1>4, <1>6, <1>7 DEF Separate
  <1> QED
    BY <1>2, <1>5, <1>8

(***************************************************************************)
(* Every system call and every store keeps the invariant.                  *)
(***************************************************************************)
LEMMA Inductive == MInv /\ [Next]_vars => MInv'
  <1> SUFFICES ASSUME MInv, [Next]_vars PROVE MInv'
    OBVIOUS
  <1>1. ASSUME NEW p \in Procs, NEW c \in Procs, Fork(p, c) PROVE MInv'
    BY <1>1, ForkInv
  <1>2. ASSUME NEW p \in Procs, Exit(p) PROVE MInv'
    BY <1>2, ExitInv
  <1>3. ASSUME NEW p \in Procs, Execve(p) PROVE MInv'
    BY <1>3, ExecveInv
  <1>4. ASSUME NEW p \in Procs, Store(p) PROVE MInv'
    BY <1>4, StoreInv
  <1>5. ASSUME UNCHANGED vars PROVE MInv'
    <2>1. ram' = ram /\ pagedir' = pagedir /\ live' = live
          /\ replaced' = replaced
      BY <1>5 DEF vars
    <2>2. TypeOK' /\ ram' \in Memories /\ pagedir'[0] = 0
      BY <2>1 DEF MInv, TypeOK
    <2>3. ASSUME Sound PROVE Separate'
      BY <2>1, <2>3, StaysSeparate DEF Sound
    <2> QED
      BY <2>1, <2>2, <2>3 DEF MInv, Sound
  <1> QED
    BY <1>1, <1>2, <1>3, <1>4, <1>5 DEF Next

LEMMA MemoryInvariant == Spec => []MInv
  <1>1. Init => MInv
    BY InitInv
  <1>2. MInv /\ [Next]_vars => MInv'
    BY Inductive
  <1> QED
    BY <1>1, <1>2, PTL DEF Spec

-----------------------------------------------------------------------------
(***************************************************************************)
(* Type correctness, execve included: links and entries lead to pages,     *)
(* even after page_map has written entries into freed tables and           *)
(* alloc_page has followed them.                                           *)
(***************************************************************************)
THEOREM AddressSpacesTypes == Spec => []TypeOK
  <1>1. MInv => TypeOK
    BY DEF MInv
  <1> QED
    BY <1>1, MemoryInvariant, PTL

(***************************************************************************)
(* copy_process_mem and free_page: no page has two uses and the free list  *)
(* leads to the last page of the memory, whatever the order of forks,      *)
(* exits and stores, for every size of the memory and whatever process 0's *)
(* first table shows.                                                      *)
(***************************************************************************)
THEOREM AddressSpacesPagesHaveOneUse == Spec => []PagesHaveOneUse
  <1>1. ASSUME MInv, Sound PROVE PagesHaveOneUse
    <2>1. Separate
      BY <1>1 DEF MInv
    <2>2. PICK n : IsList(ram, n)
      BY <2>1 DEF Separate
    <2>3. PAGES \in FreePages
      BY <2>2, FreePagesAre DEF IsList
    <2> QED
      BY <2>1, <2>3 DEF Separate, SpaceInv, PagesHaveOneUse
  <1>2. ~Sound => PagesHaveOneUse
    BY DEF PagesHaveOneUse
  <1>3. MInv => PagesHaveOneUse
    BY <1>1, <1>2
  <1> QED
    BY <1>3, MemoryInvariant, PTL

(***************************************************************************)
(* copy_process_mem (syscall.c:252-320): the child has its father's        *)
(* addresses mapped, to pages of its own, and reads there what its father  *)
(* could read, unless the father is process 0 and the address showed it a  *)
(* free page; the father's own pages stay as they were.                    *)
(***************************************************************************)
THEOREM AddressSpacesForkCopies == Spec => ForkCopies
  <1> DEFINE Copies ==
               \A p \in live, c \in live' \ live : Fork(p, c) /\ ram'.ok =>
                 /\ DOMAIN Contents(c)' = Mapped(p)
                 /\ \A at \in Mapped(p) :
                       \/ Contents(c)'[at] = Contents(p)[at]
                       \/ p = 0 /\ Frame(p, at) \in FreePages
                 /\ Seen(p)' = Seen(p)
  <1>1. ASSUME MInv, MInv' PROVE Copies
    <2>1. ASSUME NEW p \in live, NEW c \in live' \ live, Fork(p, c), ram'.ok
          PROVE  /\ DOMAIN Contents(c)' = Mapped(p)
                 /\ \A at \in Mapped(p) :
                       \/ Contents(c)'[at] = Contents(p)[at]
                       \/ p = 0 /\ Frame(p, at) \in FreePages
                 /\ Seen(p)' = Seen(p)
      <3>1. p \in Procs /\ c \in Procs
        BY <1>1, <2>1 DEF MInv, TypeOK
      <3>2. Taken(p) \cap Ends = {}
        BY <1>1, <2>1, <3>1, ForkFails
      <3>3. /\ Mapped(c)' = Mapped(p)
            /\ \A at \in Mapped(p) :
                 \/ ram'.mem[Frame(c, at)'] = ram.mem[Frame(p, at)]
                 \/ Frame(p, at) \in Taken(p)
        BY <1>1, <2>1, <3>1, <3>2, ForkChild
      <3>4. Taken(p) \subseteq FreePages
        BY <1>1, <2>1, <3>1, <3>2, ForkList
      <3>5. /\ pagedir'[p] = pagedir[p]
            /\ \A x \in SpaceOf(p) : ram'.mem[x] = ram.mem[x]
        BY <1>1, <2>1, <3>1, <3>2, ForkOthers
      <3>6. Sound /\ SpaceInv(p)
        BY <1>1, <2>1, <3>1, ForkCalls
      <3>7. Seen(p)' = Seen(p)
        BY <1>1, <3>5, <3>6, OthersKept
      <3>8. Contents(c)' = [at \in Mapped(p) |-> ram'.mem[Frame(c, at)']]
        BY <3>3 DEF Contents
      <3>9. ASSUME NEW at \in Mapped(p), Frame(p, at) \in Taken(p)
            PROVE  p = 0 /\ Frame(p, at) \in FreePages
        <4>1. Frame(p, at) \in FreePages /\ Frame(p, at) \notin SpaceOf(p)
          BY <3>4, <3>6, <3>9 DEF SpaceInv
        <4>2. at \notin Places(p)
          BY <4>1 DEF SpaceOf, Frames
        <4> QED
          BY <4>1, <4>2 DEF Places
      <3>10. ASSUME NEW at \in Mapped(p)
             PROVE  \/ Contents(c)'[at] = Contents(p)[at]
                    \/ p = 0 /\ Frame(p, at) \in FreePages
        <4>1. Contents(c)'[at] = ram'.mem[Frame(c, at)']
          BY <3>8
        <4>2. Contents(p)[at] = ram.mem[Frame(p, at)]
          BY DEF Contents
        <4> QED
          BY <3>3, <3>9, <4>1, <4>2
      <3> QED
        BY <3>7, <3>8, <3>10
    <2> QED
      BY <2>1
  <1>2. MInv /\ MInv' => [Copies]_vars
    BY <1>1
  <1> QED
    BY <1>2, MemoryInvariant, PTL DEF ForkCopies

(***************************************************************************)
(* Isolation, but for execve: what a process does in a fork, an exit or a  *)
(* store, no other live process, 0 among them, sees in its own memory.     *)
(***************************************************************************)
CallsSeenByNoOther ==
    \A p \in live :
        (\E c \in Procs : Fork(p, c)) \/ Exit(p) \/ Store(p) =>
            \A q \in (live \cap live') \ {p} : Seen(q)' = Seen(q)

THEOREM AddressSpacesCallsAreIsolated == Spec => [][CallsSeenByNoOther]_vars
  <1>1. ASSUME MInv, NEW p \in live,
               (\E c \in Procs : Fork(p, c)) \/ Exit(p) \/ Store(p)
        PROVE  \A q \in (live \cap live') \ {p} : Seen(q)' = Seen(q)
    <2>0. p \in Procs
      BY <1>1 DEF MInv, TypeOK
    <2>1. ASSUME NEW c \in Procs, Fork(p, c), NEW q \in live
          PROVE  Seen(q)' = Seen(q)
      <3>1. Sound /\ pagedir'[q] = pagedir[q]
        BY <1>1, <2>0, <2>1, ForkCalls
      <3>2. \A x \in SpaceOf(q) : ram'.mem[x] = ram.mem[x]
        <4>1. CASE Taken(p) \cap Ends # {}
          BY <1>1, <2>0, <2>1, <4>1, ForkFails
        <4>2. CASE Taken(p) \cap Ends = {}
          BY <1>1, <2>0, <2>1, <4>2, ForkOthers
        <4> QED
          BY <4>1, <4>2
      <3> QED
        BY <1>1, <3>1, <3>2, OthersKept
    <2>2. ASSUME Exit(p), NEW q \in live \ {p} PROVE Seen(q)' = Seen(q)
      BY <1>1, <2>0, <2>2, ExitInv
    <2>3. ASSUME Store(p), NEW q \in live \ {p} PROVE Seen(q)' = Seen(q)
      BY <1>1, <2>0, <2>3, StoreInv
    <2> QED
      BY <1>1, <2>1, <2>2, <2>3
  <1>2. MInv => CallsSeenByNoOther
    BY <1>1 DEF CallsSeenByNoOther
  <1> QED
    BY <1>2, MemoryInvariant, PTL

-----------------------------------------------------------------------------
(***************************************************************************)
(* What PageOwners sees of the memory.                                     *)
(***************************************************************************)
Owned == [p \in Procs |-> IF Sound /\ p \in live THEN SpaceOf(p) ELSE {}]
Free == IF Sound THEN FreePages ELSE {}

(***************************************************************************)
(* The initial states, and the steps one by one.                           *)
(***************************************************************************)
LEMMA OwnersInit == Init => Owners!Init
  <1> SUFFICES ASSUME Init PROVE Owners!Init
    OBVIOUS
  <1>1. live = {0} /\ Sound
    BY InitMemory DEF Init, Sound
  <1>2. SpaceOf(0) = {0, 1, 2, 3} /\ FreePages = 4 .. PAGES
    BY InitSpace, InitList
  <1>3. Owned = [p \in Procs |-> IF p = 0 THEN {0, 1, 2, 3} ELSE {}]
        /\ Free = 4 .. PAGES
    BY <1>1, <1>2 DEF Owned, Free
  <1>4. {0, 1, 2, 3} \subseteq Pages /\ 4 .. PAGES \subseteq Pages
    BY Sizes DEF Pages
  <1>5. Owned \in [Procs -> SUBSET Pages] /\ Free \in SUBSET Pages
    BY <1>3, <1>4
  <1>6. \A p, q \in Procs : p # q => Owned[p] \cap Owned[q] = {}
    BY <1>3
  <1>7. \A p \in Procs : Owned[p] \cap Free = {}
    BY <1>3
  <1>8. ~Sound = FALSE
    BY <1>1
  <1> QED
    BY <1>5, <1>6, <1>7, <1>8 DEF Owners!Init, Owned, Free

LEMMA OwnersSpoil ==
    ASSUME Sound, ~Sound'
    PROVE  Owners!Spoil
  <1>1. Owned' = [p \in Procs |-> {}] /\ Free' = {}
    BY DEF Owned, Free
  <1> QED
    BY <1>1 DEF Owners!Spoil, Owned, Free

LEMMA OwnersStutter ==
    ASSUME Sound' = Sound, live' = live, Sound => FreePages' = FreePages,
           Sound => \A q \in live : SpaceOf(q)' = SpaceOf(q)
    PROVE  UNCHANGED Owners!vars
  <1>1. Owned' = Owned /\ Free' = Free
    BY DEF Owned, Free
  <1> QED
    BY <1>1 DEF Owners!vars, Owned, Free

LEMMA OwnersCreate ==
    ASSUME MInv, NEW p \in Procs, NEW c \in Procs, Fork(p, c),
           Taken(p) \cap Ends = {}
    PROVE  Owners!Create(c)
  <1>1. /\ Sound /\ p \in live /\ c \notin live /\ live' = live \cup {c}
        /\ replaced' = replaced /\ Separate
    BY ForkCalls
  <1>2. Sound'
    BY <1>1, ForkMemory DEF Sound
  <1>3. SpaceOf(c)' = Taken(p)
    BY ForkChild
  <1>4. FreePages' = FreePages \ Taken(p) /\ Taken(p) \subseteq FreePages
    BY ForkList
  <1>5. \A q \in live : SpaceOf(q)' = SpaceOf(q)
    <2>1. \A q \in live : /\ pagedir'[q] = pagedir[q]
                         /\ \A x \in SpaceOf(q) : ram'.mem[x] = ram.mem[x]
      BY ForkOthers
    <2> QED
      BY <1>1, <2>1, OthersKept
  <1>6. Taken(p) # {}
    <2>1. ram \in Memories /\ pagedir[p] \in Pages
      BY <1>1 DEF MInv, Separate, SpaceInv
    <2> QED
      BY <2>1, PartsAre DEF Taken
  <1>7. Owned[c] = {} /\ Owned'[c] = Taken(p)
    BY <1>1, <1>2, <1>3 DEF Owned
  <1>8. \A q \in Procs \ {c} : Owned'[q] = Owned[q]
    BY <1>1, <1>2, <1>5 DEF Owned
  <1>9. Owned' = [Owned EXCEPT ![c] = Owned'[c]]
    <2>1. /\ Owned = [q \in Procs |-> Owned[q]]
          /\ Owned' = [q \in Procs |-> Owned'[q]]
      BY DEF Owned
    <2> QED
      BY <1>8, <2>1
  <1>10. Free = FreePages /\ Free' = FreePages'
    BY <1>1, <1>2 DEF Free
  <1>11. /\ Owned[c] = {} /\ Owned'[c] # {} /\ Owned'[c] \subseteq Free
         /\ Free' = Free \ Owned'[c]
    BY <1>4, <1>6, <1>7, <1>10
  <1> QED
    BY <1>1, <1>2, <1>9, <1>11 DEF Owners!Create, Owned, Free

LEMMA OwnersFinish ==
    ASSUME MInv, NEW p \in Procs, Exit(p)
    PROVE  Owners!Finish(p)
  <1>1. Sound /\ p \in live /\ live' = live \ {p}
    BY DEF Exit, Calls, Sound
  <1>2. /\ Sound' /\ FreePages' = FreePages \cup {pagedir[p]}
        /\ \A q \in live \ {p} : SpaceOf(q)' = SpaceOf(q)
    BY ExitInv
  <1>3. pagedir[p] \in SpaceOf(p)
    BY DEF SpaceOf
  <1>4. Owned[p] = SpaceOf(p) /\ Owned'[p] = {}
    BY <1>1 DEF Owned
  <1>5. \A q \in Procs \ {p} : Owned'[q] = Owned[q]
    BY <1>1, <1>2 DEF Owned
  <1>6. Owned' = [Owned EXCEPT ![p] = {}]
    <2>1. /\ Owned = [q \in Procs |-> Owned[q]]
          /\ Owned' = [q \in Procs |-> Owned'[q]]
      BY DEF Owned
    <2> QED
      BY <1>4, <1>5, <2>1
  <1>7. Free' = Free \cup {pagedir[p]} /\ pagedir[p] \in Owned[p]
        /\ Owned[p] # {}
    BY <1>1, <1>2, <1>3, <1>4 DEF Free
  <1>8. \E d \in Owned[p] : Free' = Free \cup {d}
    BY <1>7
  <1> QED
    BY <1>1, <1>2, <1>6, <1>7, <1>8 DEF Owners!Finish, Owned, Free

(***************************************************************************)
(* The memory code implements PageOwners: directories, tables and the      *)
(* threaded free list amount to a transfer of whole pages between owners,  *)
(* until an allocation fails or an execve begins.                          *)
(***************************************************************************)
THEOREM AddressSpacesImplementsPageOwners == Spec => ImplementsPageOwners
  <1>1. Init => Owners!Init
    BY OwnersInit
  <1>2. MInv /\ [Next]_vars => [Owners!Next]_(Owners!vars)
    <2> SUFFICES ASSUME MInv, [Next]_vars PROVE [Owners!Next]_(Owners!vars)
      OBVIOUS
    <2>1. ASSUME NEW p \in Procs, NEW c \in Procs, Fork(p, c)
          PROVE  Owners!Next
      <3>1. CASE Taken(p) \cap Ends # {}
        <4>1. Sound /\ ~Sound'
          BY <2>1, <3>1, ForkCalls, ForkFails DEF Sound
        <4> QED
          BY <4>1, OwnersSpoil DEF Owners!Next
      <3>2. CASE Taken(p) \cap Ends = {}
        <4>1. Owners!Create(c)
          BY <2>1, <3>2, OwnersCreate
        <4> QED
          BY <4>1 DEF Owners!Next
      <3> QED
        BY <3>1, <3>2
    <2>2. ASSUME NEW p \in Procs, Exit(p) PROVE Owners!Next
      <3>1. Owners!Finish(p)
        BY <2>2, OwnersFinish
      <3> QED
        BY <3>1 DEF Owners!Next
    <2>3. ASSUME NEW p \in Procs, Execve(p) PROVE Owners!Next
      <3>1. Sound /\ ~Sound'
        BY <2>3, ExecveInv
      <3> QED
        BY <3>1, OwnersSpoil DEF Owners!Next
    <2>4. ASSUME NEW p \in Procs, Store(p) PROVE UNCHANGED Owners!vars
      <3>1. Sound /\ live' = live
        BY <2>4 DEF Store, Calls, Sound
      <3>2. /\ Sound' /\ FreePages' = FreePages
            /\ \A q \in live : SpaceOf(q)' = SpaceOf(q)
        BY <2>4, StoreInv
      <3>3. Sound' = Sound
        BY <3>1, <3>2
      <3> QED
        BY <3>1, <3>2, <3>3, OwnersStutter
    <2>5. ASSUME UNCHANGED vars PROVE UNCHANGED Owners!vars
      <3>1. ram' = ram /\ pagedir' = pagedir /\ live' = live
            /\ replaced' = replaced
        BY <2>5 DEF vars
      <3>2. Sound' = Sound
        BY <3>1 DEF Sound
      <3>3. Sound => FreePages' = FreePages
        BY <3>1, StaysSeparate
      <3>4. Sound => \A q \in live : SpaceOf(q)' = SpaceOf(q)
        BY <3>1, StaysSeparate
      <3> QED
        BY <3>1, <3>2, <3>3, <3>4, OwnersStutter
    <2> QED
      BY <2>1, <2>2, <2>3, <2>4, <2>5 DEF Next
  <1> QED
    BY <1>1, <1>2, MemoryInvariant, PTL
      DEF Spec, ImplementsPageOwners, Owners!Spec
=============================================================================
