---------------------------- MODULE PathsProofs ----------------------------
(***************************************************************************)
(* Proofs about Paths: in every tidy root directory the calls can make,    *)
(* strmatch finds the first place of a name, and every path leads where    *)
(* FileSystem says, for all names and paths over any letters that fit      *)
(* their buffers, any number of items, any inode numbers with letters in   *)
(* them, and whatever letters the buffer of strcut held.                   *)
(*                                                                         *)
(* In this order: strings; strmatch; the directory block; the items of the *)
(* directory; a component with a separator behind it; the last component;  *)
(* the walk over a path; what is found in the directory; the name that is  *)
(* entered; the theorems.                                                  *)
(***************************************************************************)
EXTENDS Paths, FileSystemProofs, SequenceTheorems, FiniteSetTheorems

-----------------------------------------------------------------------------
(***************************************************************************)
(* The enumerated strings are sequences.                                   *)
(***************************************************************************)
LEMMA StringIs ==
    ASSUME NEW chars, NEW max \in Nat, NEW s \in Strings(chars, max)
    PROVE  s \in Seq(chars) /\ Len(s) \in 0 .. max
  <1>1. PICK n \in 0 .. max : s \in [1 .. n -> chars]
    BY DEF Strings
  <1>2. n \in Nat
    BY <1>1
  <1>3. s \in Seq(chars)
    BY <1>1, <1>2, SeqDef
  <1>4. DOMAIN s = 1 .. n /\ DOMAIN s = 1 .. Len(s) /\ Len(s) \in Nat
    BY <1>1, <1>3, LenProperties
  <1> QED
    BY <1>2, <1>3, <1>4

(***************************************************************************)
(* Indexing as in C: the characters in turn, and the NUL behind them.      *)
(***************************************************************************)
LEMMA AtIs ==
    ASSUME NEW S, NEW s \in Seq(S)
    PROVE  /\ Len(s) \in Nat
           /\ \A i \in 0 .. Len(s) - 1 : At(s, i) = s[i + 1] /\ At(s, i) \in S
           /\ \A i \in Nat : Len(s) <= i => At(s, i) = Nul
  <1>1. Len(s) \in Nat
    BY LenProperties
  <1>2. ASSUME NEW i \in 0 .. Len(s) - 1
        PROVE  At(s, i) = s[i + 1] /\ At(s, i) \in S
    <2>1. i + 1 \in 1 .. Len(s) /\ i < Len(s)
      BY <1>1
    <2> QED
      BY <2>1, ElementOfSeq DEF At
  <1>3. \A i \in Nat : Len(s) <= i => At(s, i) = Nul
    BY <1>1 DEF At
  <1> QED
    BY <1>1, <1>2, <1>3

(***************************************************************************)
(* Strings of one length with the same characters at every offset are one. *)
(***************************************************************************)
LEMMA SameString ==
    ASSUME NEW S, NEW s \in Seq(S), NEW t \in Seq(S), Len(s) = Len(t),
           \A i \in 0 .. Len(s) - 1 : At(s, i) = At(t, i)
    PROVE  s = t
  <1>1. ASSUME NEW i \in 1 .. Len(s) PROVE s[i] = t[i]
    <2>1. Len(s) \in Nat /\ i - 1 \in 0 .. Len(s) - 1 /\ i - 1 + 1 = i
      BY LenProperties
    <2>2. At(s, i - 1) = s[i] /\ At(t, i - 1) = t[i]
      BY <2>1, AtIs
    <2> QED
      BY <2>1, <2>2
  <1> QED
    BY <1>1, SeqEqual

(***************************************************************************)
(* A pointer into a string sees its characters from there on.              *)
(***************************************************************************)
LEMMA FromIs ==
    ASSUME NEW S, NEW s \in Seq(S), NEW i \in 0 .. Len(s)
    PROVE  /\ From(s, i) \in Seq(S) /\ Len(From(s, i)) = Len(s) - i
           /\ \A k \in Nat : At(From(s, i), k) = At(s, i + k)
  <1>1. Len(s) \in Nat /\ i \in Int /\ i + 1 \in Int
    BY LenProperties
  <1>2. \A k \in i + 1 .. Len(s) : s[k] \in S
    <2>1. \A k \in i + 1 .. Len(s) : k \in 1 .. Len(s)
      BY <1>1
    <2> QED
      BY <2>1, ElementOfSeq
  <1>3. /\ From(s, i) \in Seq(S)
        /\ Len(From(s, i)) =
             IF i + 1 <= Len(s) THEN Len(s) - (i + 1) + 1 ELSE 0
        /\ \A k \in 1 .. Len(s) - (i + 1) + 1 :
             From(s, i)[k] = s[i + 1 + k - 1]
    BY <1>1, <1>2, SubSeqProperties DEF From
  <1>4. Len(From(s, i)) = Len(s) - i
    BY <1>1, <1>3
  <1>5. ASSUME NEW k \in Nat PROVE At(From(s, i), k) = At(s, i + k)
    <2>1. CASE k < Len(s) - i
      <3>1. k + 1 \in 1 .. Len(s) - (i + 1) + 1 /\ i + k < Len(s)
            /\ i + 1 + (k + 1) - 1 = i + k + 1
        BY <1>1, <2>1
      <3>2. From(s, i)[k + 1] = s[i + k + 1]
        BY <1>3, <3>1
      <3> QED
        BY <1>4, <2>1, <3>1, <3>2 DEF At
    <2>2. CASE ~(k < Len(s) - i)
      <3>1. ~(i + k < Len(s))
        BY <1>1, <2>2
      <3> QED
        BY <1>4, <2>2, <3>1 DEF At
    <2> QED
      BY <2>1, <2>2
  <1> QED
    BY <1>3, <1>4, <1>5

(***************************************************************************)
(* A prefix has the characters of the string.                              *)
(***************************************************************************)
LEMMA UpToIs ==
    ASSUME NEW S, NEW s \in Seq(S), NEW i \in 0 .. Len(s)
    PROVE  /\ UpTo(s, i) \in Seq(S) /\ Len(UpTo(s, i)) = i
           /\ \A k \in 0 .. i - 1 : At(UpTo(s, i), k) = At(s, k)
  <1>1. Len(s) \in Nat /\ i \in Int /\ i \in Nat
    BY LenProperties
  <1>2. \A k \in 1 .. i : s[k] \in S
    <2>1. \A k \in 1 .. i : k \in 1 .. Len(s)
      BY <1>1
    <2> QED
      BY <2>1, ElementOfSeq
  <1>3. /\ UpTo(s, i) \in Seq(S)
        /\ Len(UpTo(s, i)) = IF 1 <= i THEN i - 1 + 1 ELSE 0
        /\ \A k \in 1 .. i - 1 + 1 : UpTo(s, i)[k] = s[1 + k - 1]
    BY <1>1, <1>2, SubSeqProperties DEF UpTo
  <1>4. Len(UpTo(s, i)) = i
    BY <1>1, <1>3
  <1>5. ASSUME NEW k \in 0 .. i - 1 PROVE At(UpTo(s, i), k) = At(s, k)
    <2>1. k + 1 \in 1 .. i - 1 + 1 /\ k < i /\ k < Len(s)
          /\ 1 + (k + 1) - 1 = k + 1
      BY <1>1
    <2>2. UpTo(s, i)[k + 1] = s[k + 1]
      BY <1>3, <2>1
    <2> QED
      BY <1>4, <2>1, <2>2 DEF At
  <1> QED
    BY <1>3, <1>4, <1>5

(***************************************************************************)
(* Where the loops of str.c stop: at the first c, or at the NUL            *)
(* (str.c:59-66).                                                          *)
(***************************************************************************)
LEMMA FirstStopIs ==
    ASSUME NEW S, NEW s \in Seq(S), NEW c
    PROVE  /\ FirstStop(s, c) \in 0 .. Len(s)
           /\ At(s, FirstStop(s, c)) \in {c, Nul}
           /\ \A k \in 0 .. FirstStop(s, c) - 1 : At(s, k) \notin {c, Nul}
  <1> DEFINE Stops == {i \in 0 .. Len(s) : At(s, i) \in {c, Nul}}
  <1>1. Len(s) \in Nat /\ At(s, Len(s)) = Nul
    BY AtIs
  <1>2. Stops \in SUBSET Nat /\ Len(s) \in Stops
    BY <1>1
  <1>3. FirstStop(s, c) \in Stops /\ \A k \in Stops : FirstStop(s, c) <= k
    <2>1. Stops # {}
      BY <1>2
    <2> HIDE DEF Stops
    <2>2. Least(Stops) \in Stops /\ \A k \in Stops : Least(Stops) <= k
      BY <1>2, <2>1, LeastOf
    <2> QED
      BY <2>2 DEF FirstStop, Stops
  <1>4. ASSUME NEW k \in 0 .. FirstStop(s, c) - 1
        PROVE  At(s, k) \notin {c, Nul}
    <2>1. FirstStop(s, c) \in 0 .. Len(s)
      BY <1>3
    <2>2. k \in 0 .. Len(s) /\ ~(FirstStop(s, c) <= k)
      BY <1>1, <2>1
    <2> QED
      BY <1>3, <2>2
  <1> QED
    BY <1>3, <1>4

(***************************************************************************)
(* findfirstsprt: -1 and no c in the string, or the offset of the first    *)
(* one. The NUL itself is not a character of strings.                      *)
(***************************************************************************)
LEMMA FirstSeparator ==
    ASSUME NEW S, Nul \notin S, NEW s \in Seq(S), NEW c, c # Nul
    PROVE  \/ /\ findfirstsprt(s, c) = -1
              /\ \A k \in 0 .. Len(s) - 1 : At(s, k) # c
           \/ /\ findfirstsprt(s, c) \in 0 .. Len(s) - 1
              /\ findfirstsprt(s, c) = FirstStop(s, c)
              /\ At(s, findfirstsprt(s, c)) = c
              /\ \A k \in 0 .. findfirstsprt(s, c) - 1 : At(s, k) # c
  <1>1. /\ FirstStop(s, c) \in 0 .. Len(s)
           /\ At(s, FirstStop(s, c)) \in {c, Nul}
        /\ \A k \in 0 .. FirstStop(s, c) - 1 : At(s, k) \notin {c, Nul}
    BY FirstStopIs
  <1>2. Len(s) \in Nat /\ At(s, Len(s)) = Nul
        /\ \A i \in 0 .. Len(s) - 1 : At(s, i) \in S
    BY AtIs
  <1>3. CASE FirstStop(s, c) = Len(s)
    BY <1>1, <1>2, <1>3 DEF findfirstsprt
  <1>4. CASE FirstStop(s, c) # Len(s)
    <2>1. FirstStop(s, c) \in 0 .. Len(s) - 1
      BY <1>1, <1>2, <1>4
    <2>2. At(s, FirstStop(s, c)) # Nul
      BY <1>2, <2>1
    <2>3. findfirstsprt(s, c) = FirstStop(s, c)
      BY <2>2 DEF findfirstsprt
    <2> QED
      BY <1>1, <2>1, <2>2, <2>3
  <1> QED
    BY <1>3, <1>4

-----------------------------------------------------------------------------
(***************************************************************************)
(* The places of source in dest from the offset o on.                      *)
(***************************************************************************)
Later(source, dest, o) == {p \in Places(source, dest) : o <= p}

(***************************************************************************)
(* What strmatch is to answer when it has come to offset o: the first of   *)
(* the places left, -1 without one, and nothing at all behind the end.     *)
(***************************************************************************)
Answer(source, dest, o) ==
    IF o >= Len(dest) THEN NoReturn
    ELSE IF Later(source, dest, o) = {} THEN -1
    ELSE Least(Later(source, dest, o))

(***************************************************************************)
(* f solves the equation of strmatch's loop. No candidate goes further     *)
(* than the last byte, so the loop ends, and Answer is the only solution.  *)
(***************************************************************************)
Endless(source, dest, f) ==
    f = [o \in 0 .. 2 * Len(dest) + Len(source) |->
            LET k == NextCandidate(source, dest, o)
            IN  IF o >= Len(dest) THEN NoReturn
                ELSE IF k = Len(dest) THEN -1
                ELSE IF SameAt(source, dest, k) THEN k
                ELSE f[GoOn(k, source)]]

(***************************************************************************)
(* The next candidate is where the first letter stands, and no place of    *)
(* source is skipped by going there (str.c:143-153).                       *)
(***************************************************************************)
LEMMA CandidateIs ==
    ASSUME NEW S, NEW source \in Seq(S), 0 < Len(source),
           NEW T, NEW dest \in Seq(T), NEW o \in 0 .. Len(dest) - 1
    PROVE  /\ NextCandidate(source, dest, o) \in o .. Len(dest)
           /\ NextCandidate(source, dest, o) # Len(dest) =>
                At(dest, NextCandidate(source, dest, o)) = At(source, 0)
           /\ \A p \in Places(source, dest) :
                o <= p => NextCandidate(source, dest, o) <= p
  <1> DEFINE C == {k \in o .. Len(dest) - 1 : At(dest, k) = At(source, 0)}
                    \cup {Len(dest)}
             k == NextCandidate(source, dest, o)
  <1>1. Len(dest) \in Nat /\ Len(source) \in Nat
    BY LenProperties
  <1>2. C \in SUBSET Nat /\ C # {}
    BY <1>1
  <1>3. k \in C /\ \A y \in C : k <= y
    <2> HIDE DEF C
    <2>1. Least(C) \in C /\ \A y \in C : Least(C) <= y
      BY <1>2, LeastOf
    <2> QED
      BY <2>1 DEF C, NextCandidate
  <1>4. k \in o .. Len(dest) /\ (k # Len(dest) => At(dest, k) = At(source, 0))
    BY <1>1, <1>3
  <1>5. ASSUME NEW p \in Places(source, dest), o <= p PROVE p \in C
    <2>1. p \in 0 .. Len(dest) - 1 /\ SameAt(source, dest, p)
      BY <1>5 DEF Places
    <2>2. 0 \in 0 .. Len(source) - 1 /\ p + 0 = p
      BY <1>1, <2>1
    <2>3. At(source, 0) = At(dest, p)
      BY <2>1, <2>2 DEF SameAt
    <2> QED
      BY <1>1, <1>5, <2>1, <2>3
  <1> QED
    BY <1>3, <1>4, <1>5

(***************************************************************************)
(* One turn of the loop: no candidate, a match, or one more offset. The    *)
(* last byte is not the first letter of source, so going on stays inside   *)
(* dest and the answer for what is left is the same.                       *)
(***************************************************************************)
LEMMA AnswerStep ==
    ASSUME NEW S, NEW source \in Seq(S), 0 < Len(source),
           NEW T, NEW dest \in Seq(T), 0 < Len(dest),
           At(dest, Len(dest) - 1) # At(source, 0),
           NEW o \in 0 .. Len(dest) - 1
    PROVE  LET k == NextCandidate(source, dest, o)
           IN  /\ k = Len(dest) => Answer(source, dest, o) = -1
               /\ k # Len(dest) /\ SameAt(source, dest, k) =>
                    Answer(source, dest, o) = k
               /\ k # Len(dest) /\ ~SameAt(source, dest, k) =>
                    /\ GoOn(k, source) \in o + 1 .. Len(dest) - 1
                    /\ Answer(source, dest, o)
                         = Answer(source, dest, GoOn(k, source))
  <1> DEFINE k == NextCandidate(source, dest, o)
             L == Later(source, dest, o)
  <1>1. /\ k \in o .. Len(dest)
           /\ (k # Len(dest) => At(dest, k) = At(source, 0))
        /\ \A p \in Places(source, dest) : o <= p => k <= p
    BY CandidateIs
  <1>2. Len(dest) \in Nat /\ Len(source) \in Nat
    BY LenProperties
  <1>3. \A p \in Places(source, dest) : p \in 0 .. Len(dest) - 1
                                        /\ SameAt(source, dest, p)
    BY DEF Places
  <1>4. ~(o >= Len(dest))
    BY <1>2
  <1> HIDE DEF k
  <1>5. ASSUME k = Len(dest) PROVE Answer(source, dest, o) = -1
    <2>1. L = {}
      BY <1>1, <1>2, <1>3, <1>5 DEF Later
    <2> QED
      BY <1>4, <2>1 DEF Answer
  <1>6. ASSUME k # Len(dest), SameAt(source, dest, k)
        PROVE  Answer(source, dest, o) = k
    <2>1. k \in L
      <3>1. k \in 0 .. Len(dest) - 1 /\ o <= k
        BY <1>1, <1>2, <1>6
      <3> QED
        BY <1>6, <3>1 DEF Later, Places
    <2>2. L \in SUBSET Nat /\ \A p \in L : k <= p
      BY <1>1, <1>2, <1>3 DEF Later
    <2>3. Least(L) \in L /\ Least(L) <= k
      BY <2>1, <2>2, LeastOf
    <2>4. Least(L) = k
      BY <2>1, <2>2, <2>3
    <2> QED
      BY <1>4, <2>1, <2>4 DEF Answer
  <1>7. ASSUME k # Len(dest), ~SameAt(source, dest, k)
        PROVE  /\ GoOn(k, source) \in o + 1 .. Len(dest) - 1
               /\ Answer(source, dest, o)
                    = Answer(source, dest, GoOn(k, source))
    <2>1. k # Len(dest) - 1
      BY <1>1, <1>7
    <2>2. GoOn(k, source) \in o + 1 .. Len(dest) - 1 /\ GoOn(k, source) = k + 1
      BY <1>1, <1>2, <1>7, <2>1 DEF GoOn
    <2>3. Later(source, dest, k + 1) = L
      <3>1. ASSUME NEW p \in Places(source, dest) PROVE o <= p <=> k + 1 <= p
        <4>1. p # k
          BY <1>3, <1>7
        <4> QED
          BY <1>1, <1>2, <1>3, <4>1
      <3> QED
        BY <3>1 DEF Later
    <2>4. ~(k + 1 >= Len(dest))
      BY <1>2, <2>2
    <2> QED
      BY <1>4, <2>2, <2>3, <2>4 DEF Answer
  <1> QED
    BY <1>5, <1>6, <1>7 DEF k

(***************************************************************************)
(* strmatch is the first place of source in dest, and it always returns a  *)
(* value, as long as the last byte of dest is not the first letter of      *)
(* source. The equation of the loop has a solution, so the CHOOSE behind   *)
(* the definition means it; any solution is Answer, from the end of dest   *)
(* backwards.                                                              *)
(***************************************************************************)
LEMMA StrmatchIs ==
    ASSUME NEW S, NEW source \in Seq(S), 0 < Len(source),
           NEW T, NEW dest \in Seq(T), 0 < Len(dest),
           At(dest, Len(dest) - 1) # At(source, 0)
    PROVE  strmatch(source, dest) =
             IF Places(source, dest) = {} THEN -1
             ELSE Least(Places(source, dest))
  <1> DEFINE D == 0 .. 2 * Len(dest) + Len(source)
             A(o) == Answer(source, dest, o)
  <1>1. Len(dest) \in Nat /\ Len(source) \in Nat
    BY LenProperties
  <1>2. \E f : Endless(source, dest, f)
    <2> DEFINE f == [o \in D |-> A(o)]
    <2>1. ASSUME NEW o \in D
          PROVE  A(o) = LET k == NextCandidate(source, dest, o)
                        IN  IF o >= Len(dest) THEN NoReturn
                            ELSE IF k = Len(dest) THEN -1
                            ELSE IF SameAt(source, dest, k) THEN k
                            ELSE f[GoOn(k, source)]
      <3>1. CASE o >= Len(dest)
        BY <3>1 DEF Answer
      <3>2. CASE ~(o >= Len(dest))
        <4> DEFINE k == NextCandidate(source, dest, o)
        <4>1. o \in 0 .. Len(dest) - 1
          BY <1>1, <3>2
        <4>2. /\ k = Len(dest) => A(o) = -1
              /\ k # Len(dest) /\ SameAt(source, dest, k) => A(o) = k
              /\ k # Len(dest) /\ ~SameAt(source, dest, k) =>
                   /\ GoOn(k, source) \in o + 1 .. Len(dest) - 1
                   /\ A(o) = A(GoOn(k, source))
          BY <4>1, AnswerStep
        <4> HIDE DEF k, A
        <4>3. ASSUME k # Len(dest), ~SameAt(source, dest, k)
              PROVE  A(o) = f[GoOn(k, source)]
          <5>1. GoOn(k, source) \in D
            BY <1>1, <4>1, <4>2, <4>3
          <5> QED
            BY <4>2, <4>3, <5>1
        <4> HIDE DEF f
        <4> QED
          BY <3>2, <4>2, <4>3 DEF k
      <3> QED
        BY <3>1, <3>2
    <2> HIDE DEF A, D
    <2>2. f = [o \in D |-> LET k == NextCandidate(source, dest, o)
                        IN  IF o >= Len(dest) THEN NoReturn
                            ELSE IF k = Len(dest) THEN -1
                            ELSE IF SameAt(source, dest, k) THEN k
                            ELSE f[GoOn(k, source)]]
      BY <2>1
    <2> QED
      BY <2>2 DEF Endless, D
  <1>3. \E f : Endless(source, dest, f) /\ strmatch(source, dest) = f[0]
    <2> DEFINE from == CHOOSE f : Endless(source, dest, f)
    <2>1. Endless(source, dest, from)
      BY <1>2
    <2>2. strmatch(source, dest) = from[0]
      BY DEF strmatch, Endless
    <2> QED
      BY <2>1, <2>2
  <1>4. PICK f : Endless(source, dest, f) /\ strmatch(source, dest) = f[0]
    BY <1>3
  <1>5. ASSUME NEW o \in D
        PROVE  f[o] = LET k == NextCandidate(source, dest, o)
                      IN  IF o >= Len(dest) THEN NoReturn
                          ELSE IF k = Len(dest) THEN -1
                          ELSE IF SameAt(source, dest, k) THEN k
                          ELSE f[GoOn(k, source)]
    <2> DEFINE e(z) == LET k == NextCandidate(source, dest, z)
                      IN  IF z >= Len(dest) THEN NoReturn
                          ELSE IF k = Len(dest) THEN -1
                          ELSE IF SameAt(source, dest, k) THEN k
                          ELSE f[GoOn(k, source)]
    <2>1. f = [z \in D |-> e(z)]
      BY <1>4, Zenon DEF Endless
    <2> HIDE DEF e
    <2>2. f[o] = e(o)
      BY <2>1
    <2> QED
      BY <2>2 DEF e
  <1> DEFINE Bad ==
        {d \in 1 .. Len(dest) : f[Len(dest) - d] # A(Len(dest) - d)}
  <1>6. Bad = {}
    <2>1. SUFFICES ASSUME Bad # {} PROVE FALSE
      OBVIOUS
    <2>2. Bad \in SUBSET Nat
      OBVIOUS
    <2>3. PICK d \in Bad : \A y \in Bad : d <= y
      <3> HIDE DEF Bad
      <3> QED
        BY <2>1, <2>2, LeastOf
    <2> DEFINE o == Len(dest) - d
               k == NextCandidate(source, dest, o)
    <2>4. o \in 0 .. Len(dest) - 1 /\ o \in D /\ ~(o >= Len(dest))
      BY <1>1, <2>3
    <2>5. f[o] # A(o)
      BY <2>3
    <2>6. /\ k = Len(dest) => A(o) = -1
          /\ k # Len(dest) /\ SameAt(source, dest, k) => A(o) = k
          /\ k # Len(dest) /\ ~SameAt(source, dest, k) =>
               /\ GoOn(k, source) \in o + 1 .. Len(dest) - 1
               /\ A(o) = A(GoOn(k, source))
      BY <2>4, AnswerStep
    <2>7. f[o] = IF k = Len(dest) THEN -1
                 ELSE IF SameAt(source, dest, k) THEN k
                 ELSE f[GoOn(k, source)]
      BY <1>5, <2>4
    <2> HIDE DEF k, A
    <2>8. k # Len(dest) /\ ~SameAt(source, dest, k)
      BY <2>5, <2>6, <2>7
    <2>9. f[GoOn(k, source)] = A(GoOn(k, source))
      <3>1. PICK g \in o + 1 .. Len(dest) - 1 : g = GoOn(k, source)
        BY <2>6, <2>8
      <3>2. Len(dest) - g \in 1 .. Len(dest) /\ ~(d <= Len(dest) - g)
            /\ Len(dest) - (Len(dest) - g) = g
        BY <1>1, <2>3, <2>4, <3>1
      <3>3. Len(dest) - g \notin Bad
        BY <2>3, <3>2
      <3> QED
        BY <3>1, <3>2, <3>3
    <2> QED
      BY <2>5, <2>6, <2>7, <2>8, <2>9
  <1>7. f[0] = A(0)
    <2>1. Len(dest) \in 1 .. Len(dest) /\ Len(dest) - Len(dest) = 0
      BY <1>1
    <2> QED
      BY <1>6, <2>1
  <1>8. Later(source, dest, 0) = Places(source, dest) /\ ~(0 >= Len(dest))
    BY <1>1 DEF Later, Places
  <1> QED
    BY <1>4, <1>7, <1>8 DEF Answer

-----------------------------------------------------------------------------
(***************************************************************************)
(* What stands in the block: letters, and bytes that are none.             *)
(***************************************************************************)
BlockChars == Letters \cup {Nul}

(***************************************************************************)
(* The assumptions on characters and sizes, in the form they are used.     *)
(***************************************************************************)
LEMMA CharactersDiffer ==
    /\ Nul \notin Letters /\ Sep \notin Letters
    /\ Sep # Nul /\ Sep \notin BlockChars /\ Nul \notin Letters \cup {Sep}
    /\ PATH_MAX \in Nat /\ NAME_MAX \in Nat /\ NAME_MAX # 0
    /\ NUMBER \in Nat /\ NUMBER # 0
    /\ ITEM \in Nat /\ ITEM # 0 /\ ITEM = NAME_MAX + NUMBER
    /\ SLOTS \in Nat /\ 2 <= SLOTS /\ SLOTS * ITEM_UNITS <= BLOCK_SIZE
    /\ ITEM * SLOTS \in Nat
  <1>1. /\ NAME_MAX \in Nat \ {0} /\ PATH_MAX \in Nat /\ NUMBER \in Nat \ {0}
        /\ Letters \cap {"/", "NUL"} = {}
    BY PathsAssumption
  <1>2. ITEM \in Nat /\ ITEM # 0 /\ ITEM = NAME_MAX + NUMBER
    BY <1>1 DEF ITEM
  <1>3. SLOTS \in Nat /\ 2 <= SLOTS /\ SLOTS * ITEM_UNITS <= BLOCK_SIZE
    <2>. DEFINE q == BLOCK_SIZE \div ITEM_UNITS
    <2>1. /\ q \in Nat /\ ITEM_UNITS * q <= BLOCK_SIZE
          /\ BLOCK_SIZE < ITEM_UNITS * (q + 1)
      BY Sizes, DivMod
    <2>2. SLOTS = q
      BY DEF SLOTS
    <2>. HIDE DEF q
    <2>3. 2 <= q
      <3>1. q = 0 => ITEM_UNITS * (q + 1) = ITEM_UNITS
        BY Sizes
      <3>2. q = 1 => ITEM_UNITS * (q + 1) = 2 * ITEM_UNITS
        BY Sizes
      <3>3. q # 0 /\ q # 1
        BY <2>1, <3>1, <3>2, Sizes
      <3>. QED BY <2>1, <3>3
    <2>4. q * ITEM_UNITS = ITEM_UNITS * q
      BY <2>1, Sizes
    <2>. QED BY <2>1, <2>2, <2>3, <2>4
  <1>4. ITEM * SLOTS \in Nat
    BY <1>2, <1>3
  <1>5. /\ Nul \notin Letters /\ Sep \notin Letters
        /\ Sep # Nul /\ Sep \notin BlockChars /\ Nul \notin Letters \cup {Sep}
    BY <1>1 DEF Nul, Sep, BlockChars
  <1>. QED BY <1>1, <1>2, <1>3, <1>4, <1>5

(***************************************************************************)
(* Items whose names are letters that fit their field, and whose numbers   *)
(* have no two letters in turn, and none in the last byte.                 *)
(***************************************************************************)
NameFits(name) == name \in Seq(Letters) /\ Len(name) < NAME_MAX

NumberFits(number) ==
    /\ number \in Seq(BlockChars) /\ Len(number) <= NUMBER
    /\ \A k \in Nat : At(number, k) \in Letters =>
          k + 1 < NUMBER /\ At(number, k + 1) = Nul

Fields(items) ==
    \A s \in Slots : NameFits(items[s].name) /\ NumberFits(items[s].number)

(***************************************************************************)
(* A field with nothing in it, and what the assumptions say of the numbers *)
(* of inodes.                                                              *)
(***************************************************************************)
LEMMA EmptyFits ==
    /\ NameFits(<<>>) /\ NumberFits(<<>>)
    /\ \A k \in Nat : At(<<>>, k) = Nul
  <1>1. <<>> \in Seq(Letters) /\ <<>> \in Seq(BlockChars) /\ Len(<<>>) = 0
    BY EmptySeq
  <1>2. \A k \in Nat : At(<<>>, k) = Nul
    BY <1>1 DEF At
  <1>. QED BY <1>1, <1>2, CharactersDiffer DEF NameFits, NumberFits

LEMMA SpellingsFit ==
    /\ \A n \in Names : NameFits(Spelling[n]) /\ 0 < Len(Spelling[n])
    /\ \A i \in Inodes : NumberFits(Number[i])
  <1>1. \A n \in Names : NameFits(Spelling[n]) /\ 0 < Len(Spelling[n])
    BY PathsAssumption DEF NameFits
  <1>2. ASSUME NEW i \in Inodes PROVE NumberFits(Number[i])
    <2>. DEFINE number == Number[i]
    <2>1. /\ number \in Seq(BlockChars) /\ Len(number) = NUMBER
          /\ \A k \in 1 .. NUMBER : number[k] \in Letters =>
                k < NUMBER /\ number[k + 1] = Nul
      BY PathsAssumption DEF BlockChars, Nul
    <2>. HIDE DEF number
    <2>2. ASSUME NEW k \in Nat, At(number, k) \in Letters
          PROVE  k + 1 < NUMBER /\ At(number, k + 1) = Nul
      <3>1. k < Len(number)
        BY <2>2, CharactersDiffer DEF At
      <3>2. At(number, k) = number[k + 1] /\ k + 1 \in 1 .. NUMBER
        BY <2>1, <3>1, CharactersDiffer DEF At
      <3>3. k + 1 < NUMBER /\ number[k + 2] = Nul
        BY <2>1, <2>2, <3>2
      <3>4. At(number, k + 1) = number[k + 2]
        BY <2>1, <3>3 DEF At
      <3>. QED BY <3>3, <3>4
    <2>. QED BY <2>1, <2>2, CharactersDiffer DEF NumberFits, number
  <1>. QED BY <1>1, <1>2

(***************************************************************************)
(* Every item of a directory has fields like that.                         *)
(***************************************************************************)
LEMMA SpelledIs ==
    ASSUME NEW entries \in Directories
    PROVE  /\ Fields(Spelled(entries))
           /\ \A s \in Slots :
                \/ /\ entries[s] = NoEntry
                   /\ Spelled(entries)[s] = [name |-> <<>>, number |-> <<>>]
                \/ /\ entries[s] # NoEntry
                   /\ entries[s] \in [name : Names, inode : 2 .. INODES]
                   /\ Spelled(entries)[s].name = Spelling[entries[s].name]
                   /\ Spelled(entries)[s].number = Number[entries[s].inode]
  <1>. DEFINE Entry == [name : Names, inode : 2 .. INODES]
  <1>1. entries \in [Slots -> Entry \cup {NoEntry}]
    <2>. DEFINE shell == [name |-> "shell", inode |-> 3]
                mypro == [name |-> "mypro", inode |-> 2]
                Later4 == [name : Names, inode : 4 .. INODES]
    <2>1. PICK some \in [Slots -> Later4 \cup {NoEntry}] :
             entries = [some EXCEPT ![0] = shell, ![1] = mypro]
      BY DEF Directories
    <2>2. shell \in Entry /\ mypro \in Entry
      <3>1. 3 \in 2 .. INODES /\ 2 \in 2 .. INODES
        BY Sizes
      <3>2. "shell" \in Names /\ "mypro" \in Names
        BY NamesUsed
      <3>. QED BY <3>1, <3>2
    <2>3. Later4 \subseteq Entry
      BY Sizes
    <2>. HIDE DEF shell, mypro, Later4, Entry
    <2>. QED BY <2>1, <2>2, <2>3
  <1>2. ASSUME NEW s \in Slots
        PROVE  /\ NameFits(Spelled(entries)[s].name)
               /\ NumberFits(Spelled(entries)[s].number)
               /\ \/ /\ entries[s] = NoEntry
                     /\ Spelled(entries)[s] = [name |-> <<>>, number |-> <<>>]
                  \/ /\ entries[s] # NoEntry
                     /\ entries[s] \in Entry
                     /\ Spelled(entries)[s].name = Spelling[entries[s].name]
                     /\ Spelled(entries)[s].number = Number[entries[s].inode]
    <2>1. Spelled(entries)[s] =
             IF entries[s] = NoEntry THEN [name |-> <<>>, number |-> <<>>]
             ELSE [name   |-> Spelling[entries[s].name],
                   number |-> Number[entries[s].inode]]
      BY DEF Spelled
    <2>2. CASE entries[s] = NoEntry
      <3>1. Spelled(entries)[s] = [name |-> <<>>, number |-> <<>>]
        BY <2>1, <2>2
      <3>2. /\ Spelled(entries)[s].name = <<>>
            /\ Spelled(entries)[s].number = <<>>
        BY <3>1
      <3>. QED BY <2>2, <3>1, <3>2, EmptyFits
    <2>3. CASE entries[s] # NoEntry
      <3>1. entries[s] \in Entry
        BY <1>1, <2>3
      <3>2. entries[s].name \in Names /\ entries[s].inode \in Inodes
        BY <3>1, Sizes DEF Inodes
      <3>3. /\ Spelled(entries)[s].name = Spelling[entries[s].name]
            /\ Spelled(entries)[s].number = Number[entries[s].inode]
        BY <2>1, <2>3
      <3>4. /\ NameFits(Spelling[entries[s].name])
            /\ NumberFits(Number[entries[s].inode])
        BY <3>2, SpellingsFit
      <3>. QED BY <2>3, <3>1, <3>3, <3>4
    <2>. QED BY <2>2, <2>3
  <1>. QED BY <1>2 DEF Fields

(***************************************************************************)
(* The number of an item from its offset in the block.                     *)
(***************************************************************************)
LEMMA DivExact ==
    ASSUME NEW a \in Nat \ {0}, NEW b \in Nat
    PROVE  (a * b) \div a = b /\ (a * b) % a = 0
  OBVIOUS

(***************************************************************************)
(* The byte at offset o of item s.                                         *)
(***************************************************************************)
Byte(items, s, o) ==
    IF o < NAME_MAX THEN At(items[s].name, o)
    ELSE At(items[s].number, o - NAME_MAX)

(***************************************************************************)
(* The block, byte by byte. The items do not fill it, so its last byte is  *)
(* a NUL: the reason why strmatch always returns (str.c:155-163).          *)
(***************************************************************************)
LEMMA BlockIs ==
    ASSUME NEW items, Fields(items)
    PROVE  /\ Block(items) \in Seq(BlockChars)
           /\ Len(Block(items)) = ITEM * SLOTS + 1
           /\ At(Block(items), Len(Block(items)) - 1) = Nul
           /\ \A p \in 0 .. ITEM * SLOTS :
                At(Block(items), p) =
                  IF p \div ITEM \notin Slots THEN Nul
                  ELSE Byte(items, p \div ITEM, p % ITEM)
  <1> DEFINE B == ITEM * SLOTS
             c(p) == IF p \div ITEM \notin Slots THEN Nul
                     ELSE Byte(items, p \div ITEM, p % ITEM)
  <1>1. B \in Nat /\ ITEM \in Nat \ {0}
    BY CharactersDiffer
  <1>2. ASSUME NEW p \in Nat PROVE c(p) \in BlockChars
    <2>1. p % ITEM \in Nat
      BY <1>1
    <2>2. ASSUME NEW S \in SUBSET BlockChars, NEW field \in Seq(S),
                 NEW i \in Nat
          PROVE  At(field, i) \in BlockChars
      <3>1. /\ Len(field) \in Nat
            /\ \A k \in 0 .. Len(field) - 1 : At(field, k) \in S
            /\ \A k \in Nat : Len(field) <= k => At(field, k) = Nul
        BY AtIs
      <3>2. CASE i < Len(field)
        BY <3>1, <3>2
      <3>3. CASE ~(i < Len(field))
        BY <3>1, <3>3 DEF BlockChars
      <3> QED
        BY <3>2, <3>3
    <2>3. ASSUME NEW s \in Slots, NEW o \in Nat
          PROVE  Byte(items, s, o) \in BlockChars
      <3>1. items[s].name \in Seq(Letters)
            /\ items[s].number \in Seq(BlockChars)
        BY DEF Fields, NameFits, NumberFits
      <3>2. Letters \in SUBSET BlockChars
        BY DEF BlockChars
      <3>3. CASE o < NAME_MAX
        BY <2>2, <3>1, <3>2, <3>3 DEF Byte
      <3>4. CASE ~(o < NAME_MAX)
        <4>1. o - NAME_MAX \in Nat
          BY <3>4, CharactersDiffer
        <4>2. At(items[s].number, o - NAME_MAX) \in BlockChars
          BY <2>2, <3>1, <4>1
        <4> QED
          BY <3>4, <4>2 DEF Byte
      <3> QED
        BY <3>3, <3>4
    <2> QED
      BY <2>1, <2>3 DEF BlockChars
  <1>3. Block(items) = [k \in 1 .. B + 1 |-> c(k - 1)]
    BY DEF Block, Byte
  <1> HIDE DEF c, B
  <1>4. Block(items) \in [1 .. B + 1 -> BlockChars] /\ B + 1 \in Nat
    <2>1. \A k \in 1 .. B + 1 : k - 1 \in Nat
      BY <1>1
    <2> QED
      BY <1>1, <1>2, <1>3, <2>1
  <1>5. Block(items) \in Seq(BlockChars)
    BY <1>4, SeqDef
  <1>6. Len(Block(items)) = B + 1
    <2>1. /\ DOMAIN Block(items) = 1 .. B + 1 /\ Len(Block(items)) \in Nat
          /\ DOMAIN Block(items) = 1 .. Len(Block(items))
      BY <1>4, <1>5, LenProperties
    <2> QED
      BY <1>1, <2>1
  <1>7. ASSUME NEW p \in 0 .. B PROVE At(Block(items), p) = c(p)
    <2>1. p < B + 1 /\ p + 1 \in 1 .. B + 1 /\ p + 1 - 1 = p
      BY <1>1
    <2>2. Block(items)[p + 1] = c(p + 1 - 1)
      BY <1>3, <2>1
    <2>3. At(Block(items), p) = Block(items)[p + 1]
      BY <1>6, <2>1 DEF At
    <2> QED
      BY <2>1, <2>2, <2>3
  <1>8. At(Block(items), Len(Block(items)) - 1) = Nul
    <2>1. B \in 0 .. B /\ B + 1 - 1 = B
      BY <1>1
    <2>2. B \div ITEM \notin Slots
      <3>1. B \div ITEM = SLOTS
        BY <1>1, CharactersDiffer, DivExact DEF B
      <3> QED
        BY <3>1, CharactersDiffer DEF Slots
    <2> QED
      BY <1>6, <1>7, <2>1, <2>2 DEF c
  <1> QED
    BY <1>5, <1>6, <1>7, <1>8 DEF c, B

(***************************************************************************)
(* strmatch in the block of any root directory that begins with the two    *)
(* programs.                                                               *)
(***************************************************************************)
LEMMA MatchesFirst ==
    ASSUME NEW entries \in Directories
    PROVE  entries \in MatchedFirst
  <1> DEFINE dest == Block(Spelled(entries))
  <1>1. dest \in Seq(BlockChars) /\ Len(dest) = ITEM * SLOTS + 1
        /\ At(dest, Len(dest) - 1) = Nul
    <2>1. Fields(Spelled(entries))
      BY SpelledIs
    <2>. QED BY <2>1, BlockIs
  <1>2. 0 < Len(dest)
    BY <1>1, CharactersDiffer
  <1> HIDE DEF dest
  <1>3. ASSUME NEW source \in Strings(Letters, NAME_MAX - 1) \ {<<>>}
        PROVE  strmatch(source, dest) =
                 IF Places(source, dest) = {} THEN -1
                 ELSE Least(Places(source, dest))
    <2>1. source \in Seq(Letters) /\ 0 < Len(source)
      <3>1. NAME_MAX - 1 \in Nat
        BY CharactersDiffer
      <3> QED
        BY <3>1, StringIs, EmptySeq
    <2>2. At(source, 0) \in Letters
      <3>1. 0 \in 0 .. Len(source) - 1
        BY <2>1, LenProperties
      <3> QED
        BY <2>1, <3>1, AtIs
    <2>3. At(dest, Len(dest) - 1) # At(source, 0)
      BY <1>1, <2>2, CharactersDiffer
    <2> QED
      BY <1>1, <1>2, <2>1, <2>3, StrmatchIs
  <1> QED
    BY <1>3 DEF MatchedFirst, dest

-----------------------------------------------------------------------------
(***************************************************************************)
(* What the directory's items name: the files' names and inodes other than *)
(* the root's; and where init_userpro entered the programs, whole items    *)
(* are still theirs, since what is entered there is written over them.     *)
(***************************************************************************)
Named(items) ==
    /\ \A p \in Positions : items[p].state # "none" =>
          items[p].name \in Names /\ items[p].inode # Root
    /\ items[0].state # "none" /\ items[ITEM_UNITS].state # "none"
    /\ items[0].state = "whole" => items[0] = WholeItem("shell", 3)
    /\ items[ITEM_UNITS].state = "whole" =>
          items[ITEM_UNITS] = WholeItem("mypro", 2)

LEMMA NamedInit == Init => Named(dir)
  <1>. SUFFICES ASSUME Init PROVE Named(dir)
    OBVIOUS
  <1>1. dir = [p \in Positions |-> CASE p = 0 -> WholeItem("shell", 3)
                                     [] p = ITEM_UNITS -> WholeItem("mypro", 2)
                                     [] OTHER -> NoItem]
    BY DEF Init
  <1>2. /\ WholeItem("shell", 3).name = "shell"
        /\ WholeItem("shell", 3).inode = 3
        /\ WholeItem("shell", 3).state = "whole"
        /\ WholeItem("mypro", 2).name = "mypro"
        /\ WholeItem("mypro", 2).inode = 2
        /\ WholeItem("mypro", 2).state = "whole"
        /\ NoItem.state = "none"
    BY DEF WholeItem, NoItem
  <1>3. /\ {0, ITEM_UNITS} \subseteq Positions /\ ITEM_UNITS # 0
        /\ {"shell", "mypro"} \subseteq Names
    BY Numbers, Sizes, NamesUsed
  <1>4. /\ dir[0] = WholeItem("shell", 3)
        /\ dir[ITEM_UNITS] = WholeItem("mypro", 2)
        /\ \A p \in Positions : p # 0 /\ p # ITEM_UNITS => dir[p] = NoItem
    BY <1>1, <1>3
  <1>5. ASSUME NEW p \in Positions, dir[p].state # "none"
        PROVE  dir[p].name \in Names /\ dir[p].inode # Root
    BY <1>2, <1>3, <1>4, <1>5 DEF Root
  <1>. QED BY <1>2, <1>4, <1>5 DEF Named

(***************************************************************************)
(* writeDirectory keeps that.                                              *)
(***************************************************************************)
LEMMA NamedEntered ==
    ASSUME FSInv, Named(dir), NEW name \in Names, NEW f, f # Root
    PROVE  Named(EnterName(name, f))
  <1>1. CASE EnterName(name, f) = dir
    BY <1>1
  <1>2. ASSUME NEW at, EnterName(name, f) = Entered(name, f, at)
        PROVE  Named(EnterName(name, f))
    <2>. DEFINE new == [name |-> name, inode |-> f,
                        state |-> IF Across(at) = {} THEN "whole" ELSE "over"]
                torn(p) == [dir[p] EXCEPT !.state = "torn"]
                after == EnterName(name, f)
    <2>1. after = [p \in Positions |-> IF p = at THEN new
                                       ELSE IF p \in Across(at) THEN torn(p)
                                       ELSE dir[p]]
      BY <1>2 DEF Entered
    <2>2. dir \in [Positions -> DirItem]
      BY DEF FSInv, TypeOK, DirItem
    <2>3. \A p \in Positions : /\ torn(p).name = dir[p].name
                              /\ torn(p).inode = dir[p].inode
                              /\ torn(p).state = "torn"
      BY <2>2 DEF DirItem
    <2>4. /\ new.name = name /\ new.inode = f
          /\ new.state = IF Across(at) = {} THEN "whole" ELSE "over"
      OBVIOUS
    <2>5. Across(at) \subseteq Positions
          /\ \A p \in Across(at) : dir[p].state # "none"
      BY DEF Across
    <2>6. ASSUME NEW p \in Positions, dir[p].state # "none", p = at
          PROVE  p \in Across(at)
      <3>1. p \in Nat /\ p < p + ITEM_UNITS
        BY Numbers, Sizes
      <3>. QED BY <2>6, <3>1 DEF Across
    <2>. HIDE DEF new, torn, after
    <2>7. ASSUME NEW p \in Positions, after[p].state # "none"
          PROVE  after[p].name \in Names /\ after[p].inode # Root
      <3>1. CASE p = at
        BY <2>1, <2>4, <3>1
      <3>2. CASE p # at /\ p \in Across(at)
        BY <2>1, <2>3, <2>5, <3>2 DEF Named
      <3>3. CASE p # at /\ p \notin Across(at)
        BY <2>1, <2>7, <3>3 DEF Named
      <3>. QED BY <3>1, <3>2, <3>3
    <2>8. ASSUME NEW p \in Positions, dir[p].state # "none"
          PROVE  /\ after[p].state # "none"
                 /\ after[p].state = "whole" => after[p] = dir[p]
      <3>1. CASE p = at
        BY <2>1, <2>4, <2>6, <2>8, <3>1
      <3>2. CASE p # at /\ p \in Across(at)
        BY <2>1, <2>3, <3>2
      <3>3. CASE p # at /\ p \notin Across(at)
        BY <2>1, <2>8, <3>3
      <3>. QED BY <3>1, <3>2, <3>3
    <2>9. 0 \in Positions /\ ITEM_UNITS \in Positions
      BY Numbers
    <2>10. /\ after[0].state # "none"
           /\ after[0].state = "whole" => after[0] = WholeItem("shell", 3)
      <3>1. /\ dir[0].state # "none"
            /\ dir[0].state = "whole" => dir[0] = WholeItem("shell", 3)
        BY DEF Named
      <3>. QED BY <2>8, <2>9, <3>1, Zenon
    <2>11. /\ after[ITEM_UNITS].state # "none"
           /\ after[ITEM_UNITS].state = "whole" =>
                 after[ITEM_UNITS] = WholeItem("mypro", 2)
      <3>1. /\ dir[ITEM_UNITS].state # "none"
            /\ dir[ITEM_UNITS].state = "whole" =>
                  dir[ITEM_UNITS] = WholeItem("mypro", 2)
        BY DEF Named
      <3>. QED BY <2>8, <2>9, <3>1, Zenon
    <2>. QED BY <2>7, <2>10, <2>11 DEF Named, after
  <1>. QED BY <1>1, <1>2 DEF EnterName

LEMMA NamedStays ==
    ASSUME FSInv, Named(dir), [Next]_vars
    PROVE  Named(dir')
  <1>1. ASSUME NEW h, NEW base, NEW name \in Names, NEW mode,
               Creat(h, base, name, mode)
        PROVE  Named(dir')
    <2>1. dir' \in {dir, EnterName(name, freeInode)}
      BY <1>1 DEF Creat
    <2>2. freeInode # Root
      <3>1. freeInode \in 4 .. INODES + 1 /\ INODES \in Nat
        BY Sizes DEF FSInv, TypeOK
      <3>. QED BY <3>1 DEF Root
    <2>. QED BY <2>1, <2>2, NamedEntered
  <1>2. ASSUME NEW h, NEW n
        PROVE  /\ Write(h, n) => dir' = dir
               /\ WriteBack(h, n) \/ WriteNothing(h, n) => dir' = dir
               /\ Read(h, n) => dir' = dir
               /\ ReadDirectory(h) \/ Close(h) => dir' = dir
    <2>1. Write(h, n) => dir' = dir
      BY Zenon DEF Write
    <2>2. WriteBack(h, n) \/ WriteNothing(h, n) => dir' = dir
      BY Zenon DEF WriteBack, WriteNothing
    <2>3. Read(h, n) => dir' = dir
      BY DEF Read, disk
    <2>4. ReadDirectory(h) \/ Close(h) => dir' = dir
      BY DEF ReadDirectory, Close, disk
    <2>. QED BY <2>1, <2>2, <2>3, <2>4
  <1>3. \A h, name : CreatFails \/ Open(h, name) \/ CreatAstray(name)
                     => dir' = dir
    BY DEF CreatFails, Open, CreatAstray, disk
  <1>4. UNCHANGED vars => dir' = dir
    BY DEF vars
  <1>5. dir' = dir => Named(dir')
    OBVIOUS
  <1>. QED BY <1>1, <1>2, <1>3, <1>4, <1>5 DEF Next, Transfer

LEMMA NamedInvariant == Spec => [](FSInv /\ Named(dir))
  <1>1. Init => FSInv /\ Named(dir)
    BY InitInv, NamedInit
  <1>2. FSInv /\ Named(dir) /\ [Next]_vars => (FSInv /\ Named(dir))'
    BY Inductive, NamedStays
  <1>. QED BY <1>1, <1>2, PTL DEF Spec

(***************************************************************************)
(* Places of the items in the block and in FileSystem's directory.         *)
(***************************************************************************)
LEMMA SlotPosition ==
    ASSUME NEW s \in Slots
    PROVE  /\ s \in Nat /\ s * ITEM_UNITS \in Positions
           /\ (s * ITEM_UNITS) \div ITEM_UNITS = s
           /\ (s * ITEM_UNITS) % ITEM_UNITS = 0
  <1>1. /\ ITEM_UNITS \in Nat \ {0} /\ BLOCK_SIZE \in Nat /\ SLOTS \in Nat
        /\ SLOTS * ITEM_UNITS <= BLOCK_SIZE
    BY Sizes, CharactersDiffer
  <1>2. s \in Nat /\ s + 1 <= SLOTS
    BY <1>1 DEF Slots
  <1>3. PICK d \in Nat : SLOTS = s + 1 + d
    <2>1. SLOTS - (s + 1) \in Nat /\ SLOTS = s + 1 + (SLOTS - (s + 1))
      BY <1>1, <1>2
    <2>. QED BY <2>1
  <1>4. /\ SLOTS * ITEM_UNITS = s * ITEM_UNITS + ITEM_UNITS + d * ITEM_UNITS
        /\ s * ITEM_UNITS \in Nat /\ d * ITEM_UNITS \in Nat
    BY <1>1, <1>2, <1>3
  <1>5. s * ITEM_UNITS \in Positions
    BY <1>1, <1>4 DEF Positions
  <1>6. s * ITEM_UNITS = ITEM_UNITS * s
    BY <1>1, <1>2
  <1>7. /\ (ITEM_UNITS * s) \div ITEM_UNITS = s
        /\ (ITEM_UNITS * s) % ITEM_UNITS = 0
    BY <1>1, <1>2, DivExact
  <1>. QED BY <1>2, <1>5, <1>6, <1>7

(***************************************************************************)
(* A tidy directory that the calls made is one of Directories.             *)
(***************************************************************************)
LEMMA EnteredIsDirectory ==
    ASSUME FSInv, Named(dir), Tidy
    PROVE  Entries \in Directories
  <1>. DEFINE shell == [name |-> "shell", inode |-> 3]
              mypro == [name |-> "mypro", inode |-> 2]
              Others == [name : Names, inode : 4 .. INODES]
              some == [s \in Slots |-> IF s \in {0, 1} THEN NoEntry
                                       ELSE Entries[s]]
  <1>1. 0 \in Slots /\ 1 \in Slots /\ Slots \subseteq Nat
    BY CharactersDiffer DEF Slots
  <1>2. /\ Entries = [s \in Slots |-> [name  |-> dir[s * ITEM_UNITS].name,
                                       inode |-> dir[s * ITEM_UNITS].inode]]
        /\ ITEM_UNITS \in Nat /\ ITEM_UNITS # 0
        /\ 0 * ITEM_UNITS = 0 /\ 1 * ITEM_UNITS = ITEM_UNITS
    BY Sizes DEF Entries
  <1>3. /\ 0 \in Positions /\ ITEM_UNITS \in Positions
    BY Numbers
  <1>4. /\ WholeItem("shell", 3).name = "shell"
        /\ WholeItem("shell", 3).inode = 3
        /\ WholeItem("mypro", 2).name = "mypro"
        /\ WholeItem("mypro", 2).inode = 2
    BY DEF WholeItem
  <1>5. Entries[0] = shell
    <2>1. dir[0] = WholeItem("shell", 3)
      BY <1>3 DEF Tidy, Named
    <2>. QED BY <1>1, <1>2, <1>4, <2>1
  <1>6. Entries[1] = mypro
    <2>1. dir[ITEM_UNITS] = WholeItem("mypro", 2)
      BY <1>3 DEF Tidy, Named
    <2>. QED BY <1>1, <1>2, <1>4, <2>1
  <1>7. ASSUME NEW s \in Slots, s # 0, s # 1
        PROVE  Entries[s] \in Others \cup {NoEntry}
    <2>. DEFINE p == s * ITEM_UNITS
    <2>1. p \in Positions /\ p # 0 /\ p # ITEM_UNITS
      <3>1. s \in Nat /\ p \in Positions
        BY SlotPosition
      <3>2. PICK d \in Nat : s = d + 2
        <4>1. s - 2 \in Nat /\ s = (s - 2) + 2
          BY <1>7, <3>1
        <4>. QED BY <4>1
      <3>3. p = d * ITEM_UNITS + 2 * ITEM_UNITS /\ d * ITEM_UNITS \in Nat
        BY <1>2, <3>2
      <3>. QED BY <1>2, <3>1, <3>3
    <2>2. Entries[s] = [name |-> dir[p].name, inode |-> dir[p].inode]
      BY <1>2
    <2>. HIDE DEF p
    <2>3. CASE dir[p].state = "none"
      <3>1. dir[p] = NoItem
        BY <2>1, <2>3 DEF FSInv, OnlyAllocatedNamed
      <3>2. NoItem.name = "" /\ NoItem.inode = NoInode
        BY DEF NoItem
      <3>. QED BY <2>2, <3>1, <3>2 DEF NoEntry
    <2>4. CASE dir[p].state # "none"
      <3>1. dir[p].name \in Names /\ dir[p].inode # Root
        BY <2>1, <2>4 DEF Named
      <3>2. dir[p].inode \in Allocated /\ freeInode \in 4 .. INODES + 1
        BY <2>1, <2>4 DEF FSInv, OnlyAllocatedNamed, TypeOK
      <3>3. dir[p].inode # 2 /\ dir[p].inode # 3
        BY <2>1 DEF FSInv, Kept
      <3>4. dir[p].inode \in 4 .. INODES
        BY <3>1, <3>2, <3>3, Sizes DEF Allocated, Root
      <3>. QED BY <2>2, <3>1, <3>4
    <2>. QED BY <2>3, <2>4
  <1>. HIDE DEF shell, mypro, Others
  <1>8. some \in [Slots -> Others \cup {NoEntry}]
    BY <1>7
  <1>9. Entries = [some EXCEPT ![0] = shell, ![1] = mypro]
    <2>. DEFINE same == [some EXCEPT ![0] = shell, ![1] = mypro]
    <2>1. \A s \in Slots : same[s] = Entries[s]
      BY <1>1, <1>5, <1>6
    <2>2. same = [s \in Slots |-> same[s]]
      OBVIOUS
    <2>3. Entries = [s \in Slots |-> Entries[s]]
      BY <1>2
    <2>. HIDE DEF same
    <2>4. Entries = same
      BY <2>1, <2>2, <2>3
    <2>. QED BY <2>4 DEF same
  <1>. QED BY <1>8, <1>9 DEF Directories, shell, mypro, Others

(***************************************************************************)
(* In every reachable tidy root directory strmatch, which goes from first  *)
(* letter to first letter, finds the first place where a name stands,      *)
(* overlapping candidates and letters in numbers included, and always      *)
(* returns a value.                                                        *)
(***************************************************************************)
THEOREM PathsMatchFirst == Spec => []MatchIsFirst
  <1>1. FSInv /\ Named(dir) => MatchIsFirst
    BY EnteredIsDirectory, MatchesFirst DEF MatchIsFirst
  <1>. QED BY <1>1, NamedInvariant, PTL

-----------------------------------------------------------------------------
(***************************************************************************)
(* The characters of paths.                                                *)
(***************************************************************************)
Chars == Letters \cup {Sep}

(***************************************************************************)
(* A source with a character that stands nowhere in dest from its offset   *)
(* on is not found.                                                        *)
(***************************************************************************)
LEMMA NoPlace ==
    ASSUME NEW source \in Seq(Chars), NEW T, NEW dest \in Seq(T),
           0 < Len(dest), At(dest, Len(dest) - 1) = Nul,
           NEW i \in 0 .. Len(source) - 1,
           \A o \in 0 .. Len(dest) - 1 : At(dest, o + i) # At(source, i)
    PROVE  strmatch(source, dest) = -1
  <1>1. Len(source) \in Nat /\ 0 < Len(source)
    BY LenProperties
  <1>2. At(source, 0) \in Chars
    <2>1. 0 \in 0 .. Len(source) - 1
      BY <1>1
    <2> QED
      BY <2>1, AtIs
  <1>3. At(dest, Len(dest) - 1) # At(source, 0)
    BY <1>2, CharactersDiffer DEF Chars
  <1>4. Places(source, dest) = {}
    BY DEF Places, SameAt
  <1> QED
    BY <1>1, <1>3, <1>4, StrmatchIs

(***************************************************************************)
(* strcut leaves the separator in its result, and what the buffer held     *)
(* follows it; a path without a separator is returned as it is             *)
(* (str.c:95-107).                                                         *)
(***************************************************************************)
LEMMA CutIs ==
    ASSUME NEW path \in Seq(Chars), NEW held \in Seq(Letters), 0 < Len(path)
    PROVE  /\ strcut(path, Sep, held) \in Seq(Chars)
           /\ 0 < Len(strcut(path, Sep, held))
           /\ findfirstsprt(path, Sep) = -1 => strcut(path, Sep, held) = path
           /\ findfirstsprt(path, Sep) # -1 =>
                \E i \in 0 .. Len(strcut(path, Sep, held)) - 1 :
                  At(strcut(path, Sep, held), i) = Sep
  <1>1. Sep # Nul /\ Nul \notin Chars /\ Len(path) \in Nat
    BY CharactersDiffer, LenProperties DEF Chars
  <1>2. CASE findfirstsprt(path, Sep) = -1
    BY <1>2 DEF strcut
  <1>3. CASE findfirstsprt(path, Sep) # -1
    <2> DEFINE f == findfirstsprt(path, Sep)
               head == UpTo(path, f + 1)
    <2>1. f \in 0 .. Len(path) - 1 /\ f = FirstStop(path, Sep)
          /\ At(path, f) = Sep
      BY <1>1, <1>3, FirstSeparator
    <2>2. f + 1 \in 0 .. Len(path) /\ f \in 0 .. f + 1 - 1 /\ f \in Nat
      BY <1>1, <2>1
    <2>3. strcut(path, Sep, held) = head \o held
      BY <1>3, <2>1 DEF strcut
    <2> HIDE DEF f
    <2>4. head \in Seq(Chars) /\ Len(head) = f + 1 /\ At(head, f) = Sep
      BY <2>1, <2>2, UpToIs
    <2> HIDE DEF head
    <2>5. held \in Seq(Chars)
      <3>1. Letters \subseteq Chars
        BY DEF Chars
      <3> QED
        BY <3>1, SeqMonotonic
    <2>6. /\ head \o held \in Seq(Chars)
             /\ Len(head \o held) = Len(head) + Len(held)
          /\ \A k \in 1 .. Len(head) + Len(held) :
               (head \o held)[k] = IF k <= Len(head) THEN head[k]
                                   ELSE held[k - Len(head)]
      BY <2>4, <2>5, ConcatProperties
    <2>7. Len(held) \in Nat
      BY LenProperties
    <2>8. f \in 0 .. Len(head \o held) - 1 /\ At(head \o held, f) = Sep
      <3>1. f + 1 \in 1 .. Len(head) + Len(held) /\ f + 1 <= Len(head)
            /\ f < Len(head \o held) /\ f < Len(head)
        BY <2>2, <2>4, <2>6, <2>7
      <3>2. (head \o held)[f + 1] = head[f + 1]
        BY <2>6, <3>1
      <3> QED
        BY <2>2, <2>4, <3>1, <3>2 DEF At
    <2> QED
      BY <1>3, <2>2, <2>3, <2>4, <2>6, <2>7, <2>8
  <1> QED
    BY <1>2, <1>3

(***************************************************************************)
(* seekNextInode leaves the inode as it was when a separator follows the   *)
(* component, since no separator stands in the block, and when it is not   *)
(* at the root, since files hold no names.                                 *)
(***************************************************************************)
LEMMA SeekStays ==
    ASSUME NEW entries \in Directories, NEW iptr, NEW path \in Seq(Chars),
           NEW held \in Seq(Letters), 0 < Len(path),
           iptr # ROOT \/ findfirstsprt(path, Sep) # -1
    PROVE  seekNextInode(iptr, path, Spelled(entries), held) = iptr
  <1> DEFINE cut == strcut(path, Sep, held)
             block == Block(Spelled(entries))
             dest == IF iptr = ROOT THEN block ELSE <<Nul>>
  <1>1. cut \in Seq(Chars) /\ 0 < Len(cut)
    BY CutIs
  <1>2. /\ block \in Seq(BlockChars) /\ 0 < Len(block)
        /\ At(block, Len(block) - 1) = Nul
    <2> DEFINE items == Spelled(entries)
    <2>1. Fields(items)
      BY SpelledIs
    <2> HIDE DEF items
    <2>2. /\ Block(items) \in Seq(BlockChars)
          /\ Len(Block(items)) = ITEM * SLOTS + 1
          /\ At(Block(items), Len(Block(items)) - 1) = Nul
      BY <2>1, BlockIs
    <2>3. 0 < ITEM * SLOTS + 1
      BY CharactersDiffer
    <2> QED
      BY <2>2, <2>3 DEF items
  <1>3. ASSUME NEW o \in Nat PROVE At(block, o) # Sep
    <2>1. At(block, o) \in BlockChars
      <3>1. Len(block) \in Nat
        BY <1>2, LenProperties
      <3>2. CASE o < Len(block)
        <4>1. o \in 0 .. Len(block) - 1
          BY <3>1, <3>2
        <4> QED
          BY <1>2, <4>1, AtIs
      <3>3. CASE ~(o < Len(block))
        BY <3>3 DEF At, BlockChars
      <3> QED
        BY <3>2, <3>3
    <2> QED
      BY <2>1, CharactersDiffer
  <1> HIDE DEF block, cut
  <1>4. strmatch(cut, dest) = -1
    <2>1. CASE iptr = ROOT
      <3>1. PICK i \in 0 .. Len(cut) - 1 : At(cut, i) = Sep
        BY <2>1, CutIs DEF cut
      <3>2. \A o \in 0 .. Len(block) - 1 : At(block, o + i) # At(cut, i)
        <4>1. \A o \in 0 .. Len(block) - 1 : o + i \in Nat
          OBVIOUS
        <4> QED
          BY <1>3, <3>1, <4>1
      <3>3. strmatch(cut, block) = -1
        BY <1>1, <1>2, <3>2, NoPlace
      <3> QED
        BY <2>1, <3>3
    <2>2. CASE iptr # ROOT
      <3> DEFINE one == <<Nul>>
      <3>1. one \in Seq({Nul}) /\ Len(one) = 1
        OBVIOUS
      <3>2. \A o \in Nat : At(one, o) = Nul
        BY <3>1 DEF At
      <3>3. 0 \in 0 .. Len(cut) - 1 /\ At(cut, 0) \in Chars
        <4>1. 0 \in 0 .. Len(cut) - 1
          BY <1>1, LenProperties
        <4> QED
          BY <1>1, <4>1, AtIs
      <3>4. At(cut, 0) # Nul
        BY <3>3, CharactersDiffer DEF Chars
      <3> HIDE DEF one
      <3>5. 0 < Len(one) /\ At(one, Len(one) - 1) = Nul
        BY <3>1, <3>2
      <3>6. \A o \in 0 .. Len(one) - 1 : At(one, o + 0) # At(cut, 0)
        BY <3>1, <3>2, <3>4
      <3>7. strmatch(cut, one) = -1
        BY <1>1, <3>1, <3>3, <3>5, <3>6, NoPlace
      <3> QED
        BY <2>2, <3>7 DEF one
    <2> QED
      BY <2>1, <2>2
  <1> QED
    BY <1>4 DEF seekNextInode, cut, block

-----------------------------------------------------------------------------
(***************************************************************************)
(* The last component of path begins at p.                                 *)
(***************************************************************************)
TailAt(path, p) ==
    /\ p \in 0 .. Len(path)
    /\ \A k \in p .. Len(path) - 1 : At(path, k) # Sep
    /\ p = 0 \/ At(path, p - 1) = Sep

(***************************************************************************)
(* The two ways to say that a separator stands in a string.                *)
(***************************************************************************)
LEMMA HoldsNone ==
    ASSUME NEW S, NEW s \in Seq(S)
    PROVE  Holds(s, Sep) <=> \E k \in 0 .. Len(s) - 1 : At(s, k) = Sep
  <1>1. Len(s) \in Nat /\ DOMAIN s = 1 .. Len(s)
    BY LenProperties
  <1>2. ASSUME NEW i \in 1 .. Len(s), s[i] = Sep
        PROVE  \E k \in 0 .. Len(s) - 1 : At(s, k) = Sep
    <2>1. i - 1 \in 0 .. Len(s) - 1 /\ i - 1 + 1 = i
      BY <1>1
    <2>2. At(s, i - 1) = s[i]
      BY <2>1, AtIs
    <2> QED
      BY <1>2, <2>1, <2>2
  <1>3. ASSUME NEW k \in 0 .. Len(s) - 1, At(s, k) = Sep
        PROVE  \E i \in 1 .. Len(s) : s[i] = Sep
    <2>1. k + 1 \in 1 .. Len(s) /\ At(s, k) = s[k + 1]
      BY <1>1, AtIs
    <2> QED
      BY <1>3, <2>1
  <1> QED
    BY <1>1, <1>2, <1>3 DEF Holds

(***************************************************************************)
(* The last component exists, and begins behind the last separator or at   *)
(* 0.                                                                      *)
(***************************************************************************)
LEMMA LastNameIs ==
    ASSUME NEW path \in Seq(Chars)
    PROVE  \E p : TailAt(path, p) /\ LastName(path) = From(path, p)
  <1> DEFINE Ends == {p \in 0 .. Len(path) :
                        \A k \in p .. Len(path) - 1 : At(path, k) # Sep}
             Last(n) == /\ ~Holds(n, Sep)
                        /\ path = n \/ path[Len(path) - Len(n)] = Sep
             Parts == {From(path, i) : i \in 0 .. Len(path)}
  <1>1. Len(path) \in Nat
    BY LenProperties
  <1>2. ASSUME NEW i \in 0 .. Len(path)
        PROVE  /\ Holds(From(path, i), Sep)
                    <=> \E k \in i .. Len(path) - 1 : At(path, k) = Sep
               /\ Len(path) - Len(From(path, i)) = i
               /\ path = From(path, i) <=> i = 0
               /\ i # 0 => path[i] = At(path, i - 1)
    <2>1. /\ From(path, i) \in Seq(Chars) /\ Len(From(path, i)) = Len(path) - i
          /\ \A k \in Nat : At(From(path, i), k) = At(path, i + k)
      BY FromIs
    <2> DEFINE r == From(path, i)
    <2>2. Holds(r, Sep) <=> \E k \in 0 .. Len(r) - 1 : At(r, k) = Sep
      BY <2>1, HoldsNone
    <2> HIDE DEF r
    <2>3. ASSUME NEW k \in 0 .. Len(r) - 1, At(r, k) = Sep
          PROVE  \E j \in i .. Len(path) - 1 : At(path, j) = Sep
      <3>1. i + k \in i .. Len(path) - 1 /\ k \in Nat
        BY <1>1, <2>1 DEF r
      <3>2. At(path, i + k) = Sep
        BY <2>1, <2>3, <3>1 DEF r
      <3> QED
        BY <3>1, <3>2
    <2>4. ASSUME NEW j \in i .. Len(path) - 1, At(path, j) = Sep
          PROVE  \E k \in 0 .. Len(r) - 1 : At(r, k) = Sep
      <3>1. j - i \in 0 .. Len(r) - 1 /\ j - i \in Nat /\ i + (j - i) = j
        BY <1>1, <2>1 DEF r
      <3>2. At(r, j - i) = At(path, i + (j - i))
        BY <2>1, <3>1 DEF r
      <3> QED
        BY <2>4, <3>1, <3>2
    <2>5. Len(path) - Len(r) = i
      BY <1>1, <2>1 DEF r
    <2>6. path = r <=> i = 0
      <3>1. ASSUME i = 0 PROVE path = r
        <4>1. \A k \in 0 .. Len(path) - 1 : At(path, k) = At(r, k)
          <5>1. \A k \in 0 .. Len(path) - 1 : k \in Nat /\ i + k = k
            BY <1>1, <3>1
          <5> QED
            BY <2>1, <5>1 DEF r
        <4>2. Len(path) = Len(r)
          BY <1>1, <2>5, <3>1, <2>1 DEF r
        <4> QED
          BY <2>1, <4>1, <4>2, SameString DEF r
      <3>2. path = r => i = 0
        BY <1>1, <2>5
      <3> QED
        BY <3>1, <3>2
    <2>7. i # 0 => path[i] = At(path, i - 1)
      <3>1. i # 0 => i - 1 \in 0 .. Len(path) - 1 /\ i - 1 + 1 = i
        BY <1>1
      <3> QED
        BY <3>1, AtIs
    <2> QED
      BY <2>2, <2>3, <2>4, <2>5, <2>6, <2>7 DEF r
  <1>3. Ends \in SUBSET Nat /\ Len(path) \in Ends
    BY <1>1
  <1>4. PICK p \in Ends : \A y \in Ends : p <= y
    <2> HIDE DEF Ends
    <2> QED
      BY <1>3, LeastOf
  <1>5. p = 0 \/ At(path, p - 1) = Sep
    <2>1. SUFFICES ASSUME p # 0, At(path, p - 1) # Sep PROVE FALSE
      OBVIOUS
    <2>2. p - 1 \in 0 .. Len(path) /\ ~(p <= p - 1)
          /\ \A k \in p - 1 .. Len(path) - 1 :
               k = p - 1 \/ k \in p .. Len(path) - 1
      BY <1>1, <1>4, <2>1
    <2>3. p - 1 \in Ends
      BY <1>4, <2>1, <2>2
    <2> QED
      BY <1>4, <2>2, <2>3
  <1>6. Last(From(path, p)) /\ From(path, p) \in Parts
    BY <1>2, <1>4, <1>5
  <1>7. LastName(path) \in Parts /\ Last(LastName(path))
    <2>1. LastName(path) = CHOOSE n \in Parts : Last(n)
      BY DEF LastName
    <2> HIDE DEF Parts, Last
    <2> QED
      BY <1>6, <2>1
  <1>8. PICK i \in 0 .. Len(path) : LastName(path) = From(path, i)
    BY <1>7
  <1>9. ~Holds(From(path, i), Sep)
        /\ (path = From(path, i) \/ path[Len(path) - Len(From(path, i))] = Sep)
    BY <1>7, <1>8
  <1>10. TailAt(path, i)
    BY <1>2, <1>9 DEF TailAt
  <1> QED
    BY <1>8, <1>10

-----------------------------------------------------------------------------
(***************************************************************************)
(* Where the walk of seekFileInode ends from offset q and inode i: where   *)
(* it is, unless it is at the root and the last component is not empty,    *)
(* which it then looks up.                                                 *)
(***************************************************************************)
Ended(path, p, items, held, q, i) ==
    LET tail == From(path, IF q < p THEN p ELSE q)
    IN  IF i # ROOT \/ tail = <<>> THEN i
        ELSE seekNextInode(ROOT, tail, items, held)

(***************************************************************************)
(* The part of a path from q on: before its last component the next        *)
(* separator is found, from there on none is.                              *)
(***************************************************************************)
LEMMA RestIs ==
    ASSUME NEW path \in Seq(Chars), NEW p, TailAt(path, p),
           NEW q \in 0 .. Len(path)
    PROVE  LET r == From(path, q)
               f == findfirstsprt(r, Sep)
           IN  /\ r \in Seq(Chars) /\ Len(r) = Len(path) - q
               /\ r = <<>> <=> q = Len(path)
               /\ p <= q => f = -1
               /\ q < p => /\ f \in 0 .. Len(path) - 1
                           /\ q + f + 1 \in q + 1 .. p
                           /\ At(path, q + f) = Sep
                           /\ \A k \in q .. q + f - 1 : At(path, k) # Sep
  <1> DEFINE r == From(path, q)
             f == findfirstsprt(r, Sep)
  <1>1. /\ Len(path) \in Nat /\ p \in 0 .. Len(path)
        /\ \A k \in p .. Len(path) - 1 : At(path, k) # Sep
        /\ p = 0 \/ At(path, p - 1) = Sep
    BY LenProperties DEF TailAt
  <1>2. /\ r \in Seq(Chars) /\ Len(r) = Len(path) - q
        /\ \A k \in Nat : At(r, k) = At(path, q + k)
    BY FromIs
  <1> HIDE DEF r
  <1>3. Nul \notin Chars /\ Sep # Nul
    BY CharactersDiffer DEF Chars
  <1>4. \/ f = -1 /\ \A k \in 0 .. Len(r) - 1 : At(r, k) # Sep
        \/ /\ f \in 0 .. Len(r) - 1 /\ At(r, f) = Sep
           /\ \A k \in 0 .. f - 1 : At(r, k) # Sep
    BY <1>2, <1>3, FirstSeparator
  <1> HIDE DEF f
  <1>5. r = <<>> <=> q = Len(path)
    <2>1. r = <<>> <=> Len(r) = 0
      BY <1>2, EmptySeq
    <2> QED
      BY <1>1, <1>2, <2>1
  <1>6. ASSUME p <= q PROVE f = -1
    <2>1. SUFFICES ASSUME f \in 0 .. Len(r) - 1, At(r, f) = Sep PROVE FALSE
      BY <1>4
    <2>2. f \in Nat /\ q + f \in p .. Len(path) - 1
      BY <1>1, <1>2, <1>6, <2>1
    <2>3. At(r, f) = At(path, q + f)
      BY <1>2, <2>2
    <2> QED
      BY <1>1, <2>1, <2>2, <2>3
  <1>7. ASSUME q < p
        PROVE  /\ f \in 0 .. Len(path) - 1 /\ q + f + 1 \in q + 1 .. p
               /\ At(path, q + f) = Sep
               /\ \A k \in q .. q + f - 1 : At(path, k) # Sep
    <2>1. p - 1 - q \in 0 .. Len(r) - 1 /\ p - 1 - q \in Nat
          /\ q + (p - 1 - q) = p - 1
          /\ p # 0
      BY <1>1, <1>2, <1>7
    <2>2. At(r, p - 1 - q) = Sep
      BY <1>1, <1>2, <2>1
    <2>3. /\ f \in 0 .. Len(r) - 1 /\ At(r, f) = Sep
          /\ \A k \in 0 .. f - 1 : At(r, k) # Sep
      BY <1>4, <2>1, <2>2
    <2>4. f \in Nat /\ q + f \in 0 .. Len(path) - 1
      BY <1>2, <2>3
    <2>5. At(path, q + f) = Sep
      BY <1>2, <2>3, <2>4
    <2>6. q + f + 1 \in q + 1 .. p
      <3>1. q + f \notin p .. Len(path) - 1
        BY <1>1, <2>5
      <3> QED
        BY <1>1, <2>4, <3>1
    <2>7. ASSUME NEW k \in q .. q + f - 1 PROVE At(path, k) # Sep
      <3>1. k - q \in 0 .. f - 1 /\ k - q \in Nat /\ q + (k - q) = k
        BY <2>4
      <3>2. At(r, k - q) = At(path, q + (k - q))
        BY <1>2, <3>1
      <3> QED
        BY <2>3, <3>1, <3>2
    <2> QED
      BY <1>2, <2>3, <2>4, <2>5, <2>6, <2>7
  <1> QED
    BY <1>2, <1>5, <1>6, <1>7 DEF r, f

(***************************************************************************)
(* One turn of seekFileInode's loop. Components before the last one leave  *)
(* the walk at the root, so where it ends does not depend on them.         *)
(***************************************************************************)
LEMMA WalkStep ==
    ASSUME NEW entries \in Directories, NEW path \in Seq(Chars),
           NEW held \in Seq(Letters), NEW p, TailAt(path, p),
           NEW q \in 0 .. Len(path), NEW i
    PROVE  LET items == Spelled(entries)
               r == From(path, q)
               f == findfirstsprt(r, Sep)
               end(x) == Ended(path, p, items, held, x, i)
           IN  /\ r = <<>> => end(q) = i
               /\ r # <<>> /\ f = -1 =>
                    end(q) = seekNextInode(i, r, items, held)
               /\ r # <<>> /\ f # -1 =>
                    /\ q + f + 1 \in q + 1 .. Len(path)
                    /\ seekNextInode(i, r, items, held) = i
                    /\ end(q) = end(q + f + 1)
  <1> DEFINE items == Spelled(entries)
             r == From(path, q)
             f == findfirstsprt(r, Sep)
             end(x) == Ended(path, p, items, held, x, i)
             tail(x) == From(path, IF x < p THEN p ELSE x)
  <1>1. /\ r \in Seq(Chars) /\ Len(r) = Len(path) - q
        /\ r = <<>> <=> q = Len(path)
        /\ p <= q => f = -1
        /\ q < p => f \in 0 .. Len(path) - 1 /\ q + f + 1 \in q + 1 .. p
    BY RestIs
  <1>2. Len(path) \in Nat /\ p \in 0 .. Len(path)
    BY LenProperties DEF TailAt
  <1>3. ~(q < p) => tail(q) = r
    OBVIOUS
  <1>4. r # <<>> /\ (i # ROOT \/ f # -1) =>
          seekNextInode(i, r, items, held) = i
    <2>1. r # <<>> => 0 < Len(r)
      BY <1>1, <1>2
    <2> HIDE DEF r
    <2> QED
      BY <1>1, <2>1, SeekStays
  <1>5. \A x : end(x) = IF i # ROOT \/ tail(x) = <<>> THEN i
                        ELSE seekNextInode(ROOT, tail(x), items, held)
    BY DEF Ended
  <1> HIDE DEF r, f, items, end
  <1>6. r = <<>> => end(q) = i
    <2>1. r = <<>> => ~(q < p)
      BY <1>1, <1>2
    <2> QED
      BY <1>3, <1>5, <2>1
  <1>7. r # <<>> /\ f = -1 => end(q) = seekNextInode(i, r, items, held)
    <2>1. f = -1 => ~(q < p)
      BY <1>1, <1>2
    <2> QED
      BY <1>3, <1>4, <1>5, <2>1
  <1>8. ASSUME r # <<>>, f # -1
        PROVE  /\ q + f + 1 \in q + 1 .. Len(path)
               /\ end(q) = end(q + f + 1)
    <2>1. q < p /\ f \in 0 .. Len(path) - 1 /\ q + f + 1 \in q + 1 .. p
      BY <1>1, <1>2, <1>8
    <2>2. tail(q) = From(path, p)
      BY <2>1
    <2>3. tail(q + f + 1) = From(path, p)
      <3>1. (IF q + f + 1 < p THEN p ELSE q + f + 1) = p
        BY <1>2, <2>1
      <3> QED
        BY <3>1
    <2> HIDE DEF tail
    <2> QED
      BY <1>2, <1>5, <2>1, <2>2, <2>3
  <1> QED
    BY <1>4, <1>6, <1>7, <1>8 DEF r, f, items, end

(***************************************************************************)
(* seekFileInode looks up the last component in the root, and nothing      *)
(* else. As with strmatch, the equation of the walk has a solution, and    *)
(* Ended is the only one at the root.                                      *)
(***************************************************************************)
LEMMA SeekFileIs ==
    ASSUME NEW entries \in Directories, NEW path \in Seq(Chars),
           NEW held \in Seq(Letters), NEW p, TailAt(path, p)
    PROVE  seekFileInode(path, Spelled(entries), held) =
             IF From(path, p) = <<>> THEN ROOT
             ELSE seekNextInode(ROOT, From(path, p), Spelled(entries), held)
  <1> DEFINE items == Spelled(entries)
             D == 0 .. Len(path)
             rest == [t \in D |-> From(path, t)]
             E(q, i) == Ended(path, p, items, held, q, i)
             next(w, q, i) ==
               IF rest[q] = <<>> THEN i
               ELSE IF findfirstsprt(rest[q], Sep) = -1
               THEN seekNextInode(i, rest[q], items, held)
               ELSE w[q + findfirstsprt(rest[q], Sep) + 1]
                     [seekNextInode(i, rest[q], items, held)]
             step(w) == [q \in D |-> [i \in InodesFound |-> next(w, q, i)]]
  <1>1. Len(path) \in Nat /\ p \in D
    BY LenProperties DEF TailAt
  <1>2. ASSUME NEW q \in D, NEW i
        PROVE  /\ rest[q] = <<>> => E(q, i) = i
               /\ rest[q] # <<>> /\ findfirstsprt(rest[q], Sep) = -1 =>
                    E(q, i) = seekNextInode(i, rest[q], items, held)
               /\ rest[q] # <<>> /\ findfirstsprt(rest[q], Sep) # -1 =>
                    /\ q + findfirstsprt(rest[q], Sep) + 1
                         \in q + 1 .. Len(path)
                    /\ seekNextInode(i, rest[q], items, held) = i
                    /\ E(q, i) = E(q + findfirstsprt(rest[q], Sep) + 1, i)
    <2> DEFINE r == From(path, q)
               f == findfirstsprt(r, Sep)
    <2>1. rest[q] = r
      OBVIOUS
    <2>2. /\ r = <<>> => E(q, i) = i
          /\ r # <<>> /\ f = -1 => E(q, i) = seekNextInode(i, r, items, held)
          /\ r # <<>> /\ f # -1 =>
               /\ q + f + 1 \in q + 1 .. Len(path)
               /\ seekNextInode(i, r, items, held) = i
               /\ E(q, i) = E(q + f + 1, i)
      BY WalkStep
    <2> HIDE DEF rest, r, E, items
    <2> QED
      BY <2>1, <2>2
  <1>3. ASSUME NEW w, NEW q \in D, NEW i,
               \A z \in q + 1 .. Len(path) : w[z][i] = E(z, i)
        PROVE  next(w, q, i) = E(q, i)
    <2> DEFINE f == findfirstsprt(rest[q], Sep)
               s == seekNextInode(i, rest[q], items, held)
    <2>1. /\ rest[q] = <<>> => E(q, i) = i
          /\ rest[q] # <<>> /\ f = -1 => E(q, i) = s
          /\ rest[q] # <<>> /\ f # -1 =>
               q + f + 1 \in q + 1 .. Len(path) /\ s = i
               /\ E(q, i) = E(q + f + 1, i)
      BY <1>2
    <2>2. next(w, q, i) = IF rest[q] = <<>> THEN i ELSE IF f = -1 THEN s
                          ELSE w[q + f + 1][s]
      OBVIOUS
    <2> HIDE DEF f, s, rest, E, next
    <2> QED
      BY <1>3, <2>1, <2>2
  <1> HIDE DEF E, next
  <1>4. \E w : w = step(w)
    <2> DEFINE w == [q \in D |-> [i \in InodesFound |-> E(q, i)]]
    <2>1. ASSUME NEW q \in D, NEW i \in InodesFound
          PROVE  next(w, q, i) = E(q, i)
      <3>1. \A z \in q + 1 .. Len(path) : z \in D
        BY <1>1
      <3>2. \A z \in q + 1 .. Len(path) : w[z][i] = E(z, i)
        BY <3>1
      <3> HIDE DEF w
      <3> QED
        BY <1>3, <3>2
    <2>2. w = step(w)
      <3> DEFINE v == w
      <3>1. \A q \in D : \A i \in InodesFound : next(v, q, i) = E(q, i)
        BY <2>1
      <3> HIDE DEF v
      <3>2. step(v) = [q \in D |-> [i \in InodesFound |-> E(q, i)]]
        BY <3>1
      <3> QED
        BY <3>2 DEF v
    <2> QED
      BY <2>2
  <1>5. PICK w : /\ w = step(w)
                 /\ seekFileInode(path, items, held) =
                      IF path \in {<<>>, <<Sep>>} THEN ROOT
                      ELSE w[findfirstsprt(path, Sep) + 1][ROOT]
    <2> DEFINE walk == CHOOSE w : w = step(w)
    <2>1. walk = step(walk)
      BY <1>4
    <2>2. seekFileInode(path, items, held) =
            IF path \in {<<>>, <<Sep>>} THEN ROOT
            ELSE walk[findfirstsprt(path, Sep) + 1][ROOT]
      BY DEF seekFileInode, next
    <2> QED
      BY <2>1, <2>2
  <1>6. ASSUME NEW q \in D PROVE w[q][ROOT] = next(w, q, ROOT)
    <2>1. ROOT \in InodesFound
      BY DEF InodesFound
    <2>2. w[q] = [i \in InodesFound |-> next(w, q, i)]
      BY <1>5
    <2> QED
      BY <2>1, <2>2
  <1> DEFINE Bad == {d \in D : w[Len(path) - d][ROOT] # E(Len(path) - d, ROOT)}
  <1>7. Bad = {}
    <2>1. SUFFICES ASSUME Bad # {} PROVE FALSE
      OBVIOUS
    <2>2. Bad \in SUBSET Nat
      OBVIOUS
    <2>3. PICK d \in Bad : \A y \in Bad : d <= y
      <3> HIDE DEF Bad
      <3> QED
        BY <2>1, <2>2, LeastOf
    <2> DEFINE q == Len(path) - d
    <2>4. q \in D /\ w[q][ROOT] # E(q, ROOT)
      BY <1>1, <2>3
    <2>5. \A z \in q + 1 .. Len(path) : w[z][ROOT] = E(z, ROOT)
      <3>1. SUFFICES ASSUME NEW z \in q + 1 .. Len(path)
                     PROVE  w[z][ROOT] = E(z, ROOT)
        OBVIOUS
      <3>2. Len(path) - z \in D /\ ~(d <= Len(path) - z)
            /\ Len(path) - (Len(path) - z) = z
        BY <1>1, <2>3
      <3>3. Len(path) - z \notin Bad
        BY <2>3, <3>2
      <3> QED
        BY <3>2, <3>3
    <2>6. next(w, q, ROOT) = E(q, ROOT)
      <3> HIDE DEF q
      <3> QED
        BY <1>3, <2>4, <2>5
    <2> QED
      BY <1>6, <2>4, <2>6
  <1>8. ASSUME NEW q \in D PROVE w[q][ROOT] = E(q, ROOT)
    <2>1. Len(path) - q \in D /\ Len(path) - (Len(path) - q) = q
      BY <1>1
    <2> QED
      BY <1>7, <2>1
  <1>9. path \in {<<>>, <<Sep>>} => From(path, p) = <<>>
    <2>1. CASE path = <<>>
      <3>1. From(path, p) \in Seq(Chars) /\ Len(From(path, p)) = Len(path) - p
        BY FromIs, <1>1
      <3>2. Len(path) = 0
        BY <2>1, EmptySeq
      <3> QED
        BY <1>1, <3>1, <3>2, EmptySeq
    <2>2. CASE path = <<Sep>>
      <3>1. Len(path) = 1 /\ path[1] = Sep
        BY <2>2
      <3>2. At(path, 0) = Sep
        BY <3>1 DEF At
      <3>3. p = 1
        <4>1. p # 0
          BY <3>1, <3>2 DEF TailAt
        <4> QED
          BY <1>1, <3>1, <4>1
      <3>4. From(path, p) \in Seq(Chars) /\ Len(From(path, p)) = Len(path) - p
        BY FromIs, <1>1
      <3> QED
        BY <3>1, <3>3, <3>4, EmptySeq
    <2> QED
      BY <2>1, <2>2
  <1>10. findfirstsprt(path, Sep) + 1 \in 0 .. p
    <2>1. 0 \in D
      BY <1>1
    <2>2. From(path, 0) = path
      <3>1. /\ From(path, 0) \in Seq(Chars)
               /\ Len(From(path, 0)) = Len(path) - 0
            /\ \A k \in Nat : At(From(path, 0), k) = At(path, 0 + k)
        BY <2>1, FromIs
      <3>2. Len(From(path, 0)) = Len(path)
        BY <1>1, <3>1
      <3>3. \A k \in 0 .. Len(From(path, 0)) - 1 :
              At(From(path, 0), k) = At(path, k)
        <4>1. \A k \in 0 .. Len(From(path, 0)) - 1 : k \in Nat /\ 0 + k = k
          BY <1>1, <3>2
        <4> QED
          BY <3>1, <4>1
      <3> QED
        BY <3>1, <3>2, <3>3, SameString
    <2>3. /\ p <= 0 => findfirstsprt(path, Sep) = -1
          /\ 0 < p => findfirstsprt(path, Sep) \in 0 .. Len(path) - 1
                      /\ 0 + findfirstsprt(path, Sep) + 1 \in 0 + 1 .. p
      BY <2>1, <2>2, RestIs
    <2> QED
      BY <1>1, <2>3
  <1>11. ASSUME NEW q \in 0 .. p
         PROVE  E(q, ROOT) =
                  IF From(path, p) = <<>> THEN ROOT
                  ELSE seekNextInode(ROOT, From(path, p), items, held)
    <2>1. (IF q < p THEN p ELSE q) = p
      BY <1>1
    <2> QED
      BY <2>1 DEF E, Ended
  <1>12. CASE path \in {<<>>, <<Sep>>}
    BY <1>5, <1>9, <1>12
  <1>13. CASE path \notin {<<>>, <<Sep>>}
    <2> DEFINE q == findfirstsprt(path, Sep) + 1
    <2>1. q \in D /\ q \in 0 .. p
      BY <1>1, <1>10
    <2> HIDE DEF q
    <2>2. w[q][ROOT] = IF From(path, p) = <<>> THEN ROOT
                       ELSE seekNextInode(ROOT, From(path, p), items, held)
      BY <1>8, <1>11, <2>1
    <2> QED
      BY <1>5, <1>13, <2>2 DEF q
  <1> QED
    BY <1>12, <1>13

-----------------------------------------------------------------------------
(***************************************************************************)
(* Quotient and rest of an offset with its item and its place in the item. *)
(***************************************************************************)
LEMMA DivRest ==
    ASSUME NEW a \in Nat \ {0}, NEW b \in Nat, NEW r \in 0 .. a - 1
    PROVE  (a * b + r) \div a = b /\ (a * b + r) % a = r
  OBVIOUS

(***************************************************************************)
(* Every offset is that of one place in one item.                          *)
(***************************************************************************)
LEMMA DivSplit ==
    ASSUME NEW a \in Nat \ {0}, NEW p \in Nat
    PROVE  /\ p \div a \in Nat /\ p % a \in 0 .. a - 1
           /\ p = a * (p \div a) + (p % a)
  <1> DEFINE D == {d \in Nat : p < a * (d + 1)}
  <1>1. p \in D
    <2>1. a * (p + 1) = a * p + a /\ p <= a * p
      <3>1. PICK b \in Nat : a = b + 1
        <4>1. a - 1 \in Nat /\ a = a - 1 + 1
          OBVIOUS
        <4> QED
          BY <4>1
      <3>2. a * p = b * p + p /\ b * p \in Nat /\ a * (p + 1) = a * p + a
        BY <3>1
      <3> QED
        BY <3>2
    <2>2. a * p \in Nat
      OBVIOUS
    <2> QED
      BY <2>1, <2>2
  <1>2. PICK d \in D : \A y \in D : d <= y
    <2>1. D \in SUBSET Nat
      OBVIOUS
    <2> HIDE DEF D
    <2> QED
      BY <1>1, <2>1, LeastOf
  <1>3. d \in Nat /\ p < a * d + a /\ a * d \in Nat
    BY <1>2
  <1>4. a * d <= p
    <2>1. CASE d = 0
      BY <2>1
    <2>2. CASE d # 0
      <3>1. d - 1 \in Nat /\ ~(d <= d - 1) /\ a * (d - 1 + 1) = a * d
        BY <1>3, <2>2
      <3>2. d - 1 \notin D
        BY <1>2, <3>1
      <3>3. ~(p < a * (d - 1 + 1))
        BY <3>1, <3>2
      <3> QED
        BY <1>3, <3>1, <3>3
    <2> QED
      BY <2>1, <2>2
  <1>5. p - a * d \in 0 .. a - 1 /\ a * d + (p - a * d) = p
    BY <1>3, <1>4
  <1>6. (a * d + (p - a * d)) \div a = d
        /\ (a * d + (p - a * d)) % a = p - a * d
    BY <1>3, <1>5, DivRest
  <1>7. p \div a = d /\ p % a = p - a * d
    BY <1>5, <1>6
  <1> DEFINE x == p \div a
             y == p % a
             e == a * d
  <1>8. d \in Nat /\ e \in Nat /\ e <= p /\ p < e + a
    BY <1>3, <1>4
  <1>9. x = d /\ y = p - e
    BY <1>7
  <1> HIDE DEF D, x, y
  <1>10. a * x = e
    BY <1>9
  <1> HIDE DEF e
  <1>11. x \in Nat /\ y \in 0 .. a - 1 /\ p = e + y
    BY <1>8, <1>9
  <1>12. x \in Nat /\ y \in 0 .. a - 1 /\ p = a * x + y
    BY <1>10, <1>11
  <1> QED
    BY <1>12 DEF x, y

(***************************************************************************)
(* An item before another ends before that one begins.                     *)
(***************************************************************************)
LEMMA RoomFor ==
    ASSUME NEW a \in Nat, NEW b \in Nat, NEW c \in Nat, b < c
    PROVE  a * b + a <= a * c
  <1>1. PICK d \in Nat : c = b + 1 + d
    <2>1. c - b - 1 \in Nat /\ c = b + 1 + (c - b - 1)
      OBVIOUS
    <2> QED
      BY <2>1
  <1>2. a * c = a * b + a + a * d
    BY <1>1
  <1>3. a * d \in Nat /\ a * b \in Nat
    OBVIOUS
  <1> QED
    BY <1>2, <1>3

LEMMA RoomBefore ==
    ASSUME NEW a \in Nat, NEW b \in Nat, NEW c \in Nat, b <= c
    PROVE  b * a <= c * a
  <1>1. PICK d \in Nat : c = b + d
    <2>1. c - b \in Nat /\ c = b + (c - b)
      OBVIOUS
    <2> QED
      BY <2>1
  <1>2. c * a = b * a + d * a
    BY <1>1
  <1>3. d * a \in Nat /\ b * a \in Nat
    OBVIOUS
  <1> QED
    BY <1>2, <1>3

(***************************************************************************)
(* What stands at each place of an item.                                   *)
(***************************************************************************)
LEMMA ItemPlace ==
    ASSUME NEW items, Fields(items), NEW s \in Slots, NEW o \in 0 .. ITEM - 1
    PROVE  /\ ITEM * s + o \in 0 .. ITEM * SLOTS - 1
           /\ At(Block(items), ITEM * s + o) = Byte(items, s, o)
  <1>1. ITEM \in Nat \ {0} /\ s \in Nat /\ SLOTS \in Nat /\ s < SLOTS
    BY CharactersDiffer DEF Slots
  <1>2. (ITEM * s + o) \div ITEM = s /\ (ITEM * s + o) % ITEM = o
    BY <1>1, DivRest
  <1>3. ITEM * s + ITEM <= ITEM * SLOTS
    BY <1>1, RoomFor
  <1>4. ITEM * s \in Nat /\ ITEM * SLOTS \in Nat
    BY <1>1
  <1>5. ITEM * s + o \in 0 .. ITEM * SLOTS - 1
    BY <1>1, <1>3, <1>4
  <1> DEFINE p == ITEM * s + o
  <1>6. p \in 0 .. ITEM * SLOTS
    BY <1>4, <1>5
  <1>7. At(Block(items), p) = IF p \div ITEM \notin Slots THEN Nul
                              ELSE Byte(items, p \div ITEM, p % ITEM)
    <2> HIDE DEF p
    <2> QED
      BY <1>6, BlockIs
  <1>8. p \div ITEM = s /\ p % ITEM = o
    BY <1>2
  <1> HIDE DEF p
  <1>9. At(Block(items), p) = Byte(items, s, o)
    BY <1>7, <1>8
  <1> QED
    BY <1>5, <1>9 DEF p

(***************************************************************************)
(* Where a string of letters stands in a field: in a name only inside it,  *)
(* because of the NUL behind the name, and in a number only as one letter. *)
(***************************************************************************)
LEMMA InField ==
    ASSUME NEW n \in Seq(Letters), 0 < Len(n), NEW o \in Nat
    PROVE  /\ \A name : NameFits(name) /\ SameAt(n, name, o) =>
                o + Len(n) < NAME_MAX
           /\ \A number : NumberFits(number) /\ SameAt(n, number, o) =>
                o + 1 < NUMBER /\ Len(n) = 1
  <1>1. /\ Len(n) \in Nat /\ 0 \in 0 .. Len(n) - 1 /\ Len(n) - 1 \in Nat
        /\ Len(n) - 1 \in 0 .. Len(n) - 1
        /\ \A i \in 0 .. Len(n) - 1 : At(n, i) \in Letters
        /\ Nul \notin Letters /\ NAME_MAX \in Nat /\ NUMBER \in Nat
    <2>1. /\ Len(n) \in Nat
          /\ \A i \in 0 .. Len(n) - 1 : At(n, i) \in Letters
      BY AtIs
    <2> QED
      BY <2>1, CharactersDiffer
  <1>2. ASSUME NEW name, NameFits(name), SameAt(n, name, o)
        PROVE  o + Len(n) < NAME_MAX
    <2>1. Len(name) \in Nat /\ Len(name) < NAME_MAX
      BY <1>2, LenProperties DEF NameFits
    <2>2. At(name, o + (Len(n) - 1)) \in Letters
      BY <1>1, <1>2 DEF SameAt
    <2>3. o + (Len(n) - 1) < Len(name)
      BY <1>1, <2>2 DEF At
    <2> QED
      BY <1>1, <2>1, <2>3
  <1>3. ASSUME NEW number, NumberFits(number), SameAt(n, number, o)
        PROVE  o + 1 < NUMBER /\ Len(n) = 1
    <2>1. At(number, o) \in Letters
      <3>1. o + 0 = o
        OBVIOUS
      <3> QED
        BY <1>1, <1>3, <3>1 DEF SameAt
    <2>2. o + 1 < NUMBER /\ At(number, o + 1) = Nul
      BY <1>3, <2>1 DEF NumberFits
    <2>3. Len(n) = 1
      <3>1. SUFFICES ASSUME Len(n) # 1 PROVE FALSE
        OBVIOUS
      <3>2. 1 \in 0 .. Len(n) - 1
        <4>1. Len(n) \in Nat /\ Len(n) # 0
          BY <1>1
        <4>2. \A l \in Nat : l # 0 /\ l # 1 => 1 \in 0 .. l - 1
          OBVIOUS
        <4> QED
          BY <3>1, <4>1, <4>2
      <3>3. At(n, 1) = At(number, o + 1) /\ At(n, 1) \in Letters
        BY <1>1, <1>3, <3>2 DEF SameAt
      <3> QED
        BY <1>1, <2>2, <3>3
    <2> QED
      BY <2>2, <2>3
  <1> QED
    BY <1>2, <1>3

(***************************************************************************)
(* Where a component is found in an item: at the start of the name, or     *)
(* further on in it or in the number.                                      *)
(***************************************************************************)
Starts(n, item) == SameAt(n, item.name, 0)

Further(n, item) ==
    \/ \E o \in 1 .. NAME_MAX : SameAt(n, item.name, o)
    \/ \E o \in 0 .. NUMBER : SameAt(n, item.number, o)

(***************************************************************************)
(* Letters in turn never reach over the end of a field: where a component  *)
(* stands in the block it stands in a name or a number of one item.        *)
(***************************************************************************)
LEMMA PlacesAre ==
    ASSUME NEW items, Fields(items), NEW n \in Seq(Letters), 0 < Len(n)
    PROVE  /\ \A p \in Places(n, Block(items)) :
                \E s \in Slots, o \in 0 .. ITEM - 1 :
                  /\ p = ITEM * s + o
                  /\ o = 0 => Starts(n, items[s])
                  /\ o # 0 => Further(n, items[s])
           /\ \A s \in Slots : Starts(n, items[s]) =>
                ITEM * s \in Places(n, Block(items))
           /\ \A s \in Slots : Further(n, items[s]) =>
                \E o \in 0 .. ITEM - 1 :
                  ITEM * s + o \in Places(n, Block(items))
  <1> DEFINE block == Block(items)
             B == ITEM * SLOTS
  <1>1. /\ Len(n) \in Nat /\ 0 \in 0 .. Len(n) - 1
        /\ \A i \in 0 .. Len(n) - 1 : At(n, i) \in Letters
    <2>1. /\ Len(n) \in Nat
          /\ \A i \in 0 .. Len(n) - 1 : At(n, i) \in Letters
      BY AtIs
    <2> QED
      BY <2>1
  <1>2. /\ ITEM \in Nat \ {0} /\ NAME_MAX \in Nat \ {0}
        /\ NUMBER \in Nat \ {0} /\ ITEM = NAME_MAX + NUMBER
        /\ Nul \notin Letters /\ B \in Nat
    BY CharactersDiffer
  <1>3. Len(block) = B + 1
    BY BlockIs
  <1>4. ASSUME NEW s \in Slots, NEW o \in 0 .. ITEM - 1
        PROVE  /\ ITEM * s + o \in 0 .. B - 1
               /\ At(block, ITEM * s + o) = Byte(items, s, o)
    BY ItemPlace
  <1>5. \A s \in Slots : s \in Nat /\ ITEM * s \in Nat
    BY <1>2, CharactersDiffer DEF Slots
  <1>6. \A p \in 0 .. B : p \div ITEM \notin Slots => At(block, p) = Nul
    BY BlockIs
  <1>7. \A s \in Slots : NameFits(items[s].name)
                         /\ NumberFits(items[s].number)
    BY DEF Fields
  <1> HIDE DEF block, B
  <1>8. ASSUME NEW s \in Slots, NEW o \in 0 .. NAME_MAX - 1
        PROVE  SameAt(n, block, ITEM * s + o) <=> SameAt(n, items[s].name, o)
    <2>1. o \in Nat /\ o \in 0 .. ITEM - 1
      BY <1>2
    <2>2. ASSUME o + Len(n) < NAME_MAX, NEW i \in 0 .. Len(n) - 1
          PROVE  At(block, ITEM * s + o + i) = At(items[s].name, o + i)
      <3>1. /\ o + i \in 0 .. ITEM - 1 /\ o + i < NAME_MAX
            /\ ITEM * s + o + i = ITEM * s + (o + i)
        BY <1>1, <1>2, <1>5, <2>2
      <3>2. At(block, ITEM * s + (o + i)) = Byte(items, s, o + i)
        BY <1>4, <3>1
      <3> QED
        BY <3>1, <3>2 DEF Byte
    <2>3. ASSUME SameAt(n, items[s].name, o)
          PROVE  o + Len(n) < NAME_MAX
      BY <1>7, <2>1, <2>3, InField
    <2>4. ASSUME SameAt(n, block, ITEM * s + o)
          PROVE  o + Len(n) < NAME_MAX
      <3>1. SUFFICES ASSUME ~(o + Len(n) < NAME_MAX) PROVE FALSE
        OBVIOUS
      <3> DEFINE end == NAME_MAX - 1
      <3>2. /\ end - o \in 0 .. Len(n) - 1
            /\ ITEM * s + o + (end - o) = ITEM * s + end
            /\ end \in 0 .. ITEM - 1 /\ end < NAME_MAX /\ end \in Nat
        BY <1>1, <1>2, <1>5, <3>1
      <3> HIDE DEF end
      <3>3. At(block, ITEM * s + end) = At(items[s].name, end)
        <4>1. At(block, ITEM * s + end) = Byte(items, s, end)
          BY <1>4, <3>2
        <4> QED
          BY <3>2, <4>1 DEF Byte
      <3>4. At(items[s].name, end) = Nul
        <4>1. Len(items[s].name) \in Nat /\ Len(items[s].name) < NAME_MAX
          BY <1>7, LenProperties DEF NameFits
        <4>2. ~(end < Len(items[s].name))
          BY <1>2, <4>1 DEF end
        <4> QED
          BY <4>2 DEF At
      <3>5. At(n, end - o) = At(block, ITEM * s + o + (end - o))
        BY <2>4, <3>2 DEF SameAt
      <3> QED
        BY <1>1, <1>2, <3>2, <3>3, <3>4, <3>5
    <2>5. SameAt(n, items[s].name, o) => SameAt(n, block, ITEM * s + o)
      BY <2>2, <2>3 DEF SameAt
    <2>6. SameAt(n, block, ITEM * s + o) => SameAt(n, items[s].name, o)
      BY <2>2, <2>4 DEF SameAt
    <2> QED
      BY <2>5, <2>6
  <1>9. ASSUME NEW s \in Slots, NEW o \in 0 .. NUMBER - 1
        PROVE  SameAt(n, block, ITEM * s + (NAME_MAX + o))
                 <=> SameAt(n, items[s].number, o)
    <2> DEFINE number == items[s].number
               place == ITEM * s + (NAME_MAX + o)
    <2>1. ASSUME NEW k \in 0 .. NUMBER - 1
          PROVE  At(block, ITEM * s + (NAME_MAX + k)) = At(number, k)
      <3>1. /\ NAME_MAX + k \in 0 .. ITEM - 1 /\ ~(NAME_MAX + k < NAME_MAX)
            /\ (NAME_MAX + k) - NAME_MAX = k
        BY <1>2
      <3>2. At(block, ITEM * s + (NAME_MAX + k)) = Byte(items, s, NAME_MAX + k)
        BY <1>4, <3>1
      <3> QED
        BY <3>1, <3>2 DEF Byte
    <2>2. o \in Nat /\ o + 0 = o /\ place + 0 = place /\ place \in Nat
          /\ place + 1 = ITEM * s + (NAME_MAX + (o + 1))
      BY <1>2, <1>5
    <2>3. At(block, place) = At(number, o)
      BY <2>1
    <2>4. NumberFits(number)
      BY <1>7
    <2> HIDE DEF number, place
    <2>5. ASSUME Len(n) = 1
          PROVE  SameAt(n, block, place) <=> SameAt(n, number, o)
      <3>1. \A i \in 0 .. Len(n) - 1 : i = 0
        BY <2>5
      <3>2. SameAt(n, block, place) <=> At(n, 0) = At(block, place + 0)
        BY <1>1, <3>1 DEF SameAt
      <3>3. SameAt(n, number, o) <=> At(n, 0) = At(number, o + 0)
        BY <1>1, <3>1 DEF SameAt
      <3> QED
        BY <2>2, <2>3, <3>2, <3>3
    <2>6. SameAt(n, number, o) => Len(n) = 1
      BY <2>2, <2>4, InField
    <2>7. ASSUME SameAt(n, block, place) PROVE Len(n) = 1
      <3>1. At(n, 0) = At(number, o)
        BY <1>1, <2>2, <2>3, <2>7 DEF SameAt
      <3>2. o + 1 < NUMBER /\ At(number, o + 1) = Nul
        BY <1>1, <2>2, <2>4, <3>1 DEF NumberFits
      <3>3. o + 1 \in 0 .. NUMBER - 1
        BY <1>2, <2>2, <3>2
      <3>4. At(block, place + 1) = Nul
        BY <2>1, <2>2, <3>2, <3>3 DEF number
      <3>5. SUFFICES ASSUME Len(n) # 1 PROVE FALSE
        OBVIOUS
      <3>6. 1 \in 0 .. Len(n) - 1
        <4>1. Len(n) \in Nat /\ Len(n) # 0
          BY <1>1
        <4>2. \A l \in Nat : l # 0 /\ l # 1 => 1 \in 0 .. l - 1
          OBVIOUS
        <4> QED
          BY <3>5, <4>1, <4>2
      <3>7. At(n, 1) = At(block, place + 1) /\ At(n, 1) \in Letters
        BY <1>1, <2>7, <3>6 DEF SameAt
      <3> QED
        BY <1>2, <3>4, <3>7
    <2> QED
      BY <2>5, <2>6, <2>7 DEF number, place
  <1>10. ASSUME NEW p \in Places(n, block)
         PROVE  \E s \in Slots, o \in 0 .. ITEM - 1 :
                  /\ p = ITEM * s + o
                  /\ o = 0 => Starts(n, items[s])
                  /\ o # 0 => Further(n, items[s])
    <2>1. p \in 0 .. B /\ SameAt(n, block, p)
      <3>1. p \in 0 .. Len(block) - 1 /\ SameAt(n, block, p)
        BY DEF Places
      <3> QED
        BY <1>2, <1>3, <3>1
    <2> DEFINE s == p \div ITEM
               o == p % ITEM
    <2>2. o \in 0 .. ITEM - 1 /\ p = ITEM * s + o
      <3>1. p \in Nat
        BY <1>2, <2>1
      <3>2. p % ITEM \in 0 .. ITEM - 1 /\ p = ITEM * (p \div ITEM) + (p % ITEM)
        BY <1>2, <3>1, DivSplit, Zenon
      <3> QED
        BY <3>2, Zenon
    <2>3. s \in Slots
      <3>1. p + 0 = p
        BY <1>2, <2>1
      <3>2. At(block, p) \in Letters
        BY <1>1, <2>1, <3>1 DEF SameAt
      <3> QED
        BY <1>2, <1>6, <2>1, <3>2
    <2> HIDE DEF s, o
    <2>4. CASE o < NAME_MAX
      <3>1. o \in 0 .. NAME_MAX - 1 /\ (o # 0 => o \in 1 .. NAME_MAX)
        BY <1>2, <2>2, <2>4
      <3>2. SameAt(n, items[s].name, o)
        BY <1>8, <2>1, <2>2, <2>3, <3>1
      <3> QED
        BY <2>2, <2>3, <3>1, <3>2 DEF Starts, Further
    <2>5. CASE ~(o < NAME_MAX)
      <3>1. /\ o - NAME_MAX \in 0 .. NUMBER - 1
            /\ o - NAME_MAX \in 0 .. NUMBER
            /\ NAME_MAX + (o - NAME_MAX) = o /\ o # 0
        BY <1>2, <2>2, <2>5
      <3>2. SameAt(n, block, ITEM * s + (NAME_MAX + (o - NAME_MAX)))
        BY <2>1, <2>2, <3>1
      <3>3. SameAt(n, items[s].number, o - NAME_MAX)
        BY <1>9, <2>3, <3>1, <3>2
      <3> QED
        BY <2>2, <2>3, <3>1, <3>3 DEF Further
    <2> QED
      BY <2>4, <2>5
  <1>11. ASSUME NEW s \in Slots, NEW o \in 0 .. ITEM - 1,
                SameAt(n, block, ITEM * s + o)
         PROVE  ITEM * s + o \in Places(n, block)
    <2>1. ITEM * s + o \in 0 .. Len(block) - 1
      <3>1. ITEM * s + o \in 0 .. B - 1
        BY <1>4
      <3> QED
        BY <1>2, <1>3, <3>1
    <2> QED
      BY <1>11, <2>1 DEF Places
  <1>12. ASSUME NEW s \in Slots, Starts(n, items[s])
         PROVE  ITEM * s \in Places(n, block)
    <2>1. 0 \in 0 .. NAME_MAX - 1 /\ 0 \in 0 .. ITEM - 1
          /\ ITEM * s + 0 = ITEM * s
      BY <1>2, <1>5
    <2>2. SameAt(n, block, ITEM * s + 0)
      BY <1>8, <1>12, <2>1 DEF Starts
    <2> QED
      BY <1>11, <2>1, <2>2
  <1>13. ASSUME NEW s \in Slots, Further(n, items[s])
         PROVE  \E o \in 0 .. ITEM - 1 : ITEM * s + o \in Places(n, block)
    <2>1. ASSUME NEW o \in 1 .. NAME_MAX, SameAt(n, items[s].name, o)
          PROVE  \E x \in 0 .. ITEM - 1 : ITEM * s + x \in Places(n, block)
      <3>1. o \in Nat /\ o + Len(n) < NAME_MAX
        BY <1>2, <1>7, <2>1, InField
      <3>2. o \in 0 .. NAME_MAX - 1 /\ o \in 0 .. ITEM - 1
        BY <1>1, <1>2, <3>1
      <3>3. SameAt(n, block, ITEM * s + o)
        BY <1>8, <2>1, <3>2
      <3> QED
        BY <1>11, <3>2, <3>3
    <2>2. ASSUME NEW o \in 0 .. NUMBER, SameAt(n, items[s].number, o)
          PROVE  \E x \in 0 .. ITEM - 1 : ITEM * s + x \in Places(n, block)
      <3>1. o \in Nat /\ o + 1 < NUMBER
        BY <1>2, <1>7, <2>2, InField
      <3>2. o \in 0 .. NUMBER - 1 /\ NAME_MAX + o \in 0 .. ITEM - 1
        BY <1>2, <3>1
      <3>3. SameAt(n, block, ITEM * s + (NAME_MAX + o))
        BY <1>9, <2>2, <3>2
      <3> QED
        BY <1>11, <3>2, <3>3
    <2> QED
      BY <1>13, <2>1, <2>2 DEF Further
  <1> QED
    BY <1>10, <1>12, <1>13 DEF block

-----------------------------------------------------------------------------
(***************************************************************************)
(* A component is one of FileSystem's names, or none.                      *)
(***************************************************************************)
LEMMA NameOfIs ==
    ASSUME NEW n
    PROVE  \/ NameOf(n) = "" /\ \A m \in Names : Spelling[m] # n
           \/ NameOf(n) \in Names /\ Spelling[NameOf(n)] = n
  BY DEF NameOf

(***************************************************************************)
(* The positions of FileSystem's directory that belong to slots with an    *)
(* item, and those that do not.                                            *)
(***************************************************************************)
LEMMA ItemsAre ==
    ASSUME NEW entries \in Directories
    PROVE  /\ \A s \in Slots : Items(entries)[s * ITEM_UNITS] =
                IF entries[s] = NoEntry THEN NoItem
                ELSE WholeItem(entries[s].name, entries[s].inode)
           /\ \A p \in Positions : Items(entries)[p].state # "none" =>
                \E s \in Slots : p = s * ITEM_UNITS /\ entries[s] # NoEntry
  <1>1. ASSUME NEW s \in Slots
        PROVE  Items(entries)[s * ITEM_UNITS] =
                 IF entries[s] = NoEntry THEN NoItem
                 ELSE WholeItem(entries[s].name, entries[s].inode)
    <2> DEFINE p == s * ITEM_UNITS
    <2>1. p \in Positions /\ p \div ITEM_UNITS = s /\ p % ITEM_UNITS = 0
      BY SlotPosition
    <2> HIDE DEF p
    <2>2. Items(entries)[p] =
             IF entries[s] = NoEntry THEN NoItem
             ELSE WholeItem(entries[s].name, entries[s].inode)
      BY <2>1 DEF Items
    <2> QED
      BY <2>2 DEF p
  <1>2. ASSUME NEW p \in Positions, Items(entries)[p].state # "none"
        PROVE  \E s \in Slots : p = s * ITEM_UNITS /\ entries[s] # NoEntry
    <2> DEFINE s == p \div ITEM_UNITS
    <2>1. NoItem.state = "none"
      BY DEF NoItem
    <2>2. p % ITEM_UNITS = 0 /\ s \in Slots /\ entries[s] # NoEntry
      BY <1>2, <2>1 DEF Items
    <2>3. ITEM_UNITS \in Nat \ {0} /\ p \in Nat
      BY Sizes, Numbers
    <2>4. s \in Nat /\ p = ITEM_UNITS * s + (p % ITEM_UNITS)
      BY <2>3, DivSplit, Zenon
    <2> HIDE DEF s
    <2>5. p = s * ITEM_UNITS
      BY <2>2, <2>3, <2>4
    <2> QED
      BY <2>2, <2>5
  <1> QED
    BY <1>1, <1>2

(***************************************************************************)
(* FileSystem's Found, through Matches, Inside and InNumber, is the set of *)
(* items in which the component stands as it is spelled, and FoundItem     *)
(* looks at where the first of them has it.                                *)
(***************************************************************************)
LEMMA FoundAre ==
    ASSUME NEW entries \in Directories, NEW n \in Seq(Letters), 0 < Len(n),
           NameOf(n) \in Names
    PROVE  LET item(s) == Spelled(entries)[s]
               starts == {s \in Slots : Starts(n, item(s))}
               further == {s \in Slots : Further(n, item(s))}
           IN  /\ AtStart(Items(entries), NameOf(n))
                     = {s * ITEM_UNITS : s \in starts}
               /\ FurtherOn(Items(entries), NameOf(n))
                     = {s * ITEM_UNITS : s \in further}
  <1> DEFINE m == NameOf(n)
             items == Items(entries)
             item(s) == Spelled(entries)[s]
  <1>1. m \in Names /\ Spelling[m] = n
    <2>1. "" \notin Names
      BY NamesUsed
    <2> QED
      BY <2>1, NameOfIs
  <1>2. \A s \in Slots :
           \/ /\ entries[s] = NoEntry
              /\ item(s) = [name |-> <<>>, number |-> <<>>]
           \/ /\ entries[s] # NoEntry
              /\ entries[s] \in [name : Names, inode : 2 .. INODES]
              /\ item(s).name = Spelling[entries[s].name]
              /\ item(s).number = Number[entries[s].inode]
    BY SpelledIs
  <1>3. /\ \A i, j \in Names :
             /\ <<i, j>> \in Matches <=> SameAt(Spelling[i], Spelling[j], 0)
             /\ <<i, j>> \in Inside <=>
                   \E o \in 1 .. NAME_MAX : SameAt(Spelling[i], Spelling[j], o)
        /\ \A i \in Names, j \in Inodes :
             <<i, j>> \in InNumber <=>
                \E o \in 0 .. NUMBER : SameAt(Spelling[i], Number[j], o)
    BY MatchesAssumption
  <1>4. /\ \A s \in Slots :
             /\ s * ITEM_UNITS \in Positions
             /\ items[s * ITEM_UNITS] =
                  IF entries[s] = NoEntry THEN NoItem
                  ELSE WholeItem(entries[s].name, entries[s].inode)
        /\ \A p \in Positions : items[p].state # "none" =>
             \E s \in Slots : p = s * ITEM_UNITS /\ entries[s] # NoEntry
    BY ItemsAre, SlotPosition
  <1> HIDE DEF m, items, item
  <1>5. ASSUME NEW s \in Slots
        PROVE  /\ s * ITEM_UNITS \in AtStart(items, m) <=> Starts(n, item(s))
               /\ s * ITEM_UNITS \in FurtherOn(items, m) <=>
                    Further(n, item(s))
    <2> DEFINE p == s * ITEM_UNITS
    <2>1. p \in Positions
      BY <1>4
    <2>2. items[p] = IF entries[s] = NoEntry THEN NoItem
                     ELSE WholeItem(entries[s].name, entries[s].inode)
      BY <1>4
    <2> HIDE DEF p
    <2>3. CASE entries[s] = NoEntry
      <3>1. ~InPlace(items, p)
        <4>1. NoItem.state = "none"
          BY DEF NoItem
        <4> QED
          BY <2>2, <2>3, <4>1 DEF InPlace
      <3>2. item(s).name = <<>> /\ item(s).number = <<>>
        BY <1>2, <2>3
      <3>3. \A o \in Nat : ~SameAt(n, <<>>, o)
        <4>1. 0 \in 0 .. Len(n) - 1 /\ At(n, 0) \in Letters
          <5>1. 0 \in 0 .. Len(n) - 1
            BY LenProperties
          <5> QED
            BY <5>1, AtIs
        <4>2. \A o \in Nat : At(<<>>, o + 0) = Nul
          BY EmptyFits
        <4> QED
          BY <4>1, <4>2, CharactersDiffer DEF SameAt
      <3>4. NAME_MAX \in Nat /\ NUMBER \in Nat
        BY CharactersDiffer
      <3>5. ~Starts(n, item(s)) /\ ~Further(n, item(s))
        BY <3>2, <3>3, <3>4 DEF Starts, Further
      <3> QED
        BY <3>1, <3>5 DEF AtStart, FurtherOn, p
    <2>4. CASE entries[s] # NoEntry
      <3> DEFINE name == entries[s].name
                 i == entries[s].inode
      <3>1. name \in Names /\ i \in Inodes
        <4>1. entries[s] \in [name : Names, inode : 2 .. INODES]
          BY <1>2, <2>4
        <4> QED
          BY <4>1, Sizes DEF Inodes
      <3>2. item(s).name = Spelling[name] /\ item(s).number = Number[i]
        BY <1>2, <2>4
      <3>3. items[p].name = name /\ items[p].inode = i /\ InPlace(items, p)
        <4>1. /\ WholeItem(name, i).name = name
              /\ WholeItem(name, i).inode = i
              /\ WholeItem(name, i).state = "whole"
          BY DEF WholeItem
        <4> QED
          BY <2>2, <2>4, <4>1 DEF InPlace
      <3> HIDE DEF name, i
      <3>4. <<m, name>> \in Matches <=> Starts(n, item(s))
        BY <1>1, <1>3, <3>1, <3>2 DEF Starts
      <3>5. <<m, name>> \in Inside \/ <<m, i>> \in InNumber <=>
               Further(n, item(s))
        BY <1>1, <1>3, <3>1, <3>2 DEF Further
      <3> QED
        BY <2>1, <3>3, <3>4, <3>5 DEF AtStart, FurtherOn, p
    <2> QED
      BY <2>3, <2>4
  <1>6. ASSUME NEW p \in AtStart(items, m) \cup FurtherOn(items, m)
        PROVE  \E s \in Slots : p = s * ITEM_UNITS
    <2>1. p \in Positions /\ InPlace(items, p)
      BY DEF AtStart, FurtherOn
    <2> QED
      BY <1>4, <2>1 DEF InPlace
  <1>7. AtStart(items, m) =
          {s * ITEM_UNITS : s \in {t \in Slots : Starts(n, item(t))}}
    BY <1>5, <1>6
  <1>8. FurtherOn(items, m) =
          {s * ITEM_UNITS : s \in {t \in Slots : Further(n, item(t))}}
    BY <1>5, <1>6
  <1> QED
    BY <1>7, <1>8 DEF m, items, item

(***************************************************************************)
(* What is none of FileSystem's names is found nowhere.                    *)
(***************************************************************************)
LEMMA NoneFound ==
    ASSUME NEW items, NEW m, m \notin Names
    PROVE  Found(items, m) = {}
  <1>1. /\ Matches \subseteq Names \X Names /\ Inside \subseteq Names \X Names
        /\ InNumber \subseteq Names \X Inodes
    BY MatchesAssumption
  <1>2. \A x : <<m, x>> \notin Matches /\ <<m, x>> \notin Inside
               /\ <<m, x>> \notin InNumber
    BY <1>1
  <1> QED
    BY <1>2 DEF Found, AtStart, FurtherOn

(***************************************************************************)
(* seekNextInode at the root, for a component with nothing behind it.      *)
(***************************************************************************)
LEMMA RootSeeks ==
    ASSUME NEW items, Fields(items), NEW n \in Seq(Letters), 0 < Len(n),
           NEW held
    PROVE  seekNextInode(ROOT, n, items, held) =
             IF Places(n, Block(items)) = {} THEN ROOT
             ELSE ItemAt(Least(Places(n, Block(items))))
  <1> DEFINE block == Block(items)
             P == Places(n, block)
  <1>1. /\ block \in Seq(BlockChars) /\ Len(block) = ITEM * SLOTS + 1
        /\ At(block, Len(block) - 1) = Nul
    BY BlockIs
  <1>2. At(n, 0) \in Letters
    <2>1. 0 \in 0 .. Len(n) - 1
      BY LenProperties
    <2> QED
      BY <2>1, AtIs
  <1> HIDE DEF block
  <1>3. strmatch(n, block) = IF P = {} THEN -1 ELSE Least(P)
    <2>1. 0 < Len(block)
      BY <1>1, CharactersDiffer
    <2>2. At(block, Len(block) - 1) # At(n, 0)
      BY <1>1, <1>2, CharactersDiffer
    <2> QED
      BY <1>1, <2>1, <2>2, StrmatchIs
  <1>4. findfirstsprt(n, Sep) = -1
    <2>1. Nul \notin Letters /\ Sep \notin Letters /\ Sep # Nul
      BY CharactersDiffer
    <2>2. \/ findfirstsprt(n, Sep) = -1
          \/ /\ findfirstsprt(n, Sep) \in 0 .. Len(n) - 1
             /\ At(n, findfirstsprt(n, Sep)) = Sep
      BY <2>1, FirstSeparator
    <2> QED
      BY <2>1, <2>2, AtIs
  <1>5. seekNextInode(ROOT, n, items, held) =
          IF strmatch(n, block) = -1 THEN ROOT ELSE ItemAt(strmatch(n, block))
    BY <1>4 DEF seekNextInode, strcut, block
  <1>6. P # {} => Least(P) # -1
    <2>1. P \in SUBSET Nat
      BY LenProperties DEF Places
    <2> HIDE DEF P
    <2>2. P # {} => Least(P) \in Nat
      BY <2>1, LeastOf
    <2> QED
      BY <2>2
  <1> HIDE DEF P
  <1> QED
    BY <1>3, <1>5, <1>6 DEF P, block

(***************************************************************************)
(* Looking a component up in the bytes of the block and in FileSystem's    *)
(* directory comes to the same: the first place is in the first item that  *)
(* has one, and at its beginning if the component begins that item.        *)
(***************************************************************************)
LEMMA FoundIsMeant ==
    ASSUME NEW entries \in Directories, NEW n \in Seq(Letters), 0 < Len(n),
           NameOf(n) \in Names, NEW held
    PROVE  seekNextInode(ROOT, n, Spelled(entries), held) = Meant(entries, n)
  <1> DEFINE items == Spelled(entries)
             P == Places(n, Block(items))
             S == {s \in Slots : Starts(n, items[s])}
             T == {s \in Slots : Further(n, items[s])}
             starts == AtStart(Items(entries), NameOf(n))
             found == Found(Items(entries), NameOf(n))
  <1>1. /\ ITEM \in Nat \ {0} /\ ITEM_UNITS \in Nat \ {0}
        /\ \A s \in Slots : s \in Nat /\ ITEM * s \in Nat
                            /\ s * ITEM_UNITS \in Nat
    <2>1. ITEM \in Nat \ {0} /\ ITEM_UNITS \in Nat \ {0}
      BY CharactersDiffer, Sizes
    <2>2. \A s \in Slots : s \in Nat
      BY CharactersDiffer DEF Slots
    <2> QED
      BY <2>1, <2>2
  <1>2. Fields(items)
    BY SpelledIs
  <1>3. seekNextInode(ROOT, n, items, held) =
          IF P = {} THEN ROOT ELSE ItemAt(Least(P))
    BY <1>2, RootSeeks
  <1>4. /\ \A p \in P : \E s \in Slots, o \in 0 .. ITEM - 1 :
             /\ p = ITEM * s + o
             /\ o = 0 => Starts(n, items[s])
             /\ o # 0 => Further(n, items[s])
        /\ \A s \in Slots : Starts(n, items[s]) => ITEM * s \in P
        /\ \A s \in Slots : Further(n, items[s]) =>
             \E o \in 0 .. ITEM - 1 : ITEM * s + o \in P
    BY <1>2, PlacesAre
  <1>5. /\ starts = {s * ITEM_UNITS : s \in S}
        /\ found = {s * ITEM_UNITS : s \in S \cup T}
    <2>1. /\ starts = {s * ITEM_UNITS : s \in S}
          /\ FurtherOn(Items(entries), NameOf(n)) = {s * ITEM_UNITS : s \in T}
      BY FoundAre
    <2> QED
      BY <2>1 DEF Found
  <1>6. Meant(entries, n) =
          IF found # {} /\ Least(found) \in starts
          THEN (Least(found) \div ITEM_UNITS) + 1
          ELSE IF found = {} THEN ROOT ELSE MISALIGNED
    BY DEF Meant, FoundItem
  <1>7. S \subseteq Slots /\ T \subseteq Slots /\ P \in SUBSET Nat
    BY LenProperties DEF Places
  <1>8. \A s \in S : ITEM * s \in P
    BY <1>4
  <1>9. \A s \in T : \E o \in 0 .. ITEM - 1 : ITEM * s + o \in P
    BY <1>4
  <1>10. \A p \in P : \E s \in S \cup T, o \in 0 .. ITEM - 1 :
            p = ITEM * s + o /\ (o = 0 => s \in S)
    <2>1. ASSUME NEW p \in P
          PROVE  \E s \in S \cup T, o \in 0 .. ITEM - 1 :
                    p = ITEM * s + o /\ (o = 0 => s \in S)
      <3>1. PICK s \in Slots, o \in 0 .. ITEM - 1 :
               /\ p = ITEM * s + o
               /\ o = 0 => Starts(n, items[s])
               /\ o # 0 => Further(n, items[s])
        BY <1>4
      <3>2. s \in S \cup T /\ (o = 0 => s \in S)
        BY <3>1
      <3> QED
        BY <3>1, <3>2
    <2> QED
      BY <2>1
  <1> HIDE DEF items, P, S, T, starts, found
  <1>11. CASE S \cup T = {}
    <2>1. P = {} /\ found = {}
      BY <1>5, <1>10, <1>11
    <2> QED
      BY <1>3, <1>6, <2>1 DEF items
  <1>12. CASE S \cup T # {}
    <2> DEFINE t == Least(S \cup T)
    <2>1. t \in S \cup T /\ \A s \in S \cup T : t <= s
      <3>1. S \cup T \in SUBSET Nat
        BY <1>1, <1>7
      <3> QED
        BY <1>12, <3>1, LeastOf
    <2> HIDE DEF t
    <2>2. t \in Slots /\ t \in Nat /\ ITEM * t \in Nat
          /\ t * ITEM_UNITS \in Nat
      BY <1>1, <1>7, <2>1
    <2>3. /\ found # {} /\ Least(found) = t * ITEM_UNITS
      <3>1. t * ITEM_UNITS \in found /\ found \in SUBSET Nat
        BY <1>1, <1>5, <1>7, <2>1
      <3>2. ASSUME NEW x \in found PROVE t * ITEM_UNITS <= x
        <4>1. PICK s \in S \cup T : x = s * ITEM_UNITS
          BY <1>5
        <4>2. t <= s /\ s \in Nat
          BY <1>1, <1>7, <2>1
        <4> QED
          BY <1>1, <2>2, <4>1, <4>2, RoomBefore
      <3>3. Least(found) \in found /\ \A x \in found : Least(found) <= x
        BY <3>1, LeastOf
      <3>4. Least(found) <= t * ITEM_UNITS /\ t * ITEM_UNITS <= Least(found)
            /\ Least(found) \in Nat
        BY <3>1, <3>2, <3>3
      <3> QED
        BY <2>2, <3>1, <3>4
    <2>4. (t * ITEM_UNITS) \div ITEM_UNITS = t
      BY <2>2, SlotPosition
    <2>5. t * ITEM_UNITS \in starts <=> t \in S
      <3>1. ASSUME NEW s \in S, t * ITEM_UNITS = s * ITEM_UNITS PROVE s = t
        <4>1. s \in Slots
          BY <1>7
        <4>2. (s * ITEM_UNITS) \div ITEM_UNITS = s
          BY <4>1, SlotPosition
        <4> QED
          BY <2>4, <3>1, <4>2
      <3> QED
        BY <1>5, <3>1
    <2>6. /\ P # {} /\ Least(P) \in P /\ \A p \in P : Least(P) <= p
      <3>1. P # {}
        BY <1>8, <1>9, <2>1
      <3> QED
        BY <1>7, <3>1, LeastOf
    <2>7. PICK s \in S \cup T, o \in 0 .. ITEM - 1 :
             Least(P) = ITEM * s + o /\ (o = 0 => s \in S)
      BY <1>10, <2>6
    <2>8. s = t
      <3>1. s \in Nat /\ t <= s /\ ITEM * s \in Nat
        BY <1>1, <1>7, <2>1
      <3>2. PICK x \in 0 .. ITEM - 1 : ITEM * t + x \in P
        <4>1. CASE t \in S
          <5>1. 0 \in 0 .. ITEM - 1 /\ ITEM * t + 0 = ITEM * t
            BY <1>1, <2>2
          <5> QED
            BY <1>8, <4>1, <5>1
        <4>2. CASE t \in T
          BY <1>9, <4>2
        <4> QED
          BY <2>1, <4>1, <4>2
      <3>3. ITEM * s + o <= ITEM * t + x
        BY <2>6, <2>7, <3>2
      <3>4. t < s => ITEM * t + ITEM <= ITEM * s
        BY <1>1, <2>2, <3>1, RoomFor
      <3> QED
        BY <1>1, <2>2, <3>1, <3>3, <3>4
    <2>9. CASE t \in S
      <3>1. ITEM * t + o <= ITEM * t
        BY <1>8, <2>6, <2>7, <2>8, <2>9
      <3>2. o = 0
        BY <2>2, <3>1
      <3>3. Least(P) = ITEM * t
        BY <2>2, <2>7, <2>8, <3>2
      <3>4. (ITEM * t) \div ITEM = t /\ (ITEM * t) % ITEM = 0
        BY <1>1, <2>2, DivExact
      <3>5. ItemAt(Least(P)) = t + 1
        BY <3>3, <3>4 DEF ItemAt
      <3> QED
        BY <1>3, <1>6, <2>3, <2>4, <2>5, <2>6, <2>9, <3>5 DEF items
    <2>10. CASE t \notin S
      <3>1. o # 0
        BY <2>7, <2>8, <2>10
      <3>2. (ITEM * t + o) % ITEM = o
        BY <1>1, <2>2, DivRest
      <3>3. ItemAt(Least(P)) = MISALIGNED
        BY <2>7, <2>8, <3>1, <3>2 DEF ItemAt
      <3> QED
        BY <1>3, <1>6, <2>3, <2>5, <2>6, <2>10, <3>3 DEF items
    <2> QED
      BY <2>9, <2>10
  <1> QED
    BY <1>11, <1>12

(***************************************************************************)
(* The same for what is none of FileSystem's names, unless it is left out. *)
(***************************************************************************)
LEMMA ComponentIs ==
    ASSUME NEW entries \in Directories, NEW n \in Seq(Letters),
           NEW held \in Seq(Letters), ~LeftOut(entries, n)
    PROVE  (IF n = <<>> THEN ROOT
            ELSE seekNextInode(ROOT, n, Spelled(entries), held))
             = Meant(entries, n)
  <1>1. n # <<>> => 0 < Len(n)
    BY EmptySeq, LenProperties
  <1>2. CASE n # <<>> /\ NameOf(n) \in Names
    BY <1>1, <1>2, FoundIsMeant
  <1>3. CASE NameOf(n) \notin Names
    <2>1. Meant(entries, n) = ROOT
      BY <1>3, NoneFound DEF Meant, FoundItem
    <2>2. CASE n = <<>>
      BY <2>1, <2>2
    <2>3. CASE n # <<>>
      <3>1. NameOf(n) = ""
        BY <1>3, NameOfIs
      <3>2. Places(n, Block(Spelled(entries))) = {}
        BY <2>3, <3>1 DEF LeftOut
      <3>3. seekNextInode(ROOT, n, Spelled(entries), held) = ROOT
        BY <1>1, <2>3, <3>2, SpelledIs, RootSeeks
      <3> QED
        BY <2>1, <2>3, <3>3
    <2> QED
      BY <2>2, <2>3
  <1>4. CASE n = <<>> /\ NameOf(n) \in Names
    <2>1. Spelling[NameOf(n)] = n /\ 0 < Len(Spelling[NameOf(n)])
      BY <1>4, NamesUsed, NameOfIs, SpellingsFit
    <2>2. Len(n) = 0
      BY <1>4, EmptySeq
    <2> QED
      BY <2>1, <2>2
  <1> QED
    BY <1>2, <1>3, <1>4

-----------------------------------------------------------------------------
(***************************************************************************)
(* The separators among the first q characters of path.                    *)
(***************************************************************************)
Seps(path, q) == {i \in 1 .. q : path[i] = Sep}
Count(path, q) == Cardinality(Seps(path, q))

(***************************************************************************)
(* Counting separators: what strcount returns, and how the count grows.    *)
(***************************************************************************)
LEMMA CountIs ==
    ASSUME NEW path \in Seq(Chars)
    PROVE  /\ Count(path, 0) = 0
           /\ \A q \in 0 .. Len(path) : Count(path, q) \in Nat
           /\ \A q \in 0 .. Len(path) - 1 :
                Count(path, q + 1) =
                  IF At(path, q) = Sep THEN Count(path, q) + 1
                  ELSE Count(path, q)
           /\ \A q \in 0 .. Len(path), r \in 0 .. Len(path) :
                q <= r => Count(path, q) <= Count(path, r)
           /\ \A q \in 0 .. Len(path), r \in 0 .. Len(path) :
                q <= r /\ (\A k \in q .. r - 1 : At(path, k) # Sep) =>
                  Count(path, q) = Count(path, r)
           /\ strcount(path, Sep) = Count(path, Len(path))
           /\ Count(path, Len(path)) \in 0 .. Len(path)
  <1>1. Len(path) \in Nat /\ DOMAIN path = 1 .. Len(path)
    BY LenProperties
  <1>2. \A q \in Nat : IsFiniteSet(1 .. q) /\ Cardinality(1 .. q) = q
    <2>1. SUFFICES ASSUME NEW q \in Nat
                   PROVE  IsFiniteSet(1 .. q) /\ Cardinality(1 .. q) = q
      OBVIOUS
    <2>2. /\ IsFiniteSet(1 .. q)
          /\ Cardinality(1 .. q) = IF 1 > q THEN 0 ELSE q - 1 + 1
      BY FS_Interval
    <2> QED
      BY <2>2
  <1>3. ASSUME NEW q \in Nat
        PROVE  /\ IsFiniteSet(Seps(path, q)) /\ Count(path, q) \in Nat
               /\ Count(path, q) <= q
    <2>1. Seps(path, q) \in SUBSET (1 .. q)
      BY DEF Seps
    <2>2. IsFiniteSet(Seps(path, q))
          /\ Cardinality(Seps(path, q)) <= Cardinality(1 .. q)
      BY <1>2, <2>1, FS_Subset
    <2>3. Cardinality(Seps(path, q)) \in Nat
      BY <2>2, FS_CardinalityType
    <2> QED
      BY <1>2, <2>2, <2>3 DEF Count
  <1>4. Count(path, 0) = 0
    <2>1. Seps(path, 0) = {}
      BY DEF Seps
    <2> QED
      BY <2>1, FS_EmptySet DEF Count
  <1>5. ASSUME NEW q \in 0 .. Len(path) - 1
        PROVE  Count(path, q + 1) =
                 IF At(path, q) = Sep THEN Count(path, q) + 1
                 ELSE Count(path, q)
    <2>1. At(path, q) = path[q + 1]
      BY AtIs
    <2>2. q \in Nat /\ q + 1 \notin 1 .. q
          /\ 1 .. q + 1 = (1 .. q) \cup {q + 1}
      BY <1>1
    <2>3. CASE At(path, q) = Sep
      <3>1. Seps(path, q + 1) = Seps(path, q) \cup {q + 1}
            /\ q + 1 \notin Seps(path, q)
        BY <2>1, <2>2, <2>3 DEF Seps
      <3>2. Cardinality(Seps(path, q) \cup {q + 1})
              = Cardinality(Seps(path, q)) + 1
        BY <1>3, <2>2, <3>1, FS_AddElement
      <3> QED
        BY <2>3, <3>1, <3>2 DEF Count
    <2>4. CASE At(path, q) # Sep
      <3>1. Seps(path, q + 1) = Seps(path, q)
        BY <2>1, <2>2, <2>4 DEF Seps
      <3> QED
        BY <2>4, <3>1 DEF Count
    <2> QED
      BY <2>3, <2>4
  <1>6. ASSUME NEW q \in 0 .. Len(path), NEW r \in 0 .. Len(path), q <= r
        PROVE  /\ Count(path, q) <= Count(path, r)
               /\ (\A k \in q .. r - 1 : At(path, k) # Sep) =>
                    Count(path, q) = Count(path, r)
    <2>1. q \in Nat /\ r \in Nat
      BY <1>1
    <2>2. Seps(path, q) \in SUBSET Seps(path, r)
      BY <1>6, <2>1 DEF Seps
    <2>3. Cardinality(Seps(path, q)) <= Cardinality(Seps(path, r))
      BY <1>3, <2>1, <2>2, FS_Subset
    <2>4. ASSUME \A k \in q .. r - 1 : At(path, k) # Sep
          PROVE  Seps(path, q) = Seps(path, r)
      <3>1. SUFFICES ASSUME NEW i \in Seps(path, r) PROVE i \in Seps(path, q)
        BY <2>2
      <3>2. i \in 1 .. r /\ path[i] = Sep
        BY DEF Seps
      <3>3. i - 1 \in 0 .. Len(path) - 1 /\ i - 1 + 1 = i
        BY <1>1, <3>2
      <3>4. At(path, i - 1) = Sep
        BY <3>2, <3>3, AtIs
      <3>5. i - 1 \notin q .. r - 1
        BY <2>4, <3>4
      <3>6. i \in 1 .. q
        BY <1>1, <3>2, <3>5
      <3> QED
        BY <3>2, <3>6 DEF Seps
    <2> QED
      BY <2>3, <2>4 DEF Count
  <1>7. strcount(path, Sep) = Count(path, Len(path))
    BY <1>1 DEF strcount, Count, Seps
  <1>8. Count(path, Len(path)) \in 0 .. Len(path)
    BY <1>1, <1>3
  <1>9. \A q \in 0 .. Len(path) : Count(path, q) \in Nat
    BY <1>1, <1>3
  <1> QED
    BY <1>4, <1>5, <1>6, <1>7, <1>8, <1>9

(***************************************************************************)
(* Where the loop of writeDirectory is after k turns: behind the k-th      *)
(* separator, or at the last component when there are fewer.               *)
(***************************************************************************)
Past(path, p, k) == Least({q \in 0 .. p : k <= Count(path, q) \/ q = p})

(***************************************************************************)
(* That place is the first of its kind.                                    *)
(***************************************************************************)
LEMMA PastIs ==
    ASSUME NEW path \in Seq(Chars), NEW p, TailAt(path, p), NEW k \in Nat
    PROVE  /\ Past(path, p, k) \in 0 .. p
           /\ k <= Count(path, Past(path, p, k)) \/ Past(path, p, k) = p
           /\ \A q \in 0 .. p :
                k <= Count(path, q) \/ q = p => Past(path, p, k) <= q
  <1> DEFINE S == {q \in 0 .. p : k <= Count(path, q) \/ q = p}
  <1>1. p \in 0 .. p /\ p \in Nat
    <2>1. Len(path) \in Nat /\ p \in 0 .. Len(path)
      BY LenProperties DEF TailAt
    <2> QED
      BY <2>1
  <1>2. S \in SUBSET Nat /\ S # {}
    BY <1>1
  <1>3. Past(path, p, k) \in S /\ \A q \in S : Past(path, p, k) <= q
    <2>1. Past(path, p, k) = Least(S)
      BY DEF Past
    <2> HIDE DEF S
    <2> QED
      BY <1>2, <2>1, LeastOf
  <1> QED
    BY <1>3

(***************************************************************************)
(* One turn of the loop (file.c:606-615): behind the next separator. After *)
(* as many turns as strcount says it is at the last component.             *)
(***************************************************************************)
LEMMA PastStep ==
    ASSUME NEW path \in Seq(Chars), NEW p, TailAt(path, p)
    PROVE  /\ Past(path, p, 0) = 0
           /\ Past(path, p, strcount(path, Sep)) = p
           /\ \A k \in Nat \ {0} :
                Past(path, p, k) = Past(path, p, k - 1)
                  + findfirstsprt(From(path, Past(path, p, k - 1)), Sep) + 1
  <1> DEFINE count(q) == Count(path, q)
             past(k) == Past(path, p, k)
  <1>1. /\ Len(path) \in Nat /\ p \in 0 .. Len(path)
        /\ p = 0 \/ At(path, p - 1) = Sep
        /\ \A k \in p .. Len(path) - 1 : At(path, k) # Sep
    BY LenProperties DEF TailAt
  <1>2. /\ count(0) = 0
        /\ \A q \in 0 .. Len(path) : count(q) \in Nat
        /\ \A q \in 0 .. Len(path) - 1 :
             count(q + 1) = IF At(path, q) = Sep THEN count(q) + 1
                            ELSE count(q)
        /\ \A q \in 0 .. Len(path), r \in 0 .. Len(path) :
             q <= r => count(q) <= count(r)
        /\ \A q \in 0 .. Len(path), r \in 0 .. Len(path) :
             q <= r /\ (\A k \in q .. r - 1 : At(path, k) # Sep) =>
               count(q) = count(r)
        /\ strcount(path, Sep) = count(Len(path))
        /\ count(Len(path)) \in Nat
    BY CountIs
  <1>3. ASSUME NEW k \in Nat
        PROVE  /\ past(k) \in 0 .. p
               /\ k <= count(past(k)) \/ past(k) = p
               /\ \A q \in 0 .. p : k <= count(q) \/ q = p => past(k) <= q
    BY PastIs
  <1> HIDE DEF count, past
  <1>4. past(0) = 0
    <2>1. 0 \in 0 .. p /\ 0 <= count(0)
      BY <1>1, <1>2
    <2> QED
      BY <1>3, <2>1
  <1>5. past(strcount(path, Sep)) = p
    <2> DEFINE c == count(Len(path))
               q == past(c)
    <2>1. q \in 0 .. p /\ (c <= count(q) \/ q = p)
      BY <1>2, <1>3
    <2>2. SUFFICES ASSUME q # p PROVE FALSE
      BY <1>2
    <2>3. c <= count(q) /\ q <= p - 1 /\ p # 0
          /\ p - 1 \in 0 .. Len(path) - 1 /\ p - 1 + 1 = p
      BY <1>1, <2>1, <2>2
    <2>4. count(p) = count(p - 1) + 1
      BY <1>1, <1>2, <2>3
    <2>5. count(q) <= count(p - 1) /\ count(p) <= c
      <3>1. q \in 0 .. Len(path) /\ p - 1 \in 0 .. Len(path)
            /\ Len(path) \in 0 .. Len(path)
            /\ p <= Len(path)
        <4> HIDE DEF q
        <4> QED
          BY <1>1, <2>1, <2>3
      <3> HIDE DEF q
      <3> QED
        BY <1>1, <1>2, <2>3, <3>1
    <2>6. count(q) \in Nat /\ count(p - 1) \in Nat /\ c \in Nat
      <3>1. q \in 0 .. Len(path) /\ p - 1 \in 0 .. Len(path)
        BY <1>1, <2>1, <2>3
      <3> HIDE DEF q
      <3> QED
        BY <1>2, <3>1
    <2> HIDE DEF q, c
    <2> QED
      BY <2>3, <2>4, <2>5, <2>6
  <1>6. ASSUME NEW k \in Nat \ {0}
        PROVE  past(k) = past(k - 1)
                           + findfirstsprt(From(path, past(k - 1)), Sep) + 1
    <2> DEFINE s == past(k - 1)
               f == findfirstsprt(From(path, s), Sep)
    <2>1. k - 1 \in Nat /\ k \in Nat
      OBVIOUS
    <2>2. /\ s \in 0 .. p /\ (k - 1 <= count(s) \/ s = p)
          /\ \A q \in 0 .. p : k - 1 <= count(q) \/ q = p => s <= q
      BY <1>3, <2>1
    <2>3. /\ past(k) \in 0 .. p /\ (k <= count(past(k)) \/ past(k) = p)
          /\ \A q \in 0 .. p : k <= count(q) \/ q = p => past(k) <= q
      BY <1>3, <2>1
    <2> HIDE DEF s
    <2>4. s \in 0 .. Len(path)
      BY <1>1, <2>2
    <2>5. /\ p <= s => f = -1
          /\ s < p => /\ f \in 0 .. Len(path) - 1 /\ s + f + 1 \in s + 1 .. p
                      /\ At(path, s + f) = Sep
                      /\ \A x \in s .. s + f - 1 : At(path, x) # Sep
      BY <2>4, RestIs
    <2> HIDE DEF f
    <2>6. CASE s = p
      <3>1. f = -1
        BY <1>1, <2>5, <2>6
      <3>2. past(k) = p
        <4>1. SUFFICES ASSUME past(k) # p PROVE FALSE
          OBVIOUS
        <4>2. past(k) \in 0 .. p /\ k <= count(past(k))
          BY <2>3, <4>1
        <4>3. count(past(k)) \in Nat
          BY <1>1, <1>2, <4>2
        <4>4. k - 1 <= count(past(k))
          BY <4>2, <4>3
        <4>5. s <= past(k)
          BY <2>2, <4>2, <4>4
        <4> QED
          BY <1>1, <2>6, <4>1, <4>2, <4>5
      <3> QED
        <4>1. past(k) = s + f + 1
          BY <1>1, <2>6, <3>1, <3>2
        <4> QED
          BY <4>1 DEF s, f
    <2>7. CASE s # p
      <3>1. s < p /\ k - 1 <= count(s)
        BY <1>1, <2>2, <2>7
      <3>2. /\ f \in 0 .. Len(path) - 1 /\ s + f + 1 \in s + 1 .. p
            /\ At(path, s + f) = Sep
            /\ \A x \in s .. s + f - 1 : At(path, x) # Sep
        BY <2>5, <3>1
      <3>3. s + f \in 0 .. Len(path) - 1 /\ f \in Nat /\ s \in Nat
            /\ s + f \in 0 .. Len(path)
        BY <1>1, <2>4, <3>2
      <3>4. count(s + f) = count(s) /\ count(s + f + 1) = count(s) + 1
        BY <1>2, <2>4, <3>2, <3>3
      <3>5. count(s) \in Nat /\ count(s) <= k - 1
        <4>1. count(s) \in Nat
          BY <1>2, <2>4
        <4>2. CASE s = 0
          BY <1>2, <2>1, <4>2
        <4>3. CASE s # 0
          <5>1. s - 1 \in 0 .. p /\ ~(s <= s - 1)
                /\ s - 1 \in 0 .. Len(path) - 1
                /\ s - 1 \in 0 .. Len(path) /\ s - 1 + 1 = s
            BY <1>1, <2>2, <4>3
          <5>2. ~(k - 1 <= count(s - 1))
            BY <2>2, <5>1
          <5>3. count(s - 1) \in Nat /\ count(s) <= count(s - 1) + 1
            BY <1>2, <5>1
          <5> QED
            BY <2>1, <4>1, <5>2, <5>3
        <4> QED
          BY <4>1, <4>2, <4>3
      <3>6. past(k) <= s + f + 1
        <4>1. k <= count(s + f + 1) /\ s + f + 1 \in 0 .. p
          BY <2>1, <3>1, <3>2, <3>3, <3>4, <3>5
        <4> QED
          BY <2>3, <4>1
      <3>7. s + f + 1 <= past(k)
        <4>1. SUFFICES ASSUME ~(s + f + 1 <= past(k)) PROVE FALSE
          OBVIOUS
        <4>2. past(k) \in 0 .. Len(path) /\ past(k) <= s + f /\ past(k) # p
              /\ past(k) \in Nat
          BY <1>1, <2>3, <3>2, <3>3, <4>1
        <4>3. k <= count(past(k)) /\ count(past(k)) <= count(s + f)
          BY <1>2, <2>3, <3>3, <4>2
        <4>4. count(past(k)) \in Nat
          BY <1>2, <4>2
        <4> QED
          BY <2>1, <3>4, <3>5, <4>3, <4>4
      <3> QED
        BY <2>3, <3>3, <3>6, <3>7 DEF s, f
    <2> QED
      BY <2>6, <2>7
  <1> QED
    BY <1>4, <1>5, <1>6 DEF past

(***************************************************************************)
(* writeDirectory enters the last component of the path (file.c:604-615).  *)
(***************************************************************************)
LEMMA NameEnteredIs ==
    ASSUME NEW path \in Seq(Chars), NEW p, TailAt(path, p)
    PROVE  NameEntered(path) = From(path, p)
  <1> DEFINE D == 0 .. Len(path)
             past(k) == Past(path, p, k)
             next(w, k) ==
               IF k = 0 THEN 0
               ELSE w[k - 1] + findfirstsprt(From(path, w[k - 1]), Sep) + 1
             step(w) == [k \in D |-> next(w, k)]
  <1>1. Len(path) \in Nat
    BY LenProperties
  <1>2. /\ past(0) = 0 /\ past(strcount(path, Sep)) = p
        /\ \A k \in Nat \ {0} :
             past(k) = past(k - 1)
                         + findfirstsprt(From(path, past(k - 1)), Sep) + 1
    BY PastStep
  <1> HIDE DEF past
  <1>3. ASSUME NEW w, NEW k \in D, k = 0 \/ w[k - 1] = past(k - 1)
        PROVE  next(w, k) = past(k)
    <2>1. CASE k = 0
      BY <1>2, <2>1
    <2>2. CASE k # 0
      <3>1. k \in Nat \ {0}
        BY <1>1, <2>2
      <3> QED
        BY <1>2, <1>3, <2>2, <3>1
    <2> QED
      BY <2>1, <2>2
  <1> HIDE DEF next
  <1>4. \E w : w = step(w)
    <2> DEFINE w == [k \in D |-> past(k)]
    <2>1. ASSUME NEW k \in D PROVE next(w, k) = past(k)
      <3>1. k # 0 => k - 1 \in D
        BY <1>1
      <3>2. k = 0 \/ w[k - 1] = past(k - 1)
        BY <3>1
      <3> HIDE DEF w
      <3> QED
        BY <1>3, <3>2
    <2>2. w = step(w)
      <3> DEFINE v == w
      <3>1. \A k \in D : next(v, k) = past(k)
        BY <2>1
      <3> HIDE DEF v
      <3>2. step(v) = [k \in D |-> past(k)]
        BY <3>1
      <3> QED
        BY <3>2 DEF v
    <2> QED
      BY <2>2
  <1>5. PICK w : /\ w = step(w)
                 /\ NameEntered(path) = From(path, w[strcount(path, Sep)])
    <2> DEFINE v == CHOOSE w : w = step(w)
    <2>1. v = step(v)
      BY <1>4
    <2>2. NameEntered(path) = From(path, v[strcount(path, Sep)])
      BY DEF NameEntered, next
    <2> QED
      BY <2>1, <2>2
  <1>6. ASSUME NEW k \in D PROVE w[k] = next(w, k)
    BY <1>5
  <1> DEFINE Bad == {k \in D : w[k] # past(k)}
  <1>7. Bad = {}
    <2>1. SUFFICES ASSUME Bad # {} PROVE FALSE
      OBVIOUS
    <2>2. Bad \in SUBSET Nat
      OBVIOUS
    <2>3. PICK k \in Bad : \A y \in Bad : k <= y
      <3> HIDE DEF Bad
      <3> QED
        BY <2>1, <2>2, LeastOf
    <2>4. k \in D /\ w[k] # past(k)
      BY <2>3
    <2>5. k = 0 \/ w[k - 1] = past(k - 1)
      <3>1. k # 0 => k - 1 \in D /\ ~(k <= k - 1)
        BY <1>1, <2>4
      <3>2. k # 0 => k - 1 \notin Bad
        BY <2>3, <3>1
      <3> QED
        BY <3>1, <3>2
    <2>6. next(w, k) = past(k)
      BY <1>3, <2>4, <2>5
    <2> QED
      BY <1>6, <2>4, <2>6
  <1>8. strcount(path, Sep) \in D
    BY CountIs
  <1>9. w[strcount(path, Sep)] = p
    BY <1>2, <1>7, <1>8
  <1> QED
    BY <1>5, <1>9

-----------------------------------------------------------------------------
(***************************************************************************)
(* seekBaseDirectory hands over the path before its last separator, or the *)
(* whole path without one (file.c:534-558).                                *)
(***************************************************************************)
LEMMA BaseIs ==
    ASSUME NEW path \in Seq(Chars)
    PROVE  PathOfBase(path) = Before(path) /\ Before(path) \in Seq(Chars)
  <1>1. Len(path) \in Nat /\ Sep # Nul
    BY LenProperties, CharactersDiffer
  <1>2. PICK p : TailAt(path, p) /\ LastName(path) = From(path, p)
    BY LastNameIs
  <1>3. /\ p \in 0 .. Len(path) /\ p \in Nat
        /\ \A k \in p .. Len(path) - 1 : At(path, k) # Sep
        /\ p = 0 \/ At(path, p - 1) = Sep
    BY <1>1, <1>2 DEF TailAt
  <1>4. /\ Len(LastName(path)) = Len(path) - p
        /\ Len(path) - Len(LastName(path)) = p
    <2>1. Len(From(path, p)) = Len(path) - p
      BY <1>3, FromIs
    <2> QED
      BY <1>1, <1>2, <1>3, <2>1
  <1>5. At(path, Len(path)) = Nul
    BY <1>1 DEF At
  <1>6. \A k \in p .. Len(path) : At(path, k) # Sep
    <2>1. \A k \in p .. Len(path) : k \in p .. Len(path) - 1 \/ k = Len(path)
      BY <1>1, <1>3
    <2> QED
      BY <1>1, <1>3, <1>5, <2>1
  <1> DEFINE Stops == {i \in 0 .. Len(path) : i = 0 \/ At(path, i) = Sep}
             end == IF p = 0 THEN 0 ELSE p - 1
  <1>7. Largest(Stops) = end
    <2>1. end \in Stops
      BY <1>1, <1>3
    <2>2. ASSUME NEW y \in Stops PROVE y <= end
      <3>1. y = 0 \/ y \notin p .. Len(path)
        BY <1>6
      <3> QED
        BY <1>1, <1>3, <3>1
    <2>3. end \in Nat /\ Stops \subseteq Nat
      BY <1>3
    <2> HIDE DEF Stops, end
    <2>4. \A x \in Stops : (\A y \in Stops : y <= x) => x = end
      <3>1. SUFFICES ASSUME NEW x \in Stops, \A y \in Stops : y <= x
                     PROVE  x = end
        OBVIOUS
      <3>2. x <= end /\ end <= x /\ x \in Nat
        BY <2>1, <2>2, <2>3, <3>1
      <3> QED
        BY <2>3, <3>2
    <2>5. Largest(Stops) \in Stops /\ \A y \in Stops : y <= Largest(Stops)
      BY <2>1, <2>2 DEF Largest
    <2> QED
      BY <2>4, <2>5
  <1>8. findlastsprt(path, Sep) = IF end = 0 /\ At(path, 0) # Sep THEN -1
                                  ELSE end
    <2> HIDE DEF end
    <2> QED
      BY <1>7 DEF findlastsprt
  <1>9. CASE p = 0
    <2>1. At(path, 0) # Sep
      <3>1. 0 \in p .. Len(path)
        BY <1>1, <1>9
      <3> QED
        BY <1>6, <3>1
    <2>2. findlastsprt(path, Sep) = -1
      BY <1>8, <1>9, <2>1
    <2>3. LastName(path) = path
      <3>1. LastName(path) \in Seq(Chars)
            /\ \A k \in Nat : At(LastName(path), k) = At(path, p + k)
        BY <1>2, <1>3, FromIs
      <3>2. Len(LastName(path)) = Len(path)
        BY <1>1, <1>4, <1>9
      <3>3. \A k \in 0 .. Len(LastName(path)) - 1 :
              At(LastName(path), k) = At(path, k)
        <4>1. \A k \in 0 .. Len(LastName(path)) - 1 : k \in Nat /\ p + k = k
          BY <1>1, <1>9, <3>2
        <4> QED
          BY <3>1, <4>1
      <3> QED
        BY <3>1, <3>2, <3>3, SameString
    <2> QED
      BY <2>2, <2>3 DEF PathOfBase, Before
  <1>10. CASE p # 0
    <2>1. end = p - 1 /\ p - 1 \in 0 .. Len(path) /\ p - 1 # -1
      BY <1>1, <1>3, <1>10
    <2>2. findlastsprt(path, Sep) = p - 1
      <3>1. p - 1 = 0 => At(path, 0) = Sep
        BY <1>3, <1>10
      <3> QED
        BY <1>8, <2>1, <3>1
    <2>3. LastName(path) # path
      BY <1>1, <1>3, <1>4, <1>10
    <2>4. PathOfBase(path) = UpTo(path, p - 1)
          /\ Before(path) = UpTo(path, p - 1)
      BY <1>4, <2>1, <2>2, <2>3 DEF PathOfBase, Before
    <2> QED
      BY <2>1, <2>4, UpToIs
  <1> QED
    BY <1>9, <1>10

-----------------------------------------------------------------------------
(***************************************************************************)
(* seekFileInode ends where FileSystem's Lookup and LeadsAstray say.       *)
(***************************************************************************)
LEMMA WalkEnds ==
    ASSUME NEW entries \in Directories, NEW path \in Seq(Chars),
           NEW held \in Seq(Letters), ~LeftOut(entries, LastName(path))
    PROVE  seekFileInode(path, Spelled(entries), held)
             = Meant(entries, LastName(path))
  <1>1. PICK p : TailAt(path, p) /\ LastName(path) = From(path, p)
    BY LastNameIs
  <1> DEFINE n == LastName(path)
  <1>2. n \in Seq(Letters)
    <2>1. /\ Len(path) \in Nat /\ p \in 0 .. Len(path)
          /\ \A k \in p .. Len(path) - 1 : At(path, k) # Sep
      BY <1>1, LenProperties DEF TailAt
    <2>2. /\ n \in Seq(Chars) /\ Len(n) = Len(path) - p
          /\ \A k \in Nat : At(n, k) = At(path, p + k)
      BY <1>1, <2>1, FromIs
    <2> HIDE DEF n
    <2>3. /\ Len(n) \in Nat
          /\ \A k \in 0 .. Len(n) - 1 :
               At(n, k) = n[k + 1] /\ At(n, k) \in Chars
      BY <2>2, AtIs
    <2>4. ASSUME NEW i \in 1 .. Len(n) PROVE n[i] \in Letters
      <3>1. i - 1 \in 0 .. Len(n) - 1 /\ i - 1 \in Nat /\ i - 1 + 1 = i
            /\ p + (i - 1) \in p .. Len(path) - 1
        BY <2>1, <2>2, <2>3
      <3>2. At(n, i - 1) = n[i] /\ At(n, i - 1) \in Chars
        BY <2>3, <3>1
      <3>3. At(n, i - 1) # Sep
        BY <2>1, <2>2, <3>1
      <3> QED
        BY <3>2, <3>3 DEF Chars
    <2>5. n \in [1 .. Len(n) -> Letters]
      <3>1. n = [i \in 1 .. Len(n) |-> n[i]]
        BY <2>2, LenProperties
      <3> QED
        BY <2>4, <3>1
    <2> QED
      BY <2>3, <2>5, SeqDef
  <1>3. seekFileInode(path, Spelled(entries), held) =
          IF n = <<>> THEN ROOT
          ELSE seekNextInode(ROOT, n, Spelled(entries), held)
    BY <1>1, SeekFileIs
  <1> HIDE DEF n
  <1>4. ~LeftOut(entries, n)
    BY DEF n
  <1>5. (IF n = <<>> THEN ROOT
         ELSE seekNextInode(ROOT, n, Spelled(entries), held))
          = Meant(entries, n)
    BY <1>2, <1>4, ComponentIs
  <1> QED
    BY <1>3, <1>5 DEF n

(***************************************************************************)
(* So for every path, its base, and the name entered, in any root          *)
(* directory.                                                              *)
(***************************************************************************)
LEMMA EveryPathEnds ==
    ASSUME NEW entries \in Directories
    PROVE  entries \in WalkedToEnds
  <1>1. ASSUME NEW path \in AllPaths, NEW held \in Strings(Letters, 1)
        PROVE  /\ SeeksLast(entries, path, held)
               /\ SeeksBase(entries, path, held)
               /\ NameEntered(path) = LastName(path)
    <2>1. path \in Seq(Chars) /\ held \in Seq(Letters)
      BY StringIs, CharactersDiffer DEF AllPaths, Chars
    <2>2. SeeksLast(entries, path, held)
      BY <2>1, WalkEnds DEF SeeksLast
    <2>3. SeeksBase(entries, path, held)
      <3>1. PathOfBase(path) = Before(path) /\ Before(path) \in Seq(Chars)
        BY <2>1, BaseIs
      <3>2. ~LeftOut(entries, LastName(Before(path))) =>
              seekFileInode(Before(path), Spelled(entries), held)
                = Meant(entries, LastName(Before(path)))
        BY <2>1, <3>1, WalkEnds
      <3> QED
        BY <3>1, <3>2 DEF SeeksBase, seekBaseDirectory
    <2>4. NameEntered(path) = LastName(path)
      BY <2>1, LastNameIs, NameEnteredIs
    <2> QED
      BY <2>2, <2>3, <2>4
  <1> QED
    BY <1>1 DEF WalkedToEnds

(***************************************************************************)
(* In every reachable tidy root directory every path means what FileSystem *)
(* takes it for: seekFileInode ends at the item for the last component, or *)
(* at the place in an item where it is found first, or else at the root,   *)
(* seekBaseDirectory at that for the one before, and writeDirectory enters *)
(* the last one.                                                           *)
(***************************************************************************)
THEOREM PathsLeadToEnds == Spec => []PathsMeanTheirEnds
  <1>1. FSInv /\ Named(dir) => PathsMeanTheirEnds
    BY EnteredIsDirectory, EveryPathEnds DEF PathsMeanTheirEnds
  <1> QED
    BY <1>1, NamedInvariant, PTL
=============================================================================
