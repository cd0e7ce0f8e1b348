-------------------------- MODULE MCAddressSpaces --------------------------
(***************************************************************************)
(* AddressSpaces with pages of two words: a process has two regions of two *)
(* pages.  The free pages suffice for two forks; the directory that an     *)
(* exit then gives back, together with the rest, suffices for a third.     *)
(* Process 0 sees the first two pages of the free list, which become the   *)
(* directory and a table of its child, or a page of the kernel and the     *)
(* third, which becomes the copy of the first.                             *)
(***************************************************************************)
EXTENDS AddressSpaces

(* A word that, taken for an entry, leads to the first child's directory. *)
MCAnyWords == {Entry(4)}

MCWindows == {[j \in Words |-> 4 + j], [j \in Words |-> 6 * j]}

(***************************************************************************)
(* One segment of two pages, in the first region or in the stack's, and    *)
(* two segments, of which the second gets a table of the caller for its    *)
(* first page.                                                             *)
(***************************************************************************)
At(i, j, n) == [region |-> i, page |-> j, size |-> n]
MCPrograms == {<<At(0, 0, 2)>>, <<At(1, 0, 2)>>,
               <<At(0, 1, 1), At(0, 0, 2)>>}
=============================================================================
