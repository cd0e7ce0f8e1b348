--------------------------- MODULE MCFileSystem ---------------------------
(***************************************************************************)
(* FileSystem on a disk with two free inodes and two free blocks, which    *)
(* two files and a block of a directory use up, and Paths with all paths   *)
(* of up to four characters.  "shell" is a prefix of "mypro" here and is   *)
(* found in it again, "mypro" is spelled so that it has an overlapping     *)
(* beginning, and "f" is the letter in the number of inode 5.  States that *)
(* differ only in the history are one, and so are those after the model's  *)
(* end.                                                                    *)
(***************************************************************************)
EXTENDS Paths, TLC

MCNames == {"shell", "mypro", "f"}
Of(pairs) == pairs \cap (Names \X Names)
MCMatches == Of({<<n, n>> : n \in MCNames} \cup {<<"shell", "mypro">>})
MCInside == Of({<<"shell", "mypro">>})
MCInNumber == {<<"f", 5>>} \cap (Names \X Inodes)

MCSpelling ==
    "shell" :> <<"m">> @@ "mypro" :> <<"m", "m", "p">> @@
    "f" :> <<"t">>
MCNumber == [i \in Inodes |-> IF i = 5 THEN <<"t", Nul>> ELSE <<Nul, Nul>>]

NoHistory == IF intact THEN <<disk, file>> ELSE <<>>
=============================================================================
