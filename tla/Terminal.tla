----------------------------- MODULE Terminal -----------------------------
(***************************************************************************)
(* The console (print.c) and the keyboard that echoes to it (keyboard.c).  *)
(*                                                                         *)
(* Only the cells 0 .. SCREEN - 1 of the video memory are on the screen,   *)
(* the cursor can be on any.  Handlers and system calls run to their end   *)
(* before the next one, so that a string is printed in one step.           *)
(*                                                                         *)
(* The model ends when the cursor leaves the video memory.  readStdin and  *)
(* the branch of sys_write that prints are not part of it: no process has  *)
(* a standard descriptor open, so nothing reaches them, and the buffer is  *)
(* only filled.                                                            *)
(***************************************************************************)
EXTENDS Naturals, Sequences

CONSTANTS COLS,         \* cells of a row of the screen
          ROWS,         \* rows of the screen
          VIDEO,        \* cells of the video memory
          BUFFERSIZE,   \* characters of the keyboard buffer
          Messages,     \* what the handlers print
          RamOffsets    \* what offset may hold in uncleared RAM

ASSUME TerminalAssumption ==
    /\ COLS \in Nat \ {0} /\ ROWS \in Nat /\ 2 <= ROWS
    /\ VIDEO \in Nat /\ ROWS * COLS < VIDEO
    /\ BUFFERSIZE \in Nat \ {0}
    /\ Messages \subseteq Seq({"p", "LF"})
    /\ RamOffsets \subseteq Nat

SCREEN == ROWS * COLS

(***************************************************************************)
(* update_cursor takes cell 2000, the first below the screen, for the last *)
(* on it.                                                                  *)
(***************************************************************************)
LAST_CURSOR == SCREEN

(***************************************************************************)
(* The keys told apart: a letter, enter, backspace, the shift keys (make   *)
(* and break code), one without a character, and those whose scancode is   *)
(* behind the end of the keymaps.                                          *)
(***************************************************************************)
Codes == {"a", "enter", "bs", "ctrl", "shift", "unshift", "f1"}
keymap  == [a |-> "a", enter |-> "LF", bs |-> "BS", ctrl |-> "NUL"]
keymaps == [keymap EXCEPT !.a = "A"]

Blank == "NUL"
Ascii == {"a", "A", "p", "LF", "BS", Blank}

VARIABLES
    video,         \* the character in each cell, the cursor and, as
                   \* history, how many rows the last handler scrolled
    keyBuffer,     \* the buffer, and at BUFFERSIZE what lies behind it
    offset,        \* where the next character typed is put
    status_shift

vars == <<video, keyBuffer, offset, status_shift>>

(***************************************************************************)
(* The start of main, which then prints some messages.  keyboard.c has its *)
(* variables in the BSS, which the loader does not clear.  Of the values   *)
(* of offset the model has those that are no negative number: with one of  *)
(* these the first key typed is written in front of the buffer.            *)
(***************************************************************************)
Cleared ==
    [cursor |-> 0, cells |-> [c \in 0 .. VIDEO - 1 |-> Blank], scrolled |-> 0]
Behind == "other"

Init ==
    /\ video = Cleared
    /\ \E ram \in Ascii :
          keyBuffer = [k \in 0 .. BUFFERSIZE |->
                          IF k = BUFFERSIZE THEN Behind ELSE ram]
    /\ offset \in RamOffsets
    /\ status_shift \in BOOLEAN

-----------------------------------------------------------------------------
(***************************************************************************)
(* scroll_screen moves all rows but the first up by one.  The last keeps   *)
(* its characters, and no cell below it moves.                             *)
(***************************************************************************)
ScrolledDown(cells) ==                  \* mutant: rows moved downwards
    [c \in DOMAIN cells |->
        IF c \in COLS .. SCREEN - 1 THEN cells[c - COLS] ELSE cells[c]]
Scrolled(cells) ==
    [c \in DOMAIN cells |->
        IF c < SCREEN - COLS THEN cells[c + COLS] ELSE cells[c]]

ScrollScreen(v) ==
    [v EXCEPT !.cells = Scrolled(v.cells), !.scrolled = v.scrolled + 1]

LineFeed(v) ==
    [(IF v.cursor \div COLS = ROWS - 1 THEN ScrollScreen(v) ELSE v)
        EXCEPT !.cursor = (v.cursor \div COLS + 1) * COLS]

BackspaceHere(v) ==                     \* mutant: the wrong cell erased
    IF v.cursor = 0 THEN v
    ELSE [v EXCEPT !.cursor = v.cursor - 1, !.cells[v.cursor] = Blank]
Backspace(v) ==
    IF v.cursor = 0 THEN v
    ELSE [v EXCEPT !.cursor = v.cursor - 1, !.cells[v.cursor - 1] = Blank]

PutChar0(v, a) ==
    LET put == [v EXCEPT !.cells[v.cursor] = a]
    IN  IF v.cursor = LAST_CURSOR
        THEN [ScrollScreen(put) EXCEPT !.cursor = LAST_CURSOR - COLS]
        ELSE [put EXCEPT !.cursor = v.cursor + 1]

PutChar(v, a) ==
    CASE a = "BS" -> Backspace(v)
      [] a = "LF" -> LineFeed(v)
      [] OTHER    -> PutChar0(v, a)

InVideo(v) == v.cursor < VIDEO

(* print: the screen after the first k characters, and after all of them.  *)
Prints(v, s) ==
    LET after[k \in 0 .. Len(s)] ==
            IF k = 0 THEN v
            ELSE IF InVideo(after[k - 1]) THEN PutChar(after[k - 1], s[k])
            ELSE after[k - 1]
    IN  after

Printed(v, s) == Prints(v, s)[Len(s)]

(* The screen at the beginning of a handler.                               *)
AtEntry == [video EXCEPT !.scrolled = 0]

(***************************************************************************)
(* What a handler prints before the next one runs: the process:XXXXXXXX of *)
(* the timer, or the lines of a page fault, which returns, and of another  *)
(* exception, after which nothing runs.                                    *)
(***************************************************************************)
PrintMessage ==
    /\ InVideo(video)
    /\ \E s \in Messages : video' = Printed(AtEntry, s)
    /\ UNCHANGED <<keyBuffer, offset, status_shift>>

(* clear_screen blanks the screen, not the cells below it.                 *)
ClearCells(cells) ==
    [c \in DOMAIN cells |-> IF c < SCREEN THEN Blank ELSE cells[c]]

ClearScreen ==
    /\ InVideo(video)
    /\ video' = [AtEntry EXCEPT !.cursor = 0, !.cells = ClearCells(@)]
    /\ UNCHANGED <<keyBuffer, offset, status_shift>>

-----------------------------------------------------------------------------
(***************************************************************************)
(* getAscii.  Releasing shift compares where it means to assign, so that   *)
(* status_shift stays.                                                     *)
(***************************************************************************)
Shifted(code) == status_shift \/ code = "shift"

(* Behind the keymaps lies whatever the linker has put there.              *)
Characters(code) ==
    IF code \in {"shift", "unshift"} THEN {Blank}
    ELSE IF code = "f1" THEN Ascii
    ELSE {IF status_shift THEN keymaps[code] ELSE keymap[code]}

(***************************************************************************)
(* handleCode: the buffer forgets its last character, but keeps backspaces *)
(* that find it empty and drops what finds it full.                        *)
(***************************************************************************)
StoreUnbounded(a) ==                    \* mutant: end of the buffer one late
    IF a = "BS" /\ offset # 0
    THEN offset' = offset - 1 /\ UNCHANGED keyBuffer
    ELSE IF offset > BUFFERSIZE THEN UNCHANGED <<keyBuffer, offset>>
    ELSE /\ keyBuffer' = [keyBuffer EXCEPT ![offset] = a]
         /\ offset' = offset + 1

StoreKey(a) ==
    IF a = "BS" /\ offset # 0
    THEN offset' = offset - 1 /\ UNCHANGED keyBuffer
    ELSE IF offset >= BUFFERSIZE THEN UNCHANGED <<keyBuffer, offset>>
    ELSE /\ keyBuffer' = [keyBuffer EXCEPT ![offset] = a]
         /\ offset' = offset + 1

Key(code) ==
    /\ InVideo(video)
    /\ status_shift' = Shifted(code)
    /\ \E a \in Characters(code) :
          IF a = "NUL"
          THEN video' = AtEntry /\ UNCHANGED <<keyBuffer, offset>>
          ELSE video' = PutChar(AtEntry, a) /\ StoreKey(a)

Next ==
    \/ \E code \in Codes : Key(code)
    \/ PrintMessage
    \/ ClearScreen

Spec == Init /\ [][Next]_vars

-----------------------------------------------------------------------------
(***************************************************************************)
(* Cells, cursor and buffer keep their types; what lies behind the buffer  *)
(* is never written to, whatever offset held at first.                     *)
(***************************************************************************)
TypeOK ==
    /\ video \in [cursor   : 0 .. VIDEO + COLS,
                  cells    : [0 .. VIDEO - 1 -> Ascii \ {"LF", "BS"}],
                  scrolled : Nat]
    /\ \E o \in RamOffsets \cup {BUFFERSIZE} : offset \in 0 .. o
    /\ keyBuffer \in [0 .. BUFFERSIZE -> Ascii \cup {Behind}]
    /\ keyBuffer[BUFFERSIZE] = Behind
    /\ status_shift \in BOOLEAN

(***************************************************************************)
(* Above the last row, which scroll_screen does not clear, all is blank    *)
(* from the cursor on, after any number of line feeds and backspaces.      *)
(***************************************************************************)
AheadIsBlank ==
    \A c \in video.cursor .. SCREEN - COLS - 1 : video.cells[c] = Blank

(***************************************************************************)
(* What is on the screen before the cursor is never overwritten, however   *)
(* many lines a handler prints: it moves up by as many rows as were        *)
(* scrolled, unless that takes it off the screen or a backspace or         *)
(* clear_screen erases it (print.c:33-111).                                *)
(***************************************************************************)
Before(v) == {c \in 0 .. SCREEN - 1 : c < v.cursor}

TextOnlyMovesUp ==
    [][LET k == video'.scrolled
       IN  \A c \in Before(video) :
              \/ c < k * COLS
              \/ k = 0 /\ c >= video'.cursor
              \/ video'.cells[c - k * COLS] = video.cells[c]]_vars
=============================================================================
