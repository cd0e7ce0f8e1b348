---------------------------- MODULE MCTerminal ----------------------------
(***************************************************************************)
(* Terminal with a screen of three rows of two cells and two cells below   *)
(* it.  One message stands for the process:XXXXXXXX of the timer handler,  *)
(* which has no line feed and is no longer than a row, the others for the  *)
(* lines of do_page_fault.  States that differ only in what was typed into *)
(* the buffer, which nothing reads, or in what was scrolled are one.       *)
(***************************************************************************)
EXTENDS Terminal

MCMessages ==
    {<<"p", "p">>, <<"p", "LF">>, <<"LF", "p", "p", "LF", "LF", "p">>}

NoBuffer ==
    <<video.cursor, video.cells, keyBuffer[BUFFERSIZE], offset, status_shift>>
=============================================================================
