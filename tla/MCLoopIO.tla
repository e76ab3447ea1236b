------------------------------ MODULE MCLoopIO ------------------------------
(***************************************************************************)
(* Small logs for LoopIO: lines of one or two bytes, ended by LF, CR, CRLF.*)
(***************************************************************************)
EXTENDS LoopIO

AllConfigs == [history : BOOLEAN, follow : BOOLEAN]

MixedNewlines == <<1, 1, LF, 2, CR, LF, 3, 3, CR, 4, LF>>
Terminated    == <<1, LF, 2, 2, CR, LF, 3, LF>>
=============================================================================
