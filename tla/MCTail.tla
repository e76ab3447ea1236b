------------------------------- MODULE MCTail -------------------------------
(***************************************************************************)
(* Small logs for Tail: lines of one or two bytes, ended by LF, CR or CRLF.*)
(***************************************************************************)
EXTENDS Tail

AllConfigs == [history : BOOLEAN, follow : BOOLEAN]

MixedNewlines   == <<1, 1, LF, 2, CR, LF, 3, 3, CR, 4, LF>>
Terminated      == <<1, LF, 2, 2, CR, LF, 3, LF>>
Unterminated    == <<1, LF, 2>>
=============================================================================
