------------------------------ MODULE LineScan ------------------------------
(***************************************************************************)
(* The body of the for loop that looks for the lines in a buffer.  It is   *)
(* the same in tail() of src/dps/tail.c and in IO::parseBuf of             *)
(* src/dps++/tail.cpp; the heads of the two loops differ, and are in Tail  *)
(* and in LoopIO.                                                          *)
(*                                                                         *)
(* The state of the loop is how many bytes it is done with (`last'), what  *)
(* the callback answered last, and, as history, the lines it was given and *)
(* how many they were when it first answered FALSE (0: it did not).        *)
(***************************************************************************)
EXTENDS LogFile

CONSTANTS
  BufSize,      \* sizeof(line), 64 KiB in the code
  Configs,      \* the command lines: records of --history and --follow
  StopLines     \* lines for which the callback returns FALSE

ASSUME ScanAssumption ==
  /\ BufSize \in Nat \ {0}
  /\ Configs \subseteq [history : BOOLEAN, follow : BOOLEAN]

Callback(line) == Head(line) \notin StopLines

ScanStart == [last |-> 0, keepgoing |-> TRUE, lines |-> << >>, refused |-> 0]

(* A byte that ends a line; an empty line is skipped (last < here). *)
Given(s, line) ==
  [s EXCEPT !.keepgoing = Callback(line),
            !.lines     = Append(@, line),
            !.refused   = IF @ = 0 /\ ~Callback(line) THEN Len(s.lines) + 1 ELSE @]
ScanByte(buf, s, here) ==
  LET given == IF s.last + 1 < here THEN Given(s, SubSeq(buf, s.last + 1, here - 1))
               ELSE s
  IN  IF IsEndOfLine(buf[here]) THEN [given EXCEPT !.last = here] ELSE s
=============================================================================
