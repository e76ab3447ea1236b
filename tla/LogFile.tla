------------------------------ MODULE LogFile -------------------------------
(***************************************************************************)
(* The log file and the game that writes it: external to the program, as   *)
(* the tail loops see it through fstat, lseek and read.  The game appends  *)
(* Content in pieces of any size and may empty the file to start over.     *)
(*                                                                         *)
(* A byte is CR, LF or the number of the line it is a character of: what a *)
(* line says does not matter, only which line it is and if it is whole.    *)
(***************************************************************************)
EXTENDS Integers, SequencesExt

CONSTANTS
  Content,         \* every byte the game ever writes
  MaxTruncations   \* bound on the times it empties the file

CR == -1
LF == -2
IsLineFeed(byte)  == byte = LF
IsEndOfLine(byte) == byte \in {CR, LF}

ASSUME ContentAssumption ==
  /\ Content \in Seq((Nat \ {0}) \union {CR, LF})
  /\ \A i \in 1..(Len(Content) - 1) :
       Content[i] > 0 /\ Content[i + 1] > 0 => Content[i] = Content[i + 1]
ASSUME TruncationsAssumption == MaxTruncations \in Nat

VARIABLES
  file,         \* the bytes in the file
  toWrite,      \* the bytes of Content not written yet
  truncations   \* how often the file was emptied

fileVars == <<file, toWrite, truncations>>

FileInit == \E n \in 0..Len(Content) :
              /\ file = SubSeq(Content, 1, n)
              /\ toWrite = SubSeq(Content, n + 1, Len(Content))
              /\ truncations = 0

Write == \E n \in 1..Len(toWrite) :
           /\ file' = file \o SubSeq(toWrite, 1, n)
           /\ toWrite' = SubSeq(toWrite, n + 1, Len(toWrite))
           /\ UNCHANGED truncations

Truncate == /\ file # << >>
            /\ truncations < MaxTruncations
            /\ file' = << >>
            /\ truncations' = truncations + 1
            /\ UNCHANGED toWrite

(* read(fd, buf, size) at an offset; beyond the end it returns nothing. *)
ReadAt(offset, size) == SubSeq(file, offset + 1, Min({offset + size, Len(file)}))

(* The lines of a run of bytes, by scanning it once: what the loops are    *)
(* meant to deliver.  Empty lines do not count (a CRLF ends one line), nor *)
(* does what follows the last end of line.                                 *)
NoLines == [line |-> << >>, lines |-> << >>]
WithByte(acc, byte) ==
  IF ~IsEndOfLine(byte) THEN [acc EXCEPT !.line = Append(@, byte)]
  ELSE [line  |-> << >>,
        lines |-> IF acc.line = << >> THEN acc.lines ELSE Append(acc.lines, acc.line)]
WithBytes(acc, bytes) ==
  LET read[n \in 0..Len(bytes)] ==
        IF n = 0 THEN acc ELSE WithByte(read[n - 1], bytes[n])
  IN  read[Len(bytes)]
WholeLines(bytes) == WithBytes(NoLines, bytes).lines
=============================================================================
