-------------------------------- MODULE Tail --------------------------------
(***************************************************************************)
(* tail() of src/dps/tail.c: poll the size of the file, read from the last *)
(* position, hand the whole lines to the callback, keep the rest for later.*)
(* The game writes the file while the loop runs, so every system call is a *)
(* step: fstat and lseek (which only matter against the size just taken)   *)
(* in one, read and the callbacks on what it returned in the other.        *)
(***************************************************************************)
EXTENDS LineScan

VARIABLES
  config,
  pc,           \* the system call the loop is about to make
  start,        \* the position it began at
  pos,          \* position of the first byte not consumed
  offset,       \* where lseek left the file offset
  keepgoing,    \* what the last callback returned
  delivered,    \* history: the lines handed to the callback
  refused       \* history: how many were, when it first returned FALSE (0: never)

tailVars == <<config, pc, start, pos, offset, keepgoing, delivered, refused>>
vars == <<fileVars, tailVars>>

Init == /\ FileInit
        /\ config \in Configs
        /\ start = IF config.history THEN 0 ELSE Len(file)
        /\ pos = start
        /\ offset = 0
        /\ pc = "stat"
        /\ keepgoing = TRUE
        /\ delivered = << >>
        /\ refused = 0
-----------------------------------------------------------------------------
(* The scan of a buffer goes through all of it, whatever the callback says. *)
Scan(buf) ==
  LET scan[here \in 0..Len(buf)] ==
        IF here = 0 THEN ScanStart ELSE ScanByte(buf, scan[here - 1], here)
  IN  scan[Len(buf)]
ScanLinesAndRest(buf) ==
  LET rest == SubSeq(buf, Scan(buf).last + 1, Len(buf))
  IN  Scan(buf).lines \o (IF rest = << >> THEN << >> ELSE << rest >>)
ScanLines(buf) == Scan(buf).lines
ConsumedWhole(buf) == Len(buf)
ConsumedPastEnd(buf) == IF Scan(buf).last = 0 THEN 0 ELSE Scan(buf).last + 1
Consumed(buf) == Scan(buf).last

(* while(keepgoing): fdSize(), lseek(), and the check for truncation, which *)
(* moves pos but not the offset that lseek has set.                         *)
StatBlind == /\ pc = "stat" /\ keepgoing
             /\ offset' = pos
             /\ pc' = "read"
             /\ UNCHANGED <<fileVars, config, start, pos, keepgoing, delivered, refused>>
Stat == /\ pc = "stat" /\ keepgoing
        /\ offset' = pos
        /\ pos' = IF pos > Len(file) THEN Len(file) ELSE pos
        /\ pc' = "read"
        /\ UNCHANGED <<fileVars, config, start, keepgoing, delivered, refused>>

(* Nothing to read: leave the loop, or sleep(1). *)
ReadNothingLeaves == /\ pc = "read"
                     /\ ReadAt(offset, BufSize) = << >>
                     /\ pc' = "done"
                     /\ UNCHANGED <<fileVars, config, start, pos, offset,
                                    keepgoing, delivered, refused>>
ReadNothingSleeps == /\ pc = "read"
                     /\ ReadAt(offset, BufSize) = << >>
                     /\ pc' = "sleep"
                     /\ UNCHANGED <<fileVars, config, start, pos, offset,
                                    keepgoing, delivered, refused>>
ReadNothing == /\ pc = "read"
               /\ ReadAt(offset, BufSize) = << >>
               /\ pc' = IF config.follow THEN "sleep" ELSE "done"
               /\ UNCHANGED <<fileVars, config, start, pos, offset,
                              keepgoing, delivered, refused>>

(* All the lines of the buffer go to the callback, whatever it returns; the *)
(* last answer is the one the loop looks at.                                *)
ReadSome ==
  LET buf == ReadAt(offset, BufSize)
  IN  /\ pc = "read"
      /\ buf # << >>
      /\ delivered' = delivered \o ScanLines(buf)
      /\ keepgoing' = Scan(buf).keepgoing
      /\ refused' = IF refused = 0 /\ Scan(buf).refused # 0
                    THEN Len(delivered) + Scan(buf).refused ELSE refused
      /\ pos' = pos + Consumed(buf)
      /\ pc' = "stat"
      /\ UNCHANGED <<fileVars, config, start, offset>>

Sleep == /\ pc = "sleep"
         /\ pc' = "stat"
         /\ UNCHANGED <<fileVars, config, start, pos, offset, keepgoing,
                        delivered, refused>>

Leave == /\ pc = "stat" /\ ~keepgoing
         /\ pc' = "done"
         /\ UNCHANGED <<fileVars, config, start, pos, offset, keepgoing,
                        delivered, refused>>

Loop == Stat \/ ReadNothing \/ ReadSome \/ Sleep \/ Leave
Game == (Write \/ Truncate) /\ UNCHANGED tailVars

Next == Loop \/ Game

(* The loop is not suspended for ever; the game need not write on. *)
Spec == Init /\ [][Next]_vars /\ WF_vars(Loop)
-----------------------------------------------------------------------------
TypeOK == /\ config \in Configs
          /\ pc \in {"stat", "read", "sleep", "done"}
          /\ start \in 0..Len(Content)
          /\ pos \in 0..Len(Content) /\ offset \in 0..Len(Content)
          /\ keepgoing \in BOOLEAN
          /\ delivered \in Seq(Seq(Nat))
          /\ refused \in 0..Len(delivered)

(* Bytes of the file since the tail began; meaningful while it only grows. *)
Since(position) == SubSeq(file, start + 1, position)

(* Until the game empties the file, the callback has been given the whole  *)
(* lines up to pos, in order, none twice, none in part, none left out,     *)
(* however reads and writes fall (the scan, and pos += last).              *)
Stream == INSTANCE LineStream WITH
            grows  <- truncations = 0,
            whole  <- WholeLines(Since(Len(file))),
            handed <- delivered
RefinesLineStream == Stream!Spec
ConsumedDelivered == truncations = 0 => delivered = WholeLines(Since(pos))

(* With --follow each line that becomes whole is delivered, unless the     *)
(* callback has said stop, or the game has emptied the file, before.       *)
EveryLineDelivered ==
  \A n \in 1..Len(Content) :
    (config.follow /\ truncations = 0 /\ Len(WholeLines(Since(Len(file)))) >= n)
      ~> (Len(delivered) >= n \/ ~keepgoing \/ truncations # 0)

(* A line handed over is never glued together from two lines of the log,   *)
(* not even when the file is emptied under the reader or the log is from a *)
(* system with other newlines (dps/README.md: CR, LF and CRLF).            *)
NeverGlued == \A k \in 1..Len(delivered) : Cardinality(ToSet(delivered[k])) = 1

(* Emptying the file does not derail the loop: with --follow, once the game*)
(* has stopped, no whole line is left beyond pos.                          *)
CatchesUp ==
  <>[](config.follow /\ keepgoing =>
         /\ pos <= Len(file)
         /\ Consumed(SubSeq(file, pos + 1, Len(file))) = 0)

(* Without --follow the loop comes to an end once the file ends in a whole *)
(* line (if the last line stays unfinished it does not: EndsWithoutFollow).*)
EndsAtWholeLine ==
  <>[](file = << >> \/ IsEndOfLine(Last(file))) => <>(config.follow \/ pc = "done")

(* "Return 'false' if you want the parsing to stop" (tail.h:8).            *)
NothingAfterRefusal == refused # 0 => Len(delivered) = refused

(* --follow is what makes the parser wait for new lines (dps/README.md:22);*)
(* without it the parser comes to an end.                                  *)
EndsWithoutFollow == ~config.follow ~> pc = "done"
=============================================================================
