------------------------------- MODULE LoopIO -------------------------------
(***************************************************************************)
(* The read loop of src/dps++/tail.cpp: class IO and LoopIO::run, built    *)
(* with inotify.  Instead of sleeping, the loop blocks in a read of an     *)
(* inotify descriptor that watches the file for modifications; a callback  *)
(* that returns FALSE ends the scan of the buffer at once.                 *)
(***************************************************************************)
EXTENDS LineScan

VARIABLES
  config,
  pc,            \* the system call the program is about to make
  start,         \* m_pos as the constructor set it
  m_pos, offset, m_keepgoing,
  events,        \* whether a modification is queued: the kernel merges an
                 \* event with an equal one that is still in the queue
  delivered,     \* history: the lines handed to the callback
  refused        \* history: how many were, when it returned FALSE (0: never)

loopVars == <<config, pc, start, m_pos, offset, m_keepgoing, delivered, refused>>
vars == <<fileVars, loopVars, events>>

(* The constructor has opened the file. *)
Init == /\ FileInit
        /\ config \in Configs
        /\ pc = "size"
        /\ start = 0 /\ m_pos = 0 /\ offset = 0
        /\ m_keepgoing = TRUE
        /\ events = FALSE
        /\ delivered = << >>
        /\ refused = 0
-----------------------------------------------------------------------------
(* The rest of the constructor: the file is watched from after its size was *)
(* taken on.                                                                *)
TakeSize == /\ pc = "size"
            /\ m_pos' = IF config.history THEN 0 ELSE Len(file)
            /\ start' = m_pos'
            /\ offset' = m_pos'
            /\ pc' = "watch"
            /\ UNCHANGED <<fileVars, config, m_keepgoing, events, delivered, refused>>
AddWatch == /\ pc = "watch"
            /\ pc' = "stat"
            /\ UNCHANGED <<fileVars, config, start, m_pos, offset, m_keepgoing,
                           events, delivered, refused>>
Watched == pc \notin {"size", "watch"}

(* parseBuf ends its scan of the buffer at the line that is refused. *)
ScanAll(buf) ==
  LET scan[here \in 0..Len(buf)] ==
        IF here = 0 THEN ScanStart ELSE ScanByte(buf, scan[here - 1], here)
  IN  scan[Len(buf)]
Scan(buf) ==
  LET scan[here \in 0..Len(buf)] ==
        IF here = 0 THEN ScanStart
        ELSE IF scan[here - 1].keepgoing THEN ScanByte(buf, scan[here - 1], here)
        ELSE scan[here - 1]
  IN  scan[Len(buf)]
ParsedAndRest(buf) ==
  LET rest == SubSeq(buf, Scan(buf).last + 1, Len(buf))
  IN  Scan(buf).lines \o (IF rest = << >> THEN << >> ELSE << rest >>)
Parsed(buf) == Scan(buf).lines
ParsedBytesAll(buf) == Len(buf)
ParsedBytesPastEnd(buf) == IF Scan(buf).last = 0 THEN 0 ELSE Scan(buf).last + 1
ParsedBytes(buf) == Scan(buf).last

StatBlind == /\ pc = "stat" /\ m_keepgoing
             /\ offset' = m_pos
             /\ pc' = "read"
             /\ UNCHANGED <<fileVars, config, start, m_pos, m_keepgoing, events,
                            delivered, refused>>
Stat == /\ pc = "stat" /\ m_keepgoing
        /\ offset' = m_pos
        /\ m_pos' = IF m_pos > Len(file) THEN Len(file) ELSE m_pos
        /\ pc' = "read"
        /\ UNCHANGED <<fileVars, config, start, m_keepgoing, events, delivered, refused>>

ReadNothingDrains == /\ pc = "read"
                     /\ ReadAt(offset, BufSize) = << >>
                     /\ pc' = IF config.follow THEN "wait" ELSE "done"
                     /\ events' = FALSE
                     /\ UNCHANGED <<fileVars, config, start, m_pos, offset,
                                    m_keepgoing, delivered, refused>>
ReadNothing == /\ pc = "read"
               /\ ReadAt(offset, BufSize) = << >>
               /\ pc' = IF config.follow THEN "wait" ELSE "done"
               /\ UNCHANGED <<fileVars, config, start, m_pos, offset, m_keepgoing,
                              events, delivered, refused>>

ReadSome ==
  LET buf == ReadAt(offset, BufSize)
  IN  /\ pc = "read"
      /\ buf # << >>
      /\ delivered' = delivered \o Parsed(buf)
      /\ m_keepgoing' = Scan(buf).keepgoing
      /\ refused' = IF refused = 0 /\ Scan(buf).refused # 0
                    THEN Len(delivered) + Scan(buf).refused ELSE refused
      /\ m_pos' = m_pos + ParsedBytes(buf)
      /\ pc' = "stat"
      /\ UNCHANGED <<fileVars, config, start, offset, events>>

(* wait(): read(m_inotify) blocks until there is an event and removes it. *)
WaitTwice == /\ pc = "wait" /\ events
             /\ events' = FALSE
             /\ UNCHANGED <<fileVars, loopVars>>
Wait == /\ pc = "wait" /\ events
        /\ events' = FALSE
        /\ pc' = "stat"
        /\ UNCHANGED <<fileVars, config, start, m_pos, offset, m_keepgoing,
                       delivered, refused>>

Leave == /\ pc = "stat" /\ ~m_keepgoing
         /\ pc' = "done"
         /\ UNCHANGED <<fileVars, config, start, m_pos, offset, m_keepgoing,
                        events, delivered, refused>>

Loop == TakeSize \/ AddWatch \/ Stat \/ ReadNothing \/ ReadSome \/ Wait \/ Leave
Game == /\ Write \/ Truncate
        /\ events' = (events \/ Watched)
        /\ UNCHANGED loopVars

Next == Loop \/ Game

(* The loop is not suspended for ever; the game need not write on. *)
Spec == Init /\ [][Next]_vars /\ WF_vars(Loop)
-----------------------------------------------------------------------------
Since(position) == SubSeq(file, start + 1, position)

TypeOK == /\ config \in Configs
          /\ pc \in {"size", "watch", "stat", "read", "wait", "done"}
          /\ {start, m_pos, offset} \subseteq 0..Len(Content)
          /\ {m_keepgoing, events} \subseteq BOOLEAN
          /\ delivered \in Seq(Seq(Nat))
          /\ refused \in 0..Len(delivered)

(* "Return 'false' if you want the parsing to stop" (dps/tail.h:8, and the *)
(* TailCallBack of dps++/tail.h): nothing follows the line refused.        *)
NothingAfterRefusal == refused # 0 => Len(delivered) = refused

(* While the file only grows, the callback has been given the whole lines  *)
(* up to m_pos in order, none twice, none in part and none left out.       *)
ConsumedDelivered ==
  truncations = 0 /\ Watched => delivered = WholeLines(Since(m_pos))

Stream == INSTANCE LineStream WITH
            grows  <- truncations = 0,
            whole  <- IF pc = "size" THEN << >> ELSE WholeLines(Since(Len(file))),
            handed <- delivered
RefinesLineStream == Stream!Spec

(* No wakeup is lost: when the loop is blocked and no event is queued, it  *)
(* has read the file to its end, even if the write fell between the read   *)
(* that found nothing and the wait, or before the watch was added, or the  *)
(* file was emptied.                                                       *)
BlockedAtEnd == pc = "wait" /\ ~events => m_pos >= Len(file)

(* With --follow each line that becomes whole is delivered, unless the     *)
(* callback has said stop, or the game has emptied the file, before.       *)
EveryLineDelivered ==
  \A n \in 1..Len(Content) :
    (config.follow /\ pc # "size" /\ truncations = 0
      /\ Len(WholeLines(Since(Len(file)))) >= n)
        ~> (Len(delivered) >= n \/ refused # 0 \/ truncations # 0)

(* After the file was emptied the loop finds its feet: in the end no whole *)
(* line is left beyond m_pos.                                              *)
CatchesUp ==
  <>[](config.follow /\ refused = 0 =>
         /\ m_pos <= Len(file)
         /\ \A i \in (m_pos + 1)..Len(file) : ~IsEndOfLine(file[i]))
=============================================================================
