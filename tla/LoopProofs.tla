----------------------------- MODULE LoopProofs -----------------------------
(***************************************************************************)
(* What the callback of LoopIO::run is given, and that no wakeup of the    *)
(* loop is lost, for any log, any size of the buffer and any callback,     *)
(* however the game's writes and the emptying of the file fall between the *)
(* steps of the loop.                                                      *)
(***************************************************************************)
EXTENDS LoopIO, LineProofs

(* Nothing lies between the reader and the end of the file, or an event    *)
(* says that something does.                                               *)
UpToDate == m_pos >= Len(file) \/ events

(* Until the file is emptied, a read starts at the first byte that is not  *)
(* consumed and the bytes before it end with a whole line.                 *)
InStep ==
  /\ start <= m_pos /\ m_pos <= Len(file)
  /\ pc = "read" => offset = m_pos
  /\ WithBytes(NoLines, Since(m_pos)) = Clean(delivered)

(* A refusal is the last answer, and only leaving the loop follows it.     *)
Refused ==
  /\ refused = 0 => m_keepgoing
  /\ refused # 0 => /\ ~m_keepgoing /\ Len(delivered) = refused
                    /\ pc \in {"stat", "done"}

(* A read that starts at m_pos finds what lies there.  The other reads are *)
(* those that start beyond the end of a file that was emptied, when m_pos  *)
(* was set to its new end.                                                 *)
IInv == /\ FileOK
        /\ TypeOK
        /\ pc = "size" => delivered = << >>
        /\ truncations = 0 /\ pc # "size" => InStep
        /\ Refused
        /\ pc = "read" => m_pos <= offset
        /\ pc = "read" => offset = m_pos \/ UpToDate
        /\ pc = "wait" => UpToDate
-----------------------------------------------------------------------------
(* What parseBuf has found of a buffer after here bytes: all there is while *)
(* the callback accepts, and the line that it refused as the last.          *)
ParsedUpTo(buf, s, here) ==
  /\ Found(buf, s)
  /\ IF s.keepgoing THEN s.refused = 0 /\ FoundUpTo(buf, s, here)
     ELSE s.refused = Len(s.lines)

LEMMA ScanByteParses ==
  ASSUME NEW buf \in Seq(Byte), NEW here \in 1..Len(buf), NEW s,
         ParsedUpTo(buf, s, here - 1), s.keepgoing
  PROVE  ParsedUpTo(buf, ScanByte(buf, s, here), here)
<1> DEFINE line == SubSeq(buf, s.last + 1, here - 1)
           given == Given(s, line)
           next == ScanByte(buf, s, here)
<1>1. s \in ScanStates /\ s.refused = 0 /\ FoundUpTo(buf, s, here - 1)
  BY DEF ParsedUpTo, Found
<1>2. FoundUpTo(buf, next, here)
  BY <1>1, ScanByteFound
<1>3. \/ next.keepgoing = s.keepgoing /\ next.refused = s.refused
      \/ /\ next.keepgoing = Callback(line) /\ next.lines = Append(s.lines, line)
         /\ next.refused = IF ~Callback(line) THEN Len(s.lines) + 1 ELSE 0
  <2>1. given \in ScanStates \/ ~(s.last + 1 < here) \/ ~IsEndOfLine(buf[here])
    BY <1>1, GivenType DEF FoundUpTo, Found
  <2>2. CASE ~IsEndOfLine(buf[here])
    BY <2>2 DEF ScanByte
  <2>3. CASE IsEndOfLine(buf[here]) /\ ~(s.last + 1 < here)
    <3>1. next = [s EXCEPT !.last = here]
      BY <2>3 DEF ScanByte
    <3> HIDE DEF next
    <3> QED BY <1>1, <3>1 DEF ScanStates
  <2>4. CASE IsEndOfLine(buf[here]) /\ s.last + 1 < here
    <3>1. next = [given EXCEPT !.last = here]
      BY <2>4 DEF ScanByte
    <3>2. given \in ScanStates
      BY <2>1, <2>4
    <3>3. /\ given.keepgoing = Callback(line) /\ given.lines = Append(s.lines, line)
          /\ given.refused = IF s.refused = 0 /\ ~Callback(line) THEN Len(s.lines) + 1
                             ELSE s.refused
      BY <1>1, LineGiven
    <3> HIDE DEF next, given
    <3>4. /\ next.keepgoing = given.keepgoing /\ next.lines = given.lines
          /\ next.refused = given.refused
      BY <3>1, <3>2 DEF ScanStates
    <3> QED BY <1>1, <3>3, <3>4
  <2> QED BY <2>2, <2>3, <2>4
<1>4. next.lines = Append(s.lines, line) => Len(next.lines) = Len(s.lines) + 1
  BY <1>1 DEF ScanStates
<1>5. s.keepgoing = TRUE /\ Callback(line) \in BOOLEAN
  BY <1>1 DEF ScanStates, Callback
<1> HIDE DEF next, line
<1> QED BY <1>1, <1>2, <1>3, <1>4, <1>5 DEF ParsedUpTo, FoundUpTo, next

LEMMA NothingParsed ==
  ASSUME NEW buf \in Seq(Byte)
  PROVE  ParsedUpTo(buf, ScanStart, 0)
BY NothingFound DEF ParsedUpTo, FoundUpTo, ScanStart

LEMMA ScanParses ==
  ASSUME NEW buf \in Seq(Byte)
  PROVE  ParsedUpTo(buf, Scan(buf), Len(buf))
<1> DEFINE N == Len(buf)
           Parse(s, here) == IF s.keepgoing THEN ScanByte(buf, s, here) ELSE s
           step == [p \in (1..N) \X ScanStates |-> Parse(p[2], p[1])]
           Solves(scan) == scan = [here \in 0..N |-> IF here = 0 THEN ScanStart
                                                     ELSE Parse(scan[here - 1], here)]
           scan == CHOOSE f : Solves(f)
<1>1. N \in Nat /\ ScanStart \in ScanStates
  BY NothingFound
<1>2. step \in [(1..N) \X ScanStates -> ScanStates]
  <2>1. \A n \in 1..N : \A s \in ScanStates : Parse(s, n) \in ScanStates
    BY ScanByteType
  <2> HIDE DEF Parse
  <2> QED BY <1>1, <2>1
<1>3. \A n \in 1..N : \A s \in ScanStates : step[n, s] = Parse(s, n)
  OBVIOUS
<1>4. PICK g : g \in [0..N -> ScanStates] /\ IsRecursion(g, N, ScanStart, step)
  <2> HIDE DEF step, N
  <2>1. \E g : g \in [0..N -> ScanStates] /\ IsRecursion(g, N, ScanStart, step)
    BY ONLY <1>1, <1>2, RecursionSolved
  <2> QED BY <2>1
<1>5. Solves(g)
  <2>1. \A n \in 0..N : n # 0 => n \in 1..N /\ n - 1 \in 0..N
    BY <1>1
  <2>2. \A n \in 0..N : n # 0 => step[n, g[n - 1]] = Parse(g[n - 1], n)
    <3> HIDE DEF step, N
    <3> QED BY <1>3, <1>4, <2>1
  <2> HIDE DEF step, N
  <2> QED BY <1>4, <2>2 DEF IsRecursion
<1>6. Solves(scan)
  <2> HIDE DEF Solves
  <2> QED BY <1>5
<1>7. Scan(buf) = scan[N]
  BY DEF Scan
<1>8. /\ scan[0] = ScanStart
      /\ \A n \in 1..N : scan[n] = Parse(scan[n - 1], n)
  <2>1. \A n \in 1..N : n \in 0..N /\ n # 0
    OBVIOUS
  <2>2. 0 \in 0..N
    BY <1>1
  <2> HIDE DEF scan
  <2> QED BY <1>6, <2>1, <2>2
<1> HIDE DEF scan, step, Solves
<1> DEFINE P == {n \in 0..N : ParsedUpTo(buf, scan[n], n)}
<1>9. P = 0..N
  <2>1. 0 \in P /\ P \in SUBSET (0..N)
    BY <1>1, <1>8, NothingParsed
  <2>2. ASSUME NEW n, n \in 1..N, n - 1 \in P
        PROVE  n \in P
    <3>1. ParsedUpTo(buf, scan[n - 1], n - 1)
      BY <2>2
    <3>2. ParsedUpTo(buf, scan[n], n)
      <4>1. CASE scan[n - 1].keepgoing
        <5>1. scan[n] = ScanByte(buf, scan[n - 1], n)
          BY <1>8, <2>2, <4>1
        <5> QED BY <2>2, <3>1, <4>1, <5>1, ScanByteParses
      <4>2. CASE ~scan[n - 1].keepgoing
        <5>1. scan[n] = scan[n - 1]
          BY <1>8, <2>2, <4>2
        <5> QED BY <3>1, <4>2, <5>1 DEF ParsedUpTo
      <4> QED BY <4>1, <4>2
    <3>3. n \in 0..N
      BY <2>2
    <3> QED BY <3>2, <3>3
  <2> HIDE DEF P, N
  <2> QED BY ONLY <1>1, <2>1, <2>2, BoundedInduction
<1>10. N \in P
  <2> HIDE DEF P
  <2> QED BY <1>1, <1>9
<1> QED BY <1>7, <1>10
-----------------------------------------------------------------------------
LEMMA InitIInv == Init => IInv
<1> SUFFICES ASSUME Init PROVE IInv
  OBVIOUS
<1>1. FileOK
  BY FileStarts DEF Init
<1>2. << >> \in Seq(Seq(Nat)) /\ Len(<< >>) = 0
  BY EmptySeq
<1>3. Len(Content) \in Nat
  BY ContentAssumption
<1>4. TypeOK
  <2>1. delivered \in Seq(Seq(Nat)) /\ refused \in 0..Len(delivered)
    BY <1>2 DEF Init
  <2>2. {start, m_pos, offset} \subseteq 0..Len(Content)
    BY <1>3 DEF Init
  <2> QED BY <2>1, <2>2 DEF Init, TypeOK
<1> QED BY <1>1, <1>2, <1>4 DEF Init, IInv, Refused

(* Only a read from where m_pos is, or at the end, can find nothing; only   *)
(* the loop itself takes an event from the queue.                           *)
LEMMA QuietStepKeeps ==
  ASSUME IInv, AddWatch \/ Stat \/ ReadNothing \/ Wait \/ Leave
  PROVE  IInv'
<1> USE DEF IInv, TypeOK, InStep, Since, FileOK, Refused, UpToDate, fileVars
<1>1. CASE AddWatch
  BY <1>1 DEF AddWatch
<1>2. CASE Stat
  <2>1. /\ UNCHANGED <<fileVars, config, start, m_keepgoing, events, delivered, refused>>
        /\ offset' = m_pos /\ pc = "stat" /\ pc' = "read" /\ m_keepgoing
        /\ m_pos' = IF m_pos > Len(file) THEN Len(file) ELSE m_pos
    BY <1>2 DEF Stat
  <2>2. Len(file) \in Nat
    OBVIOUS
  <2>3. m_pos' \in 0..Len(Content) /\ m_pos' <= offset'
    BY <2>1, <2>2
  <2>4. truncations' = 0 => m_pos' = m_pos
    BY <2>1, <2>2
  <2>5. (offset = m_pos \/ UpToDate)'
    BY <2>1, <2>2
  <2> QED BY <2>1, <2>3, <2>4, <2>5
<1>3. CASE ReadNothing
  <2>1. offset >= Len(file)
    BY <1>3, ReadReturns DEF ReadNothing
  <2>2. UpToDate
    BY <1>3, <2>1 DEF ReadNothing
  <2> QED BY <1>3, <2>2 DEF ReadNothing
<1>4. CASE Wait
  BY <1>4 DEF Wait
<1>5. CASE Leave
  BY <1>5 DEF Leave
<1> QED BY <1>1, <1>2, <1>3, <1>4, <1>5

LEMMA NothingSince ==
  ASSUME NEW s, NEW k \in Nat
  PROVE  SubSeq(s, k + 1, k) = << >>
BY SubSeqEmpty

LEMMA TakeSizeKeeps == ASSUME IInv, TakeSize PROVE IInv'
<1>1. /\ pc = "size" /\ pc' = "watch"
      /\ m_pos' = IF config.history THEN 0 ELSE Len(file)
      /\ start' = m_pos' /\ offset' = m_pos'
      /\ UNCHANGED <<fileVars, config, m_keepgoing, events, delivered, refused>>
  BY DEF TakeSize
<1>2. /\ FileOK /\ Len(file) \in Nat /\ Len(file) <= Len(Content)
      /\ delivered = << >> /\ Len(Content) \in Nat
  <2>1. FileOK /\ delivered = << >>
    BY <1>1 DEF IInv
  <2> QED BY <2>1, ContentAssumption DEF FileOK
<1>3. m_pos' \in 0..Len(file)
  BY <1>1, <1>2
<1>4. TypeOK'
  BY <1>1, <1>2, <1>3 DEF IInv, TypeOK
<1>5. Since(m_pos)' = << >>
  <2>1. SubSeq(file', m_pos' + 1, m_pos') = << >>
    <3>1. m_pos' \in Nat
      BY <1>2, <1>3
    <3> QED BY <3>1, NothingSince
  <2> QED BY <1>1, <2>1 DEF Since
<1>6. WithBytes(NoLines, << >>) = Clean(<< >>)
  <2>1. NoLines \in Acc
    BY EmptySeq DEF NoLines, Acc
  <2> QED BY <2>1, WithNoBytes DEF NoLines, Clean
<1>7. InStep'
  <2>1. start' <= m_pos' /\ m_pos' <= Len(file')
    BY <1>1, <1>2, <1>3 DEF fileVars
  <2>2. WithBytes(NoLines, Since(m_pos)') = Clean(delivered')
    BY <1>1, <1>2, <1>5, <1>6
  <2> QED BY <1>1, <2>1, <2>2 DEF InStep
<1>8. Refused'
  BY <1>1 DEF IInv, Refused
<1>9. FileOK'
  BY <1>1, <1>2 DEF FileOK, fileVars
<1> QED BY <1>1, <1>4, <1>7, <1>8, <1>9 DEF IInv

(* ReadSome hands over the whole lines of what it read up to the one that   *)
(* is refused, and goes on after the last of them.                          *)
LEMMA ReadSomeKeeps == ASSUME IInv, ReadSome PROVE IInv'
<1> DEFINE buf == ReadAt(offset, BufSize)
           s == Scan(buf)
<1>1. /\ buf # << >> /\ pc = "read" /\ pc' = "stat"
      /\ delivered' = delivered \o s.lines
      /\ m_keepgoing' = s.keepgoing
      /\ refused' = IF refused = 0 /\ s.refused # 0 THEN Len(delivered) + s.refused
                    ELSE refused
      /\ m_pos' = m_pos + s.last
      /\ UNCHANGED <<fileVars, config, start, offset, events>>
  BY DEF ReadSome, Parsed, ParsedBytes
<1>2. /\ FileOK /\ offset \in Nat /\ m_pos \in Nat /\ m_pos <= offset
      /\ delivered \in Seq(Seq(Nat)) /\ refused \in 0..Len(delivered)
      /\ Len(file) \in Nat /\ Len(file) <= Len(Content) /\ Len(Content) \in Nat
  <2>1. FileOK /\ offset \in Nat /\ m_pos \in Nat /\ m_pos <= offset
    BY <1>1 DEF IInv, TypeOK
  <2>2. delivered \in Seq(Seq(Nat)) /\ refused \in 0..Len(delivered)
    BY DEF IInv, TypeOK
  <2>3. Len(file) \in Nat /\ Len(file) <= Len(Content) /\ Len(Content) \in Nat
    BY <2>1, ContentAssumption DEF FileOK
  <2> QED BY <2>1, <2>2, <2>3
<1>3. buf \in Seq(Byte) /\ Tidy(buf) /\ offset + Len(buf) <= Len(file)
  <2>1. buf \in Seq(Byte) /\ Tidy(buf)
    BY <1>2, ReadReturns
  <2>2. offset + Len(buf) <= Len(file)
    BY <1>1, <1>2, ReadReturns
  <2> QED BY <2>1, <2>2
<1>4. Found(buf, s)
  BY <1>3, ScanParses DEF ParsedUpTo
<1>5. /\ s.keepgoing \in BOOLEAN /\ s.refused \in 0..Len(s.lines)
      /\ s.last \in 0..Len(buf) /\ s.lines \in Seq(Seq(Nat)) /\ Len(s.lines) \in Nat
      /\ s.keepgoing => s.refused = 0
      /\ ~s.keepgoing => s.refused = Len(s.lines)
      /\ s.refused = 0 => s.keepgoing
  BY <1>3, <1>4, ScanParses DEF ParsedUpTo, Found, ScanStates
<1>6. truncations = 0 =>
        /\ start \in 0..offset /\ offset = m_pos
        /\ WithBytes(NoLines, SubSeq(file, start + 1, offset)) = Clean(delivered)
  BY <1>1 DEF IInv, TypeOK, InStep, Since
<1>7. truncations = 0 =>
        /\ offset + s.last \in offset..Len(file)
        /\ WithBytes(NoLines, SubSeq(file, start + 1, offset + s.last))
             = Clean(delivered \o s.lines)
  BY <1>1, <1>2, <1>4, <1>6, ReadDelivers
<1> HIDE DEF s, buf
<1>8. /\ delivered \o s.lines \in Seq(Seq(Nat))
      /\ Len(delivered \o s.lines) = Len(delivered) + Len(s.lines)
        BY <1>2, <1>5, ConcatProperties
<1>9. TypeOK'
  <2>1. m_pos' \in 0..Len(Content)
    <3>1. Len(buf) \in Nat
      BY <1>3
    <3> QED BY <1>1, <1>2, <1>3, <1>5, <3>1
  <2>2. delivered' \in Seq(Seq(Nat)) /\ refused' \in 0..Len(delivered')
    <3>1. Len(delivered) \in Nat
      BY <1>2
    <3>2. delivered' = delivered \o s.lines
      BY <1>1
    <3>3. Len(delivered') = Len(delivered) + Len(s.lines)
      BY <1>8, <3>2
    <3>4. refused' \in 0..Len(delivered')
      BY <1>1, <1>2, <1>5, <3>1, <3>3
    <3> QED BY <1>8, <3>2, <3>4
  <2>3. {m_keepgoing', events'} \subseteq BOOLEAN
        /\ pc' \in {"size", "watch", "stat", "read", "wait", "done"}
    BY <1>1, <1>5 DEF IInv, TypeOK
  <2>4. /\ config' \in Configs /\ start' \in 0..Len(Content)
        /\ offset' \in 0..Len(Content)
    BY <1>1 DEF IInv, TypeOK
  <2> QED BY <2>1, <2>2, <2>3, <2>4 DEF TypeOK
<1>10. Refused'
  <2>1. refused = 0
    BY <1>1 DEF IInv, Refused
  <2>2. Len(delivered') = Len(delivered) + Len(s.lines)
    BY <1>1, <1>8
  <2>3. Len(delivered) \in Nat
    BY <1>2
  <2>4. CASE s.refused = 0
    <3>1. refused' = 0 /\ s.keepgoing = TRUE
      BY <1>1, <1>5, <2>1, <2>4
    <3> QED BY <1>1, <3>1 DEF Refused
  <2>5. CASE s.refused # 0
    <3>1. refused' = Len(delivered) + s.refused /\ s.keepgoing = FALSE
      BY <1>1, <1>5, <2>1, <2>5
    <3>2. refused' = Len(delivered')
      BY <1>5, <2>2, <2>3, <3>1
    <3>3. refused' # 0
      BY <1>5, <2>3, <2>5, <3>1
    <3> QED BY <1>1, <3>1, <3>2, <3>3 DEF Refused
  <2> QED BY <2>4, <2>5
<1>11. truncations' = 0 => InStep'
  <2> SUFFICES ASSUME truncations' = 0 PROVE InStep'
    OBVIOUS
  <2>1. truncations = 0 /\ file' = file /\ start' = start
    BY <1>1 DEF fileVars
  <2>2. offset = m_pos /\ start <= m_pos /\ start \in Nat
    BY <1>6, <2>1
  <2>3. m_pos' = offset + s.last /\ m_pos' <= Len(file) /\ m_pos <= m_pos'
    BY <1>1, <1>2, <1>5, <1>7, <2>1, <2>2
  <2>4. start' <= m_pos' /\ m_pos' <= Len(file')
    BY <1>1, <1>2, <1>5, <2>1, <2>2, <2>3
  <2>5. Since(m_pos)' = SubSeq(file, start + 1, offset + s.last)
    BY <2>1, <2>3 DEF Since
  <2> QED BY <1>1, <1>7, <2>1, <2>4, <2>5 DEF InStep
<1>12. FileOK'
  BY <1>1, <1>2 DEF FileOK, fileVars
<1> QED BY <1>1, <1>9, <1>10, <1>11, <1>12 DEF IInv

(* Once the file is watched, whatever the game does leaves an event.       *)
LEMMA GameKeeps == ASSUME IInv, Game PROVE IInv'
<1>1. UNCHANGED loopVars
  BY DEF Game
<1>2. FileOK'
  BY FileWritten, FileEmptied DEF Game, IInv
<1>3. TypeOK' /\ (pc = "read" => m_pos <= offset)'
  <2>1. events' \in BOOLEAN
    BY DEF Game, IInv, TypeOK, Watched
  <2> QED BY <1>1, <2>1 DEF IInv, TypeOK, loopVars
<1>4. Refused' /\ (pc = "size" => delivered = << >>)'
  BY <1>1 DEF IInv, Refused, loopVars
<1>5. ASSUME truncations' = 0, pc' # "size" PROVE InStep'
  <2>1. Write /\ truncations = 0 /\ pc # "size"
    <3>1. Write
      BY <1>5, FileEmptied DEF Game, IInv
    <3> QED BY <1>1, <1>5, <3>1, FileWritten DEF IInv, loopVars
  <2>2. PICK more \in Seq(Byte) : file' = file \o more
    BY <2>1, FileWritten DEF IInv
  <2>3. /\ file \in Seq(Byte) /\ start \in 0..Len(file) /\ m_pos \in start..Len(file)
        /\ Len(file) \in Nat
    BY <2>1 DEF IInv, InStep, TypeOK, FileOK
  <2>4. Len(file') = Len(file) + Len(more) /\ Len(more) \in Nat
    BY <2>2, <2>3, ConcatProperties
  <2>5. SubSeq(file', start + 1, m_pos) = SubSeq(file, start + 1, m_pos)
    BY <2>2, <2>3, PieceKept
  <2>6. Since(m_pos)' = Since(m_pos)
    BY <1>1, <2>5 DEF Since, loopVars
  <2>7. m_pos' <= Len(file')
    BY <1>1, <2>3, <2>4 DEF loopVars
  <2> QED BY <1>1, <2>1, <2>6, <2>7 DEF IInv, InStep, loopVars
<1>6. (pc = "read" => offset = m_pos \/ UpToDate)' /\ (pc = "wait" => UpToDate)'
  <2>1. pc' \in {"read", "wait"} => events'
    BY <1>1 DEF Game, Watched, loopVars
  <2> QED BY <2>1 DEF UpToDate
<1> QED BY <1>2, <1>3, <1>4, <1>5, <1>6 DEF IInv

LEMMA NextIInv == IInv /\ [Next]_vars => IInv'
<1> SUFFICES ASSUME IInv, [Next]_vars PROVE IInv'
  OBVIOUS
<1>1. CASE Loop
  BY <1>1, TakeSizeKeeps, QuietStepKeeps, ReadSomeKeeps DEF Loop
<1>2. CASE Game
  BY <1>2, GameKeeps
<1>3. CASE UNCHANGED vars
  BY <1>3 DEF vars, fileVars, loopVars, IInv, TypeOK, InStep, Since, FileOK, Refused, UpToDate
<1> QED BY <1>1, <1>2, <1>3 DEF Next

LEMMA Invariant == Spec => []IInv
BY InitIInv, NextIInv, PTL DEF Spec

(* The loop keeps its positions within the file, and counts the lines it   *)
(* handed over (m_pos, and the answers of the callback).                   *)
THEOREM TypeCorrect == Spec => []TypeOK
<1>1. IInv => TypeOK
  BY DEF IInv
<1> QED BY Invariant, <1>1, PTL

(* LoopIO::run never blocks in read(m_inotify) with a part of the file     *)
(* unread and no event to end the wait.                                    *)
THEOREM NoWakeupLost == Spec => []BlockedAtEnd
<1>1. IInv => BlockedAtEnd
  BY DEF IInv, UpToDate, BlockedAtEnd
<1> QED BY Invariant, <1>1, PTL

(* The line that the callback refuses is the last it is given: parseBuf    *)
(* leaves its loop at once, and LoopIO::run reads no more.                 *)
THEOREM NothingFollowsRefusal == Spec => []NothingAfterRefusal
<1>1. IInv => NothingAfterRefusal
  BY DEF IInv, Refused, NothingAfterRefusal
<1> QED BY Invariant, <1>1, PTL

(* Until the file is emptied the callback has been given the whole lines   *)
(* of the bytes up to m_pos and nothing else, wherever the buffers ended   *)
(* and the scan of one was broken off (parseBuf).                          *)
THEOREM WholeLinesDelivered == Spec => []ConsumedDelivered
<1>1. IInv => ConsumedDelivered
  BY DEF IInv, InStep, ConsumedDelivered, WholeLines, Clean, Watched
<1> QED BY Invariant, <1>1, PTL
-----------------------------------------------------------------------------
(* LoopIO::run implements LineStream: the writes of the game make more     *)
(* lines whole, and ReadSome hands over lines that are.                    *)
Whole == IF pc = "size" THEN << >> ELSE WholeLines(Since(Len(file)))

LEMMA PieceOfFile ==
  ASSUME FileOK, NEW p \in 0..Len(file), NEW q \in p..Len(file)
  PROVE  SubSeq(file, p + 1, q) \in Seq(Byte)
<1>1. file \in Seq(Byte) /\ p + 1 \in 1..(Len(file) + 1) /\ q \in ((p + 1) - 1)..Len(file)
  BY DEF FileOK
<1> QED BY <1>1, PieceTidy

LEMMA LoopHandsOver ==
  ASSUME IInv, IInv', Loop, ~TakeSize, truncations' = 0
  PROVE  Stream!Next
<1>1. UNCHANGED <<file, start, truncations>> /\ pc # "size" /\ pc' # "size"
  BY DEF Loop, AddWatch, Stat, ReadNothing, ReadSome, Wait, Leave, fileVars
<1>2. UNCHANGED Whole
  BY <1>1 DEF Whole, Since
<1>3. /\ FileOK /\ InStep /\ delivered \in Seq(Seq(Nat)) /\ start \in 0..Len(file)
      /\ Len(file) \in Nat /\ m_pos \in start..Len(file)
  BY <1>1 DEF IInv, TypeOK, FileOK, InStep
<1>4. SubSeq(file, start + 1, Len(file)) \in Seq(Byte)
  <2>1. Len(file) \in start..Len(file)
    BY <1>3
  <2> QED BY <1>3, <2>1, PieceOfFile
<1>5. CASE ReadSome
  <2>1. PICK more \in Seq(Seq(Nat)) : delivered' = delivered \o more
    <3> DEFINE buf == ReadAt(offset, BufSize)
    <3>1. buf \in Seq(Byte)
      <4>1. offset \in Nat
        BY DEF IInv, TypeOK
      <4> QED BY <1>3, <4>1, ReadReturns
    <3>2. Scan(buf).lines \in Seq(Seq(Nat))
      BY <3>1, ScanParses DEF ParsedUpTo, Found
    <3> QED BY <1>5, <3>2 DEF ReadSome, Parsed
  <2>2. IsPrefix(delivered, delivered')
    BY <1>3, <2>1, ConcatIsPrefix
  <2>3. delivered' = WholeLines(SubSeq(file, start + 1, m_pos'))
    BY <1>1 DEF IInv, InStep, Since, WholeLines, Clean
  <2>4. m_pos' \in start..Len(file)
    BY <1>1, <1>3 DEF IInv, InStep, TypeOK
  <2>5. Since(Len(file)) = SubSeq(file, start + 1, m_pos') \o SubSeq(file, m_pos' + 1, Len(file))
    <3>1. /\ file \in Seq(Byte) /\ start + 1 \in 1..(Len(file) + 1)
          /\ m_pos' \in ((start + 1) - 1)..Len(file) /\ Len(file) \in m_pos'..Len(file)
      BY <1>3, <2>4 DEF FileOK
    <3>2. SubSeq(file, start + 1, m_pos') \o SubSeq(file, m_pos' + 1, Len(file))
            = SubSeq(file, start + 1, Len(file))
      BY ONLY <3>1, ConcatAdjacentSubSeq
    <3> QED BY <3>2 DEF Since
  <2>6. /\ SubSeq(file, start + 1, m_pos') \in Seq(Byte)
        /\ SubSeq(file, m_pos' + 1, Len(file)) \in Seq(Byte)
    <3>1. m_pos' \in 0..Len(file) /\ Len(file) \in m_pos'..Len(file)
      BY <1>3, <2>4
    <3> QED BY <1>3, <2>4, <3>1, PieceOfFile
  <2>7. IsPrefix(delivered', Whole)
    BY <1>1, <2>3, <2>5, <2>6, WholeLinesGrow DEF Whole
  <2>8. Stream!Hand
    BY <1>2, <2>2, <2>7 DEF Stream!Hand, Stream!IsPrefix, IsPrefix, Whole
  <2> QED BY <2>8 DEF Stream!Next
<1>6. CASE AddWatch \/ Stat \/ ReadNothing \/ Wait \/ Leave
  <2>1. UNCHANGED delivered
    BY <1>6 DEF AddWatch, Stat, ReadNothing, Wait, Leave
  <2>2. IsPrefix(Whole, Whole)
    <3>1. Whole \in Seq(Seq(Nat))
      BY <1>1, <1>4, WholeLinesGrow, EmptySeq DEF Whole, Since
    <3>2. Len(Whole) \in Nat
      BY <3>1
    <3> QED BY <3>2, PrefixOfItself
  <2>3. Stream!Grow
    BY <1>2, <2>1, <2>2 DEF Stream!Grow, Stream!IsPrefix, IsPrefix, Whole
  <2> QED BY <2>3 DEF Stream!Next
<1> QED BY <1>5, <1>6 DEF Loop

(* When the constructor takes the size, lines begin to count. *)
LEMMA TakeSizeGrows ==
  ASSUME IInv, IInv', TakeSize, truncations' = 0
  PROVE  Stream!Next
<1>1. /\ pc = "size" /\ pc' = "watch" /\ delivered' = delivered
      /\ UNCHANGED <<file, truncations>>
  BY DEF TakeSize, fileVars
<1>2. FileOK' /\ start' \in 0..Len(file')
  BY <1>1 DEF IInv, InStep, TypeOK
<1>3. file' \in Seq(Byte) /\ Len(file') \in start'..Len(file') /\ Len(file') \in Nat
  BY <1>2 DEF FileOK
<1>4. SubSeq(file', start' + 1, Len(file')) \in Seq(Byte)
  <2>1. FileOK /\ file' = file
    BY <1>1 DEF IInv
  <2> QED BY <1>2, <1>3, <2>1, PieceOfFile
<1>5. Whole' \in Seq(Seq(Nat))
  <2>1. Whole' = WholeLines(SubSeq(file', start' + 1, Len(file')))
    BY <1>1 DEF Whole, Since
  <2> QED BY <1>4, <2>1, WholeLinesGrow, EmptySeq
<1>6. IsPrefix(<< >>, Whole')
  <2> DEFINE w == Whole'
  <2>1. w \in Seq(Seq(Nat)) /\ << >> \in Seq(Seq(Nat))
    BY <1>5, EmptySeq
  <2> HIDE DEF w
  <2>2. << >> \o w = w /\ IsPrefix(<< >>, << >> \o w)
    BY ONLY <2>1, ConcatEmptySeq, ConcatIsPrefix
  <2> QED BY <2>2 DEF w
<1>7. Whole = << >>
  BY <1>1 DEF Whole
<1>8. Stream!Grow
  BY <1>1, <1>6, <1>7 DEF Stream!Grow, Stream!IsPrefix, IsPrefix, Whole
<1> QED BY <1>8 DEF Stream!Next

LEMMA GameGrows ==
  ASSUME IInv, IInv', Game, truncations' = 0
  PROVE  Stream!Next
<1>1. UNCHANGED <<start, delivered, pc>>
  BY DEF Game, loopVars
<1>2. Write /\ truncations = 0
  <2>1. Write
    BY FileEmptied DEF Game, IInv
  <2> QED BY <2>1, FileWritten DEF IInv
<1>3. PICK more \in Seq(Byte) : file' = file \o more
  BY <1>2, FileWritten DEF IInv
<1>4. CASE pc = "size"
  <2>1. Whole = << >> /\ Whole' = << >>
    BY <1>1, <1>4 DEF Whole
  <2> QED BY <1>1, <2>1, PrefixOfItself, EmptySeq
             DEF Stream!Next, Stream!Grow, Stream!IsPrefix, IsPrefix, Whole
<1>5. CASE pc # "size"
  <2>1. file \in Seq(Byte) /\ start \in 0..Len(file) /\ Len(file) \in start..Len(file)
    BY <1>2, <1>5 DEF IInv, InStep, TypeOK, FileOK
  <2>2. SubSeq(file', start + 1, Len(file')) = SubSeq(file, start + 1, Len(file)) \o more
    BY <1>3, <2>1, PieceKept
  <2>3. SubSeq(file, start + 1, Len(file)) \in Seq(Byte)
    BY <2>1, PieceOfFile DEF IInv
  <2>4. IsPrefix(Whole, Whole')
    <3>1. Whole = WholeLines(SubSeq(file, start + 1, Len(file)))
      BY <1>5 DEF Whole, Since
    <3>2. Whole' = WholeLines(SubSeq(file, start + 1, Len(file)) \o more)
      BY <1>1, <1>5, <2>2 DEF Whole, Since
    <3> QED BY <2>3, <3>1, <3>2, WholeLinesGrow
  <2>5. Stream!Grow
    BY <1>1, <2>4 DEF Stream!Grow, Stream!IsPrefix, IsPrefix, Whole
  <2> QED BY <2>5 DEF Stream!Next
<1> QED BY <1>4, <1>5

(* LoopIO::run hands over the lines of a growing file as LineStream        *)
(* promises.                                                               *)
THEOREM ImplementsLineStream == Spec => RefinesLineStream
<1>1. Init => Stream!Init
  BY DEF Init, Stream!Init
<1>2. IInv /\ IInv' /\ [Next]_vars
        => [Stream!Next]_<<truncations = 0,
                           IF pc = "size" THEN << >> ELSE WholeLines(Since(Len(file))),
                           delivered>>
  <2> SUFFICES ASSUME IInv, IInv', [Next]_vars
               PROVE  [Stream!Next]_<<truncations = 0,
                           IF pc = "size" THEN << >> ELSE WholeLines(Since(Len(file))),
                           delivered>>
    OBVIOUS
  <2>1. CASE truncations' = 0 /\ Next
    BY <2>1, TakeSizeGrows, LoopHandsOver, GameGrows DEF Next
  <2>2. CASE truncations' # 0
    BY <2>2 DEF Stream!Next
  <2>3. CASE UNCHANGED vars
    BY <2>3 DEF vars, fileVars, loopVars, Since
  <2> QED BY <2>1, <2>2, <2>3
<1> QED BY Invariant, <1>1, <1>2, PTL DEF Spec, RefinesLineStream, Stream!Spec
=============================================================================
