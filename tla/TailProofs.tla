----------------------------- MODULE TailProofs -----------------------------
(***************************************************************************)
(* What the callback of tail() is given, for any log, any size of the      *)
(* buffer and any callback, however the game's writes fall between fstat   *)
(* and read.                                                               *)
(***************************************************************************)
EXTENDS Tail, LineProofs

(* Until the file is emptied, a read starts at the first byte that is not  *)
(* consumed and the bytes before it end with a whole line.  Afterwards it  *)
(* may start beyond it, as pos is set back and the offset is not.          *)
InStep ==
  /\ start <= pos /\ pos <= Len(file)
  /\ pc = "read" => offset = pos
  /\ WithBytes(NoLines, Since(pos)) = Clean(delivered)
IInv == /\ FileOK
        /\ TypeOK
        /\ \A k \in 1..Len(delivered) : OfOneLine(delivered[k])
        /\ pc = "read" => pos <= offset
        /\ truncations = 0 => InStep
-----------------------------------------------------------------------------
(* The scan goes through all of the buffer. *)
LEMMA ScanFinds ==
  ASSUME NEW buf \in Seq(Byte)
  PROVE  FoundUpTo(buf, Scan(buf), Len(buf))
<1> DEFINE N == Len(buf)
           step == [p \in (1..N) \X ScanStates |-> ScanByte(buf, p[2], p[1])]
           Solves(scan) == scan = [here \in 0..N |-> IF here = 0 THEN ScanStart
                                                     ELSE ScanByte(buf, scan[here - 1], here)]
           scan == CHOOSE f : Solves(f)
<1>1. N \in Nat /\ ScanStart \in ScanStates
  BY NothingFound
<1>2. step \in [(1..N) \X ScanStates -> ScanStates]
  BY <1>1, ScanByteType
<1>3. \A n \in 1..N : \A s \in ScanStates : step[n, s] = ScanByte(buf, s, n)
  OBVIOUS
<1>4. PICK g : g \in [0..N -> ScanStates] /\ IsRecursion(g, N, ScanStart, step)
  <2> HIDE DEF step, N
  <2>1. \E g : g \in [0..N -> ScanStates] /\ IsRecursion(g, N, ScanStart, step)
    BY ONLY <1>1, <1>2, RecursionSolved
  <2> QED BY <2>1
<1>5. Solves(g)
  <2>1. \A n \in 0..N : n # 0 => n \in 1..N /\ n - 1 \in 0..N
    BY <1>1
  <2>2. \A n \in 0..N : n # 0 => step[n, g[n - 1]] = ScanByte(buf, g[n - 1], n)
    <3> HIDE DEF step, N
    <3> QED BY <1>3, <1>4, <2>1
  <2> HIDE DEF step, N
  <2> QED BY <1>4, <2>2 DEF IsRecursion
<1>6. Solves(scan)
  <2> HIDE DEF Solves
  <2> QED BY <1>5
<1>7. Scan(buf) = scan[N]
  BY DEF Scan
<1>8. /\ scan[0] = ScanStart
      /\ \A n \in 1..N : scan[n] = ScanByte(buf, scan[n - 1], n)
  <2>1. \A n \in 1..N : n \in 0..N /\ n # 0
    OBVIOUS
  <2>2. 0 \in 0..N
    BY <1>1
  <2> HIDE DEF scan
  <2> QED BY <1>6, <2>1, <2>2
<1> HIDE DEF scan, step, Solves
<1> DEFINE P == {n \in 0..N : FoundUpTo(buf, scan[n], n)}
<1>9. P = 0..N
  <2>1. 0 \in P /\ P \in SUBSET (0..N)
    BY <1>1, <1>8, NothingFound
  <2>2. ASSUME NEW n, n \in 1..N, n - 1 \in P
        PROVE  n \in P
    <3>1. FoundUpTo(buf, scan[n - 1], n - 1)
      BY <2>2
    <3>2. FoundUpTo(buf, scan[n], n)
      BY <1>8, <2>2, <3>1, ScanByteFound
    <3>3. n \in 0..N
      BY <2>2
    <3> QED BY <3>2, <3>3
  <2> HIDE DEF P, N
  <2> QED BY ONLY <1>1, <2>1, <2>2, BoundedInduction
<1>10. N \in P
  <2> HIDE DEF P
  <2> QED BY <1>1, <1>9
<1> QED BY <1>7, <1>10
-----------------------------------------------------------------------------
LEMMA InitIInv == Init => IInv
<1> SUFFICES ASSUME Init PROVE IInv
  OBVIOUS
<1>1. FileOK /\ truncations = 0
  BY FileStarts DEF Init
<1>2. /\ Len(file) \in 0..Len(Content) /\ file \in Seq(Byte)
      /\ Len(Content) \in Nat
  BY <1>1, ContentAssumption DEF FileOK
<1>3. /\ pos = start /\ start \in 0..Len(Content) /\ start <= Len(file)
      /\ offset \in 0..Len(Content)
  BY <1>2 DEF Init
<1>4. << >> \in Seq(Seq(Nat)) /\ Len(<< >>) = 0
  BY EmptySeq
<1>5. TypeOK /\ pc # "read" /\ delivered = << >>
  BY <1>3, <1>4 DEF Init, TypeOK
<1>6. WithBytes(NoLines, Since(pos)) = Clean(delivered)
  <2>1. Since(pos) = << >>
    BY <1>3, SubSeqEmpty DEF Since
  <2>2. NoLines \in Acc
    BY EmptySeq DEF NoLines, Acc
  <2> QED BY <1>5, <2>1, <2>2, WithNoBytes DEF NoLines, Clean
<1> QED BY <1>1, <1>3, <1>4, <1>5, <1>6 DEF IInv, InStep

(* The steps of the loop that hand over nothing.                            *)
LEMMA QuietStepKeeps ==
  ASSUME IInv, Stat \/ ReadNothing \/ Sleep \/ Leave
  PROVE  IInv'
<1> USE DEF IInv, TypeOK, InStep, Since, FileOK, fileVars
<1>1. CASE Stat
  <2>1. /\ UNCHANGED <<fileVars, config, start, keepgoing, delivered, refused>>
        /\ offset' = pos /\ pc' = "read"
        /\ pos' = IF pos > Len(file) THEN Len(file) ELSE pos
    BY <1>1 DEF Stat
  <2>2. Len(file) \in Nat
    OBVIOUS
  <2>3. pos' \in 0..Len(Content) /\ pos' <= offset'
    BY <2>1, <2>2
  <2>4. truncations' = 0 => pos' = pos
    BY <2>1, <2>2
  <2> QED BY <2>1, <2>3, <2>4
<1>2. CASE ReadNothing
  BY <1>2 DEF ReadNothing
<1>3. CASE Sleep
  BY <1>3 DEF Sleep
<1>4. CASE Leave
  BY <1>4 DEF Leave
<1> QED BY <1>1, <1>2, <1>3, <1>4

(* ReadSome hands over the whole lines of what it read, and goes on after   *)
(* the last of them.                                                        *)
LEMMA ReadSomeKeeps == ASSUME IInv, ReadSome PROVE IInv'
<1> DEFINE buf == ReadAt(offset, BufSize)
           s == Scan(buf)
<1>1. /\ buf # << >> /\ pc = "read" /\ pc' = "stat"
      /\ delivered' = delivered \o s.lines
      /\ keepgoing' = s.keepgoing
      /\ refused' = IF refused = 0 /\ s.refused # 0 THEN Len(delivered) + s.refused
                    ELSE refused
      /\ pos' = pos + s.last
      /\ UNCHANGED <<fileVars, config, start, offset>>
  BY DEF ReadSome, ScanLines, Consumed
<1>2. /\ FileOK /\ offset \in Nat /\ pos \in Nat /\ pos <= offset
      /\ delivered \in Seq(Seq(Nat)) /\ refused \in 0..Len(delivered)
      /\ Len(file) \in Nat /\ Len(file) <= Len(Content) /\ Len(Content) \in Nat
  <2>1. FileOK /\ offset \in Nat /\ pos \in Nat /\ pos <= offset
    BY <1>1 DEF IInv, TypeOK
  <2>2. delivered \in Seq(Seq(Nat)) /\ refused \in 0..Len(delivered)
    BY DEF IInv, TypeOK
  <2>3. Len(file) \in Nat /\ Len(file) <= Len(Content) /\ Len(Content) \in Nat
    BY <2>1, ContentAssumption DEF FileOK
  <2> QED BY <2>1, <2>2, <2>3
<1>3. buf \in Seq(Byte) /\ Tidy(buf) /\ offset + Len(buf) <= Len(file)
  <2>1. buf \in Seq(Byte) /\ Tidy(buf)
    BY <1>2, ReadReturns
  <2>2. offset + Len(buf) <= Len(file)
    BY <1>1, <1>2, ReadReturns
  <2> QED BY <2>1, <2>2
<1>4. Found(buf, s)
  BY <1>3, ScanFinds DEF FoundUpTo
<1>5. /\ s.keepgoing \in BOOLEAN /\ s.refused \in 0..Len(s.lines)
      /\ s.last \in 0..Len(buf) /\ s.lines \in Seq(Seq(Nat)) /\ Len(s.lines) \in Nat
      /\ \A k \in 1..Len(s.lines) : OfOneLine(s.lines[k])
  BY <1>3, <1>4 DEF Found, ScanStates
<1>6. truncations = 0 =>
        /\ start \in 0..offset /\ offset = pos
        /\ WithBytes(NoLines, SubSeq(file, start + 1, offset)) = Clean(delivered)
  BY <1>1 DEF IInv, TypeOK, InStep, Since
<1>7. truncations = 0 =>
        /\ offset + s.last \in offset..Len(file)
        /\ WithBytes(NoLines, SubSeq(file, start + 1, offset + s.last))
             = Clean(delivered \o s.lines)
  BY <1>1, <1>2, <1>4, <1>6, ReadDelivers
<1> HIDE DEF s, buf
<1>8. /\ delivered \o s.lines \in Seq(Seq(Nat))
      /\ Len(delivered \o s.lines) = Len(delivered) + Len(s.lines)
      /\ \A k \in 1..(Len(delivered) + Len(s.lines)) :
           (delivered \o s.lines)[k] = IF k <= Len(delivered) THEN delivered[k]
                                       ELSE s.lines[k - Len(delivered)]
  BY <1>2, <1>5, ConcatProperties
<1>9. TypeOK'
  <2>1. pos' \in 0..Len(Content)
    <3>1. Len(buf) \in Nat
      BY <1>3
    <3> QED BY <1>1, <1>2, <1>3, <1>5, <3>1
  <2>2. delivered' \in Seq(Seq(Nat)) /\ refused' \in 0..Len(delivered')
    <3>1. Len(delivered) \in Nat
      BY <1>2
    <3>2. delivered' = delivered \o s.lines
      BY <1>1
    <3>3. Len(delivered') = Len(delivered) + Len(s.lines)
      BY <1>8, <3>2
    <3>4. refused' \in 0..Len(delivered')
      BY <1>1, <1>2, <1>5, <3>1, <3>3
    <3> QED BY <1>8, <3>2, <3>4
  <2>3. keepgoing' \in BOOLEAN /\ pc' \in {"stat", "read", "sleep", "done"}
    BY <1>1, <1>5
  <2>4. /\ config' \in Configs /\ start' \in 0..Len(Content)
        /\ offset' \in 0..Len(Content)
    BY <1>1 DEF IInv, TypeOK
  <2> QED BY <2>1, <2>2, <2>3, <2>4 DEF TypeOK
<1>10. \A k \in 1..Len(delivered') : OfOneLine(delivered'[k])
  <2>1. Len(delivered) \in Nat
    BY <1>2
  <2>2. delivered' = delivered \o s.lines
    BY <1>1
  <2> SUFFICES ASSUME NEW k \in 1..(Len(delivered) + Len(s.lines))
               PROVE  OfOneLine((delivered \o s.lines)[k])
    BY <1>8, <2>2
  <2>3. CASE k <= Len(delivered)
    <3>1. k \in 1..Len(delivered)
      BY <2>1, <2>3
    <3> QED BY <1>8, <2>3, <3>1 DEF IInv
  <2>4. CASE ~(k <= Len(delivered))
    <3>1. k - Len(delivered) \in 1..Len(s.lines)
      BY <1>5, <2>1, <2>4
    <3> QED BY <1>5, <1>8, <2>4, <3>1
  <2> QED BY <2>3, <2>4
<1>11. truncations' = 0 => InStep'
  <2> SUFFICES ASSUME truncations' = 0 PROVE InStep'
    OBVIOUS
  <2>1. truncations = 0 /\ file' = file /\ start' = start
    BY <1>1 DEF fileVars
  <2>2. offset = pos /\ start <= pos /\ start \in Nat
    BY <1>6, <2>1
  <2>3. pos' = offset + s.last /\ pos' <= Len(file) /\ pos <= pos'
    BY <1>1, <1>2, <1>5, <1>7, <2>1, <2>2
  <2>4. start' <= pos' /\ pos' <= Len(file')
    BY <1>1, <1>2, <1>5, <2>1, <2>2, <2>3
  <2>5. Since(pos)' = SubSeq(file, start + 1, offset + s.last)
    BY <2>1, <2>3 DEF Since
  <2> QED BY <1>1, <1>7, <2>1, <2>4, <2>5 DEF InStep
<1>12. FileOK'
  BY <1>1, <1>2 DEF FileOK, fileVars
<1> QED BY <1>1, <1>9, <1>10, <1>11, <1>12 DEF IInv

(* The game appends to the file, or starts it over. *)
LEMMA GameKeeps == ASSUME IInv, Game PROVE IInv'
<1>1. UNCHANGED tailVars
  BY DEF Game
<1>2. FileOK'
  BY FileWritten, FileEmptied DEF Game, IInv
<1>3. TypeOK' /\ (pc = "read" => pos <= offset)'
  BY <1>1 DEF IInv, TypeOK, tailVars
<1>4. (\A k \in 1..Len(delivered) : OfOneLine(delivered[k]))'
  BY <1>1 DEF IInv, tailVars
<1>5. ASSUME truncations' = 0 PROVE InStep'
  <2>1. Write /\ truncations = 0
    <3>1. Write
      BY <1>5, FileEmptied DEF Game, IInv
    <3> QED BY <1>5, <3>1, FileWritten DEF IInv
  <2>2. PICK more \in Seq(Byte) : file' = file \o more
    BY <2>1, FileWritten DEF IInv
  <2>3. /\ file \in Seq(Byte) /\ start \in 0..Len(file) /\ pos \in start..Len(file)
        /\ Len(file) \in Nat
    BY <2>1 DEF IInv, InStep, TypeOK, FileOK
  <2>4. Len(file') = Len(file) + Len(more) /\ Len(more) \in Nat
    BY <2>2, <2>3, ConcatProperties
  <2>5. SubSeq(file', start + 1, pos) = SubSeq(file, start + 1, pos)
    BY <2>2, <2>3, PieceKept
  <2>6. Since(pos)' = Since(pos)
    BY <1>1, <2>5 DEF Since, tailVars
  <2>7. pos' <= Len(file')
    BY <1>1, <2>3, <2>4 DEF tailVars
  <2> QED BY <1>1, <2>1, <2>6, <2>7 DEF IInv, InStep, tailVars
<1> QED BY <1>2, <1>3, <1>4, <1>5 DEF IInv

LEMMA NextIInv == IInv /\ [Next]_vars => IInv'
<1> SUFFICES ASSUME IInv, [Next]_vars PROVE IInv'
  OBVIOUS
<1>1. CASE Loop
  BY <1>1, QuietStepKeeps, ReadSomeKeeps DEF Loop
<1>2. CASE Game
  BY <1>2, GameKeeps
<1>3. CASE UNCHANGED vars
  BY <1>3 DEF vars, fileVars, tailVars, IInv, TypeOK, InStep, Since, FileOK
<1> QED BY <1>1, <1>2, <1>3 DEF Next

LEMMA Invariant == Spec => []IInv
BY InitIInv, NextIInv, PTL DEF Spec

(* The loop keeps its positions within the file, and counts the lines it   *)
(* handed over (pos, and the answers of the callback).                     *)
THEOREM TypeCorrect == Spec => []TypeOK
<1>1. IInv => TypeOK
  BY DEF IInv
<1> QED BY Invariant, <1>1, PTL

(* Until the file is emptied the callback has been given the whole lines   *)
(* of the bytes up to pos and nothing else: none twice, none in part, none *)
(* left out, wherever the buffers ended (the scan in tail()).              *)
THEOREM WholeLinesDelivered == Spec => []ConsumedDelivered
<1>1. IInv => ConsumedDelivered
  BY DEF IInv, InStep, ConsumedDelivered, WholeLines, Clean
<1> QED BY Invariant, <1>1, PTL

(* Emptied or not, no line handed over has characters of two lines of the  *)
(* log: what a read returns is one piece of the file, and the scan ends a  *)
(* line at a CR as at a LF.                                                *)
THEOREM LinesNeverGlued == Spec => []NeverGlued
<1>1. ASSUME NEW line \in Seq(Nat), OfOneLine(line)
      PROVE  Cardinality(ToSet(line)) = 1
  <2>1. 1 \in 1..Len(line) /\ DOMAIN line = 1..Len(line)
    BY <1>1, EmptySeq DEF OfOneLine
  <2>2. ToSet(line) = {line[1]}
    BY <1>1, <2>1 DEF ToSet, OfOneLine
  <2> QED BY <2>2, FS_Singleton
<1>2. IInv => NeverGlued
  <2> SUFFICES ASSUME IInv, NEW k \in 1..Len(delivered)
               PROVE  Cardinality(ToSet(delivered[k])) = 1
    BY DEF NeverGlued
  <2>1. delivered[k] \in Seq(Nat) /\ OfOneLine(delivered[k])
    BY DEF IInv, TypeOK
  <2> QED BY <1>1, <2>1
<1> QED BY Invariant, <1>2, PTL
-----------------------------------------------------------------------------
(* tail() implements LineStream: the writes of the game make more lines    *)
(* whole, and ReadSome hands over lines that are.                          *)
Whole == WholeLines(Since(Len(file)))

LEMMA PieceOfFile ==
  ASSUME FileOK, NEW p \in 0..Len(file), NEW q \in p..Len(file)
  PROVE  SubSeq(file, p + 1, q) \in Seq(Byte)
<1>1. file \in Seq(Byte) /\ p + 1 \in 1..(Len(file) + 1) /\ q \in ((p + 1) - 1)..Len(file)
  BY DEF FileOK
<1> QED BY <1>1, PieceTidy

LEMMA LoopHandsOver ==
  ASSUME IInv, IInv', Loop, truncations' = 0
  PROVE  Stream!Next
<1>1. UNCHANGED <<file, start, truncations>>
  BY DEF Loop, Stat, ReadNothing, ReadSome, Sleep, Leave, fileVars
<1>2. UNCHANGED Whole
  BY <1>1 DEF Whole, Since
<1>3. /\ FileOK /\ InStep /\ delivered \in Seq(Seq(Nat)) /\ start \in 0..Len(file)
      /\ Len(file) \in Nat /\ pos \in start..Len(file)
  BY <1>1 DEF IInv, TypeOK, FileOK, InStep
<1>4. SubSeq(file, start + 1, Len(file)) \in Seq(Byte)
  <2>1. Len(file) \in start..Len(file)
    BY <1>3
  <2> QED BY <1>3, <2>1, PieceOfFile
<1>5. CASE ReadSome
  <2>1. PICK more \in Seq(Seq(Nat)) : delivered' = delivered \o more
    <3> DEFINE buf == ReadAt(offset, BufSize)
    <3>1. buf \in Seq(Byte)
      <4>1. offset \in Nat
        BY DEF IInv, TypeOK
      <4> QED BY <1>3, <4>1, ReadReturns
    <3>2. Scan(buf).lines \in Seq(Seq(Nat))
      BY <3>1, ScanFinds DEF FoundUpTo, Found
    <3> QED BY <1>5, <3>2 DEF ReadSome, ScanLines
  <2>2. IsPrefix(delivered, delivered')
    BY <1>3, <2>1, ConcatIsPrefix
  <2>3. delivered' = WholeLines(SubSeq(file, start + 1, pos'))
    BY <1>1 DEF IInv, InStep, Since, WholeLines, Clean
  <2>4. pos' \in start..Len(file)
    BY <1>1, <1>3 DEF IInv, InStep, TypeOK
  <2>5. Since(Len(file)) = SubSeq(file, start + 1, pos') \o SubSeq(file, pos' + 1, Len(file))
    <3>1. /\ file \in Seq(Byte) /\ start + 1 \in 1..(Len(file) + 1)
          /\ pos' \in ((start + 1) - 1)..Len(file) /\ Len(file) \in pos'..Len(file)
      BY <1>3, <2>4 DEF FileOK
    <3>2. SubSeq(file, start + 1, pos') \o SubSeq(file, pos' + 1, Len(file))
            = SubSeq(file, start + 1, Len(file))
      BY ONLY <3>1, ConcatAdjacentSubSeq
    <3> QED BY <3>2 DEF Since
  <2>6. /\ SubSeq(file, start + 1, pos') \in Seq(Byte)
        /\ SubSeq(file, pos' + 1, Len(file)) \in Seq(Byte)
    <3>1. pos' \in 0..Len(file) /\ Len(file) \in pos'..Len(file)
      BY <1>3, <2>4
    <3> QED BY <1>3, <2>4, <3>1, PieceOfFile
  <2>7. IsPrefix(delivered', Whole)
    BY <2>3, <2>5, <2>6, WholeLinesGrow DEF Whole
  <2>8. Stream!Hand
    BY <1>2, <2>2, <2>7 DEF Stream!Hand, Stream!IsPrefix, IsPrefix, Whole
  <2> QED BY <2>8 DEF Stream!Next
<1>6. CASE Stat \/ ReadNothing \/ Sleep \/ Leave
  <2>1. UNCHANGED delivered
    BY <1>6 DEF Stat, ReadNothing, Sleep, Leave
  <2>2. IsPrefix(Whole, Whole)
    <3>1. Whole \in Seq(Seq(Nat))
      BY <1>4, WholeLinesGrow, EmptySeq DEF Whole, Since
    <3>2. Len(Whole) \in Nat
      BY <3>1
    <3> QED BY <3>2, PrefixOfItself
  <2>3. Stream!Grow
    BY <1>2, <2>1, <2>2 DEF Stream!Grow, Stream!IsPrefix, IsPrefix, Whole
  <2> QED BY <2>3 DEF Stream!Next
<1> QED BY <1>5, <1>6 DEF Loop

LEMMA GameGrows ==
  ASSUME IInv, IInv', Game, truncations' = 0
  PROVE  Stream!Next
<1>1. UNCHANGED <<start, delivered>>
  BY DEF Game, tailVars
<1>2. Write /\ truncations = 0
  <2>1. Write
    BY FileEmptied DEF Game, IInv
  <2> QED BY <2>1, FileWritten DEF IInv
<1>3. PICK more \in Seq(Byte) : file' = file \o more
  BY <1>2, FileWritten DEF IInv
<1>4. file \in Seq(Byte) /\ start \in 0..Len(file) /\ Len(file) \in start..Len(file)
  BY <1>2 DEF IInv, InStep, TypeOK, FileOK
<1>5. SubSeq(file', start + 1, Len(file')) = SubSeq(file, start + 1, Len(file)) \o more
  BY <1>3, <1>4, PieceKept
<1>6. SubSeq(file, start + 1, Len(file)) \in Seq(Byte)
  BY <1>4, PieceOfFile DEF IInv
<1>7. IsPrefix(Whole, Whole')
  <2>1. Whole = WholeLines(SubSeq(file, start + 1, Len(file)))
    BY DEF Whole, Since
  <2>2. Whole' = WholeLines(SubSeq(file, start + 1, Len(file)) \o more)
    BY <1>1, <1>5 DEF Whole, Since
  <2> QED BY <1>6, <2>1, <2>2, WholeLinesGrow
<1>8. Stream!Grow
  BY <1>1, <1>7 DEF Stream!Grow, Stream!IsPrefix, IsPrefix, Whole
<1> QED BY <1>8 DEF Stream!Next

(* tail() hands over the lines of a growing file as LineStream promises.   *)
THEOREM ImplementsLineStream == Spec => RefinesLineStream
<1>1. Init => Stream!Init
  BY DEF Init, Stream!Init
<1>2. IInv /\ IInv' /\ [Next]_vars
        => [Stream!Next]_<<truncations = 0, WholeLines(Since(Len(file))), delivered>>
  <2> SUFFICES ASSUME IInv, IInv', [Next]_vars
               PROVE  [Stream!Next]_<<truncations = 0, WholeLines(Since(Len(file))), delivered>>
    OBVIOUS
  <2>1. CASE truncations' = 0 /\ Next
    BY <2>1, LoopHandsOver, GameGrows DEF Next
  <2>2. CASE truncations' # 0
    BY <2>2 DEF Stream!Next
  <2>3. CASE UNCHANGED vars
    BY <2>3 DEF vars, fileVars, tailVars, Since
  <2> QED BY <2>1, <2>2, <2>3
<1> QED BY Invariant, <1>1, <1>2, PTL DEF Spec, RefinesLineStream, Stream!Spec
=============================================================================
