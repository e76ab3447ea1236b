----------------------------- MODULE LineProofs -----------------------------
(***************************************************************************)
(* What the scan of a buffer finds, for every buffer: the whole lines of   *)
(* what it consumes, and that no end of line is left in the rest.  The     *)
(* recursive functions of LogFile are reasoned about through the equations *)
(* they solve (BytesRead, BytesReadBy), which an induction over the number *)
(* of bytes shows to have one solution.                                    *)
(***************************************************************************)
EXTENDS LineScan, SequenceTheorems, FiniteSetTheorems, WellFoundedInduction, TLAPS

Byte == (Nat \ {0}) \union {CR, LF}
Acc  == [line : Seq(Nat), lines : Seq(Seq(Nat))]
Clean(lines) == [line |-> << >>, lines |-> lines]

(* A set of numbers with 0 and with the successor of each is all of Nat;   *)
(* the set stands for the property that is proved by induction.            *)
LEMMA NumberInduction ==
  ASSUME NEW P \in SUBSET Nat, 0 \in P, \A n \in P : n + 1 \in P
  PROVE  P = Nat
<1> DEFINE R == OpToRel(<, Nat)
           T == Nat \ P
<1> SUFFICES ASSUME T # {} PROVE FALSE
  OBVIOUS
<1>1. \E n \in T : \A m \in T : <<m, n>> \notin R
  <2>1. IsWellFoundedOn(R, Nat)
    BY NatLessThanWellFounded
  <2> HIDE DEF R
  <2> QED BY <2>1, WFMin
<1>2. PICK n \in T : \A m \in T : <<m, n>> \notin R
  BY <1>1
<1>3. n - 1 \in Nat /\ (n - 1) + 1 = n
  <2>1. n # 0 /\ n \in Nat
    OBVIOUS
  <2> QED BY <2>1
<1>4. n - 1 \in T
  BY <1>3
<1>5. <<n - 1, n>> \in R
  BY <1>3 DEF OpToRel
<1> QED BY <1>2, <1>4, <1>5

(* The same up to a bound. *)
LEMMA BoundedInduction ==
  ASSUME NEW N \in Nat, NEW P \in SUBSET (0..N), 0 \in P,
         \A n \in 1..N : n - 1 \in P => n \in P
  PROVE  P = 0..N
<1> DEFINE Q == {n \in Nat : n <= N => n \in P}
<1>1. 0 \in Q
  OBVIOUS
<1>2. ASSUME NEW n \in Q
      PROVE  n + 1 \in Q
  <2>1. n \in Nat /\ n + 1 \in Nat /\ (n + 1) - 1 = n
    OBVIOUS
  <2>2. CASE n + 1 <= N
    <3>1. n + 1 \in 1..N /\ n <= N
      BY <2>1, <2>2
    <3>2. (n + 1) - 1 \in P
      BY <2>1, <3>1
    <3>3. n + 1 \in P
      BY <3>1, <3>2
    <3> QED BY <2>1, <3>3
  <2>3. CASE ~(n + 1 <= N)
    BY <2>1, <2>3
  <2> QED BY <2>2, <2>3
<1>3. Q = Nat
  <2> HIDE DEF Q
  <2>1. Q \in SUBSET Nat
    BY DEF Q
  <2> QED BY <1>1, <1>2, <2>1, NumberInduction
<1>4. \A n \in 0..N : n \in P
  <2>1. \A n \in 0..N : n \in Nat /\ n <= N
    OBVIOUS
  <2>2. \A n \in Nat : n \in Q
    BY <1>3
  <2> QED BY <2>1, <2>2 DEF Q
<1> QED BY <1>4

(* A recursive definition over 0..N has a solution. *)
IsRecursion(g, N, base, step) ==
  g = [n \in 0..N |-> IF n = 0 THEN base ELSE step[n, g[n - 1]]]

LEMMA RecursionSolved ==
  ASSUME NEW N, N \in Nat, NEW A, NEW base, base \in A,
         NEW step, step \in [(1..N) \X A -> A]
  PROVE  \E g : g \in [0..N -> A] /\ IsRecursion(g, N, base, step)
<1> DEFINE Solves(g, m) == /\ g \in [0..m -> A] /\ g[0] = base
                           /\ \A n \in 1..m : g[n] = step[n, g[n - 1]]
           P == {m \in 0..N : \E g : Solves(g, m)}
<1>1. 0 \in P
  <2> DEFINE g == [n \in 0..0 |-> base]
  <2>1. Solves(g, 0)
    OBVIOUS
  <2> HIDE DEF Solves, g
  <2> QED BY <2>1
<1>2. ASSUME NEW m \in 1..N, m - 1 \in P
      PROVE  m \in P
  <2>1. PICK g : Solves(g, m - 1)
    <3> HIDE DEF Solves
    <3> QED BY <1>2
  <2> DEFINE h == [n \in 0..m |-> IF n = m THEN step[m, g[m - 1]] ELSE g[n]]
  <2>2. g[m - 1] \in A /\ step[m, g[m - 1]] \in A
    <3>1. m - 1 \in 0..(m - 1)
      OBVIOUS
    <3>2. g[m - 1] \in A
      BY <2>1, <3>1
    <3>3. <<m, g[m - 1]>> \in (1..N) \X A
      BY <3>2
    <3> QED BY <3>2, <3>3
  <2>3. \A n \in 0..(m - 1) : g[n] \in A /\ h[n] = g[n] /\ n # m
    <3>1. \A n \in 0..(m - 1) : g[n] \in A
      BY <2>1
    <3>2. \A n \in 0..(m - 1) : n \in 0..m /\ n # m
      OBVIOUS
    <3> QED BY <3>1, <3>2
  <2>4. \A n \in 0..m : n = m \/ n \in 0..(m - 1)
    OBVIOUS
  <2>5. h \in [0..m -> A]
    BY <2>2, <2>3, <2>4
  <2>6. h[0] = base
    <3>1. 0 \in 0..(m - 1)
      OBVIOUS
    <3> QED BY <2>1, <2>3, <3>1
  <2>7. ASSUME NEW n \in 1..m
        PROVE  h[n] = step[n, h[n - 1]]
    <3>1. n - 1 \in 0..(m - 1)
      OBVIOUS
    <3>2. h[n - 1] = g[n - 1]
      BY <2>3, <3>1
    <3>3. CASE n = m
      <4>1. m \in 0..m
        OBVIOUS
      <4>2. h[m] = step[m, g[m - 1]]
        BY <4>1
      <4> QED BY <3>2, <3>3, <4>2
    <3>4. CASE n # m
      <4>1. n \in 1..(m - 1) /\ n \in 0..(m - 1)
        BY <3>4
      <4> QED BY <2>1, <2>3, <3>2, <4>1
    <3> QED BY <3>3, <3>4
  <2>8. Solves(h, m)
    BY <2>5, <2>6, <2>7
  <2> HIDE DEF Solves, h
  <2> QED BY <2>8
<1>3. P = 0..N
  <2>1. P \in SUBSET (0..N)
    OBVIOUS
  <2> HIDE DEF P
  <2> QED BY <1>1, <1>2, <2>1, BoundedInduction
<1>4. PICK g : Solves(g, N)
  <2> HIDE DEF Solves
  <2>1. N \in P
    <3> HIDE DEF P
    <3> QED BY <1>3
  <2> QED BY <2>1
<1>5. IsRecursion(g, N, base, step)
  <2>1. \A n \in 0..N : n = 0 \/ n \in 1..N
    OBVIOUS
  <2> QED BY <1>4, <2>1 DEF IsRecursion
<1> QED BY <1>4, <1>5

(* And only one: two functions that start alike and go on alike. *)
LEMMA RecursionUnique ==
  ASSUME NEW N \in Nat, NEW g, NEW h, g[0] = h[0],
         \A n \in 1..N : g[n - 1] = h[n - 1] => g[n] = h[n]
  PROVE  g[N] = h[N]
<1> DEFINE P == {n \in 0..N : g[n] = h[n]}
<1>1. 0 \in P /\ P \in SUBSET (0..N)
  OBVIOUS
<1>2. \A n \in 1..N : n - 1 \in P => n \in P
  OBVIOUS
<1>3. P = 0..N
  <2> HIDE DEF P
  <2> QED BY <1>1, <1>2, BoundedInduction
<1> QED BY <1>3
(* What is put after a sequence makes a longer one that starts alike. *)
LEMMA ConcatIsPrefix ==
  ASSUME NEW S, NEW s \in Seq(S), NEW t \in Seq(S)
  PROVE  IsPrefix(s, s \o t)
<1>1. /\ Len(s) \in Nat /\ Len(t) \in Nat /\ s \o t \in Seq(S)
      /\ Len(s \o t) = Len(s) + Len(t)
      /\ \A i \in 1..Len(s) : (s \o t)[i] = s[i]
  BY ConcatProperties
<1> DEFINE u == s \o t
           k == Len(s)
<1>2. /\ u \in Seq(S) /\ k \in Nat /\ k <= Len(u)
      /\ \A i \in 1..k : u[i] = s[i]
  BY <1>1
<1>3. SubSeq(s, 1, k) = s
  BY SubSeqFull
<1>4. SubSeq(u, 1, k) = s
  <2> HIDE DEF u
  <2>1. SubSeq(u, 1, k) \in Seq(S) /\ Len(SubSeq(u, 1, k)) = k
    BY <1>2
  <2>2. \A i \in 1..k : SubSeq(u, 1, k)[i] = s[i]
    BY <1>2
  <2> QED BY <2>1, <2>2, SeqEqual
<1> QED BY <1>2, <1>3, <1>4 DEF IsPrefix

LEMMA AppendConcat ==
  ASSUME NEW s \in Seq(Seq(Nat)), NEW t \in Seq(Seq(Nat)), NEW e \in Seq(Nat)
  PROVE  s \o t \in Seq(Seq(Nat)) /\ Append(s \o t, e) = s \o Append(t, e)
<1>1. /\ Append(t, e) = t \o <<e>> /\ <<e>> \in Seq(Seq(Nat))
  BY AppendProperties, AppendIsConcat
<1>2. s \o t \in Seq(Seq(Nat))
  BY ConcatProperties
<1>3. Append(s \o t, e) = (s \o t) \o <<e>>
  BY <1>2, AppendIsConcat
<1>4. (s \o t) \o <<e>> = s \o (t \o <<e>>)
  BY <1>1, ConcatAssociative
<1> QED BY <1>1, <1>2, <1>3, <1>4
-----------------------------------------------------------------------------
(* Reading the bytes of a run, one after the other. *)
LEMMA WithByteType ==
  ASSUME NEW acc \in Acc, NEW byte \in Byte
  PROVE  WithByte(acc, byte) \in Acc
<1>1. CASE IsEndOfLine(byte)
  <2>1. << >> \in Seq(Nat)
    BY EmptySeq
  <2> QED BY <1>1, <2>1 DEF WithByte, Acc
<1>2. CASE ~IsEndOfLine(byte)
  <2>1. byte \in Nat /\ acc.line \in Seq(Nat) /\ acc.lines \in Seq(Seq(Nat))
    BY <1>2 DEF Byte, IsEndOfLine, Acc
  <2>2. Append(acc.line, byte) \in Seq(Nat)
    BY <2>1
  <2>3. WithByte(acc, byte) = [line |-> Append(acc.line, byte), lines |-> acc.lines]
    BY <1>2 DEF WithByte, Acc
  <2> QED BY <2>1, <2>2, <2>3 DEF Acc
<1> QED BY <1>1, <1>2

ReadsBytes(read, acc, bytes) ==
  /\ read[0] = acc
  /\ \A n \in 1..Len(bytes) : read[n] = WithByte(read[n - 1], bytes[n])

LEMMA BytesRead ==
  ASSUME NEW acc \in Acc, NEW bytes \in Seq(Byte)
  PROVE  \E read : /\ ReadsBytes(read, acc, bytes)
                   /\ read \in [0..Len(bytes) -> Acc]
                   /\ WithBytes(acc, bytes) = read[Len(bytes)]
<1> DEFINE N == Len(bytes)
           step == [p \in (1..N) \X Acc |-> WithByte(p[2], bytes[p[1]])]
           Solves(read) == read = [n \in 0..N |-> IF n = 0 THEN acc
                                                  ELSE WithByte(read[n - 1], bytes[n])]
           read == CHOOSE f : Solves(f)
<1>1. N \in Nat /\ \A n \in 1..N : bytes[n] \in Byte
  OBVIOUS
<1>2. step \in [(1..N) \X Acc -> Acc]
  BY <1>1, WithByteType
<1>3. \A n \in 1..N : \A a \in Acc : step[n, a] = WithByte(a, bytes[n])
  OBVIOUS
<1>4. PICK g : g \in [0..N -> Acc] /\ IsRecursion(g, N, acc, step)
  <2> HIDE DEF step, N
  <2>1. acc \in Acc
    OBVIOUS
  <2>2. N \in Nat
    BY <1>1
  <2>3. \E g : g \in [0..N -> Acc] /\ IsRecursion(g, N, acc, step)
    BY ONLY <2>1, <2>2, <1>2, RecursionSolved
  <2> QED BY <2>3
<1>5. Solves(g)
  <2>1. \A n \in 0..N : n # 0 => n \in 1..N /\ n - 1 \in 0..N
    BY <1>1
  <2>2. \A n \in 0..N : n # 0 => step[n, g[n - 1]] = WithByte(g[n - 1], bytes[n])
    <3> HIDE DEF step, N
    <3> QED BY <1>3, <1>4, <2>1
  <2> HIDE DEF step, N
  <2> QED BY <1>4, <2>2 DEF IsRecursion
<1>6. Solves(read)
  <2> HIDE DEF Solves
  <2> QED BY <1>5
<1>7. WithBytes(acc, bytes) = read[N]
  BY DEF WithBytes
<1> HIDE DEF read, step
<1>8. ReadsBytes(read, acc, bytes)
  <2>1. read[0] = acc
    BY <1>1, <1>6
  <2>2. \A n \in 1..N : n \in 0..N /\ n # 0
    OBVIOUS
  <2> QED BY <1>6, <2>1, <2>2 DEF ReadsBytes
<1>9. ReadsBytes(g, acc, bytes)
  <2>1. g[0] = acc
    BY <1>1, <1>5
  <2>2. \A n \in 1..N : n \in 0..N /\ n # 0
    OBVIOUS
  <2> QED BY <1>5, <2>1, <2>2 DEF ReadsBytes
<1>10. read[N] = g[N]
  <2>1. read[0] = g[0]
    BY <1>8, <1>9 DEF ReadsBytes
  <2>2. \A n \in 1..N : read[n - 1] = g[n - 1] => read[n] = g[n]
    BY <1>8, <1>9 DEF ReadsBytes
  <2>3. N \in Nat
    BY <1>1
  <2> HIDE DEF Solves, N
  <2> QED BY ONLY <2>1, <2>2, <2>3, RecursionUnique
<1> QED BY <1>4, <1>7, <1>9, <1>10

(* Whatever solves the equations is what was read. *)
LEMMA BytesReadBy ==
  ASSUME NEW acc \in Acc, NEW bytes \in Seq(Byte), NEW h, ReadsBytes(h, acc, bytes)
  PROVE  WithBytes(acc, bytes) = h[Len(bytes)]
<1>1. PICK read : /\ ReadsBytes(read, acc, bytes)
                  /\ WithBytes(acc, bytes) = read[Len(bytes)]
  BY BytesRead
<1>2. Len(bytes) \in Nat
  OBVIOUS
<1>3. \A n \in 1..Len(bytes) : read[n - 1] = h[n - 1] => read[n] = h[n]
  BY <1>1 DEF ReadsBytes
<1>4. read[0] = h[0]
  BY <1>1 DEF ReadsBytes
<1>5. read[Len(bytes)] = h[Len(bytes)]
  BY ONLY <1>2, <1>3, <1>4, RecursionUnique
<1> QED BY <1>1, <1>5

LEMMA WithBytesType ==
  ASSUME NEW acc \in Acc, NEW bytes \in Seq(Byte)
  PROVE  WithBytes(acc, bytes) \in Acc
<1>1. Len(bytes) \in 0..Len(bytes)
  OBVIOUS
<1> QED BY <1>1, BytesRead

LEMMA WithNoBytes ==
  ASSUME NEW acc \in Acc
  PROVE  WithBytes(acc, << >>) = acc
<1>1. << >> \in Seq(Byte) /\ Len(<< >>) = 0
  BY EmptySeq
<1>2. PICK read : /\ ReadsBytes(read, acc, << >>)
                  /\ WithBytes(acc, << >>) = read[Len(<< >>)]
  BY <1>1, BytesRead
<1> QED BY <1>1, <1>2 DEF ReadsBytes

LEMMA WithOneByte ==
  ASSUME NEW acc \in Acc, NEW byte \in Byte
  PROVE  WithBytes(acc, <<byte>>) = WithByte(acc, byte)
<1>1. <<byte>> \in Seq(Byte) /\ Len(<<byte>>) = 1 /\ <<byte>>[1] = byte
  OBVIOUS
<1>2. PICK read : /\ ReadsBytes(read, acc, <<byte>>)
                  /\ WithBytes(acc, <<byte>>) = read[Len(<<byte>>)]
  BY <1>1, BytesRead
<1> QED BY <1>1, <1>2 DEF ReadsBytes

(* To read a run and then another is to read both. *)
LEMMA WithBytesConcat ==
  ASSUME NEW acc \in Acc, NEW s \in Seq(Byte), NEW t \in Seq(Byte)
  PROVE  WithBytes(acc, s \o t) = WithBytes(WithBytes(acc, s), t)
<1> DEFINE ns == Len(s)
           nt == Len(t)
           bytes == s \o t
<1>1. /\ ns \in Nat /\ nt \in Nat /\ bytes \in Seq(Byte) /\ Len(bytes) = ns + nt
      /\ \A n \in 1..(ns + nt) : bytes[n] = IF n <= ns THEN s[n] ELSE t[n - ns]
  BY ConcatProperties
<1>2. PICK g : ReadsBytes(g, acc, s) /\ WithBytes(acc, s) = g[ns]
  BY BytesRead
<1>3. PICK h : ReadsBytes(h, WithBytes(acc, s), t) /\ WithBytes(WithBytes(acc, s), t) = h[nt]
  BY WithBytesType, BytesRead
<1> DEFINE k == [n \in 0..(ns + nt) |-> IF n <= ns THEN g[n] ELSE h[n - ns]]
<1> HIDE DEF bytes
<1>4. k[0] = acc
  BY <1>1, <1>2 DEF ReadsBytes
<1>5. ASSUME NEW n \in 1..(ns + nt)
      PROVE  k[n] = WithByte(k[n - 1], bytes[n])
  <2>1. n \in 0..(ns + nt) /\ n - 1 \in 0..(ns + nt)
    BY <1>1
  <2>2. CASE n <= ns
    <3>1. n \in 1..ns /\ n - 1 <= ns
      BY <1>1, <2>2
    <3>2. k[n] = g[n] /\ k[n - 1] = g[n - 1] /\ bytes[n] = s[n]
      BY <1>1, <2>1, <2>2, <3>1
    <3> QED BY <1>2, <3>1, <3>2 DEF ReadsBytes
  <2>3. CASE ~(n <= ns)
    <3>1. n - ns \in 1..nt /\ (n - 1) - ns = (n - ns) - 1
      BY <1>1, <2>3
    <3>2. k[n] = h[n - ns] /\ bytes[n] = t[n - ns]
      BY <1>1, <2>1, <2>3
    <3>3. k[n - 1] = h[(n - ns) - 1]
      <4>1. CASE n - 1 <= ns
        <5>1. n - 1 = ns /\ (n - ns) - 1 = 0
          BY <1>1, <2>3, <4>1
        <5>2. k[n - 1] = g[ns] /\ h[0] = g[ns]
          BY <1>2, <1>3, <2>1, <4>1, <5>1 DEF ReadsBytes
        <5> QED BY <5>1, <5>2
      <4>2. CASE ~(n - 1 <= ns)
        BY <2>1, <3>1, <4>2
      <4> QED BY <4>1, <4>2
    <3> HIDE DEF k
    <3> QED BY <1>3, <3>1, <3>2, <3>3 DEF ReadsBytes
  <2> QED BY <2>2, <2>3
<1>6. k[ns + nt] = h[nt]
  <2>1. CASE nt = 0
    BY <1>1, <1>2, <1>3, <2>1 DEF ReadsBytes
  <2>2. CASE nt # 0
    <3>1. ns + nt \in 0..(ns + nt) /\ ~(ns + nt <= ns) /\ (ns + nt) - ns = nt
      BY <1>1, <2>2
    <3> QED BY <3>1
  <2> QED BY <2>1, <2>2
<1>7. WithBytes(acc, bytes) = k[ns + nt]
  <2> HIDE DEF k, ns, nt
  <2>1. ReadsBytes(k, acc, bytes)
    BY <1>1, <1>4, <1>5 DEF ReadsBytes
  <2> QED BY <1>1, <2>1, BytesReadBy
<1> QED BY <1>3, <1>6, <1>7 DEF bytes

(* A run without an end of line is a part of a line. *)
LEMMA CharsRead ==
  ASSUME NEW L \in Seq(Seq(Nat)), NEW bytes \in Seq(Byte),
         \A i \in 1..Len(bytes) : ~IsEndOfLine(bytes[i])
  PROVE  bytes \in Seq(Nat) /\ WithBytes(Clean(L), bytes) = [line |-> bytes, lines |-> L]
<1> DEFINE h == [n \in 0..Len(bytes) |-> [line |-> SubSeq(bytes, 1, n), lines |-> L]]
<1>1. Len(bytes) \in Nat /\ \A n \in 1..Len(bytes) : n \in 0..Len(bytes) /\ n - 1 \in 0..Len(bytes)
  OBVIOUS
<1>2. bytes \in Seq(Nat)
  <2>1. \A i \in 1..Len(bytes) : bytes[i] \in Nat
    <3>1. \A i \in 1..Len(bytes) : bytes[i] \in Byte
      OBVIOUS
    <3> QED BY <3>1 DEF Byte, IsEndOfLine
  <2> QED BY <2>1
<1>3. Clean(L) \in Acc
  BY EmptySeq DEF Clean, Acc
<1>4. h[0] = Clean(L)
  BY <1>1, SubSeqEmpty DEF Clean
<1>5. ASSUME NEW n, n \in 1..Len(bytes)
      PROVE  h[n] = WithByte(h[n - 1], bytes[n])
  <2>1. SubSeq(bytes, 1, n) = Append(SubSeq(bytes, 1, n - 1), bytes[n])
    BY <1>1, <1>5
  <2>2. h[n] = [line |-> SubSeq(bytes, 1, n), lines |-> L]
    BY <1>1, <1>5
  <2>3. h[n - 1] = [line |-> SubSeq(bytes, 1, n - 1), lines |-> L]
    BY <1>1, <1>5
  <2>4. ~IsEndOfLine(bytes[n])
    BY <1>5
  <2> DEFINE prev == [line |-> SubSeq(bytes, 1, n - 1), lines |-> L]
  <2>5. WithByte(prev, bytes[n])
          = [line |-> Append(SubSeq(bytes, 1, n - 1), bytes[n]), lines |-> L]
    <3>1. WithByte(prev, bytes[n])
            = [prev EXCEPT !.line = Append(SubSeq(bytes, 1, n - 1), bytes[n])]
      BY <2>4 DEF WithByte
    <3> QED BY <3>1
  <2> HIDE DEF h
  <2> QED BY <2>1, <2>2, <2>3, <2>5
<1>6. ReadsBytes(h, Clean(L), bytes)
  <2> HIDE DEF h
  <2> QED BY <1>4, <1>5 DEF ReadsBytes
<1>7. WithBytes(Clean(L), bytes) = h[Len(bytes)]
  <2> HIDE DEF h
  <2> QED BY <1>3, <1>6, BytesReadBy
<1>8. h[Len(bytes)] = [line |-> bytes, lines |-> L]
  BY <1>1, SubSeqFull
<1> QED BY <1>2, <1>7, <1>8

(* A run that an end of line ends is a line, unless it is empty. *)
LEMMA LineRead ==
  ASSUME NEW L \in Seq(Seq(Nat)), NEW bytes \in Seq(Byte), NEW byte \in Byte,
         \A i \in 1..Len(bytes) : ~IsEndOfLine(bytes[i]), IsEndOfLine(byte)
  PROVE  WithBytes(Clean(L), bytes \o <<byte>>)
           = Clean(IF bytes = << >> THEN L ELSE Append(L, bytes))
<1>1. Clean(L) \in Acc
  BY EmptySeq DEF Clean, Acc
<1>2. bytes \in Seq(Nat) /\ WithBytes(Clean(L), bytes) = [line |-> bytes, lines |-> L]
  BY CharsRead
<1>3. <<byte>> \in Seq(Byte)
  OBVIOUS
<1>4. WithBytes(Clean(L), bytes \o <<byte>>)
        = WithBytes(WithBytes(Clean(L), bytes), <<byte>>)
  BY <1>1, <1>3, WithBytesConcat
<1>5. [line |-> bytes, lines |-> L] \in Acc
  BY <1>2 DEF Acc
<1>6. WithBytes([line |-> bytes, lines |-> L], <<byte>>)
        = WithByte([line |-> bytes, lines |-> L], byte)
  BY <1>5, WithOneByte
<1>7. WithByte([line |-> bytes, lines |-> L], byte)
        = Clean(IF bytes = << >> THEN L ELSE Append(L, bytes))
  BY DEF WithByte, Clean
<1> QED BY <1>2, <1>4, <1>6, <1>7

(* The lines only grow at their end. *)
LEMMA LinesGrow ==
  ASSUME NEW acc \in Acc, NEW bytes \in Seq(Byte)
  PROVE  IsPrefix(acc.lines, WithBytes(acc, bytes).lines)
<1>1. PICK read : /\ ReadsBytes(read, acc, bytes)
                  /\ read \in [0..Len(bytes) -> Acc]
                  /\ WithBytes(acc, bytes) = read[Len(bytes)]
  BY BytesRead
<1> DEFINE Grown(n) == \E more \in Seq(Seq(Nat)) : read[n].lines = acc.lines \o more
           P == {n \in 0..Len(bytes) : Grown(n)}
<1>2. Len(bytes) \in Nat /\ acc.lines \in Seq(Seq(Nat))
  BY DEF Acc
<1>3. 0 \in P
  <2>1. acc.lines = acc.lines \o << >> /\ << >> \in Seq(Seq(Nat))
    BY <1>2, ConcatEmptySeq, EmptySeq
  <2> QED BY <1>1, <1>2, <2>1 DEF ReadsBytes
<1>4. ASSUME NEW n \in 1..Len(bytes), n - 1 \in P
      PROVE  n \in P
  <2>1. PICK more \in Seq(Seq(Nat)) : read[n - 1].lines = acc.lines \o more
    BY <1>4
  <2>2. n - 1 \in 0..Len(bytes) /\ n \in 0..Len(bytes)
    BY <1>2
  <2>3. read[n - 1] \in Acc /\ read[n] = WithByte(read[n - 1], bytes[n])
    BY <1>1, <2>2 DEF ReadsBytes
  <2>4. \/ read[n].lines = read[n - 1].lines
        \/ read[n].lines = Append(read[n - 1].lines, read[n - 1].line)
    BY <2>3 DEF WithByte, Acc
  <2>5. CASE read[n].lines = read[n - 1].lines
    BY <2>1, <2>2, <2>5
  <2>6. CASE read[n].lines = Append(read[n - 1].lines, read[n - 1].line)
    <3> DEFINE lines == acc.lines
               last  == <<read[n - 1].line>>
    <3>1. lines \in Seq(Seq(Nat)) /\ last \in Seq(Seq(Nat)) /\ read[n - 1].line \in Seq(Nat)
      BY <1>2, <2>3 DEF Acc
    <3>2. read[n].lines = (lines \o more) \o last
      <4>1. lines \o more \in Seq(Seq(Nat))
        BY <3>1, ConcatProperties
      <4> QED BY <2>1, <2>6, <3>1, <4>1, AppendIsConcat
    <3> HIDE DEF lines, last
    <3>3. (lines \o more) \o last = lines \o (more \o last)
      <4> DEFINE Q == Seq(Nat)
      <4>1. lines \in Seq(Q) /\ more \in Seq(Q) /\ last \in Seq(Q)
        BY <3>1
      <4> HIDE DEF Q
      <4> QED BY ONLY <4>1, ConcatAssociative, SMTT(60)
    <3>4. more \o last \in Seq(Seq(Nat))
      BY <3>1, ConcatProperties
    <3>5. Grown(n)
      BY <3>2, <3>3, <3>4 DEF lines
    <3> QED BY <2>2, <3>5
  <2> QED BY <2>4, <2>5, <2>6
<1>5. P = 0..Len(bytes)
  <2>1. P \in SUBSET (0..Len(bytes))
    OBVIOUS
  <2> HIDE DEF P
  <2> QED BY <1>2, <1>3, <1>4, <2>1, BoundedInduction
<1>6. Grown(Len(bytes))
  <2>1. Len(bytes) \in P
    <3> HIDE DEF P
    <3> QED BY <1>2, <1>5
  <2> QED BY <2>1
<1>7. PICK more \in Seq(Seq(Nat)) : WithBytes(acc, bytes).lines = acc.lines \o more
  BY <1>1, <1>6
<1>8. IsPrefix(acc.lines, acc.lines \o more)
  BY <1>2, ConcatIsPrefix
<1> QED BY <1>7, <1>8
-----------------------------------------------------------------------------
(* Neighbours in a run of bytes are of one line, or one of them ends a line.*)
Tidy(bytes) ==
  \A i \in 1..(Len(bytes) - 1) :
    bytes[i] > 0 /\ bytes[i + 1] > 0 => bytes[i] = bytes[i + 1]
OfOneLine(line) == line # << >> /\ \A i \in 1..Len(line) : line[i] = line[1]

LEMMA PieceTidy ==
  ASSUME NEW s \in Seq(Byte), NEW m \in 1..(Len(s) + 1), NEW n \in (m - 1)..Len(s)
  PROVE  /\ SubSeq(s, m, n) \in Seq(Byte)
         /\ Len(SubSeq(s, m, n)) = n - m + 1
         /\ \A i \in 1..(n - m + 1) : SubSeq(s, m, n)[i] = s[m + i - 1]
         /\ Tidy(s) => Tidy(SubSeq(s, m, n))
<1> DEFINE t == SubSeq(s, m, n)
<1>1. m \in Int /\ n \in Int /\ \A i \in m..n : s[i] \in Byte
  OBVIOUS
<1>2. /\ t \in Seq(Byte)
      /\ Len(t) = IF m <= n THEN n - m + 1 ELSE 0
      /\ \A i \in 1..(n - m + 1) : t[i] = s[m + i - 1]
  BY <1>1, SubSeqProperties
<1> HIDE DEF t
<1>3. Len(t) = n - m + 1
  BY <1>2
<1>4. ASSUME Tidy(s) PROVE Tidy(t)
  <2> SUFFICES ASSUME NEW i \in 1..(Len(t) - 1), t[i] > 0, t[i + 1] > 0
               PROVE  t[i] = t[i + 1]
    BY DEF Tidy
  <2>1. i \in 1..(n - m + 1) /\ i + 1 \in 1..(n - m + 1)
    BY <1>3
  <2>2. t[i] = s[m + i - 1] /\ t[i + 1] = s[m + (i + 1) - 1]
    BY <1>2, <2>1
  <2>3. m + i - 1 \in 1..(Len(s) - 1) /\ m + (i + 1) - 1 = (m + i - 1) + 1
    BY <1>3
  <2> QED BY <1>4, <2>2, <2>3 DEF Tidy
<1> QED BY <1>2, <1>3, <1>4 DEF t

(* Where a tidy run has no end of line it is of one line. *)
LEMMA CharsOfOneLine ==
  ASSUME NEW bytes \in Seq(Byte), bytes # << >>, Tidy(bytes),
         \A i \in 1..Len(bytes) : ~IsEndOfLine(bytes[i])
  PROVE  OfOneLine(bytes)
<1> DEFINE N == Len(bytes) - 1
           P == {n \in 0..N : bytes[n + 1] = bytes[1]}
<1>1. N \in Nat
  BY EmptySeq
<1>2. 0 \in P /\ P \in SUBSET (0..N)
  BY <1>1
<1>3. ASSUME NEW n \in 1..N, n - 1 \in P
      PROVE  n \in P
  <2>1. n \in 1..Len(bytes) /\ n + 1 \in 1..Len(bytes) /\ n \in 0..N /\ (n - 1) + 1 = n
    BY <1>1
  <2>2. bytes[n] \in Byte /\ bytes[n + 1] \in Byte
    BY <2>1
  <2>3. bytes[n] > 0 /\ bytes[n + 1] > 0
    BY <2>1, <2>2 DEF Byte, IsEndOfLine
  <2>4. bytes[n] = bytes[n + 1]
    BY <2>3 DEF Tidy
  <2> QED BY <1>3, <2>1, <2>4
<1>4. P = 0..N
  <2> HIDE DEF P, N
  <2> QED BY ONLY <1>1, <1>2, <1>3, BoundedInduction
<1>5. ASSUME NEW i \in 1..Len(bytes)
      PROVE  bytes[i] = bytes[1]
  <2>1. i - 1 \in 0..N /\ (i - 1) + 1 = i
    BY <1>1
  <2>2. i - 1 \in P
    <3> HIDE DEF P
    <3> QED BY <1>4, <2>1
  <2> QED BY <2>1, <2>2
<1> QED BY <1>5 DEF OfOneLine
-----------------------------------------------------------------------------
(* What the scan of a buffer has found when it is done with a part of it.  *)
ScanStates == [last : Nat, keepgoing : BOOLEAN, lines : Seq(Seq(Int)), refused : Nat]

Found(buf, s) ==
  /\ s \in ScanStates
  /\ s.lines \in Seq(Seq(Nat))
  /\ s.last \in 0..Len(buf)
  /\ \A L \in Seq(Seq(Nat)) :
       WithBytes(Clean(L), SubSeq(buf, 1, s.last)) = Clean(L \o s.lines)
  /\ s.refused <= Len(s.lines)
  /\ s.refused = 0 => s.keepgoing
  /\ Tidy(buf) => \A k \in 1..Len(s.lines) : OfOneLine(s.lines[k])
FoundUpTo(buf, s, here) ==
  /\ Found(buf, s)
  /\ s.last <= here
  /\ \A i \in (s.last + 1)..here : ~IsEndOfLine(buf[i])

LEMMA GivenType ==
  ASSUME NEW buf \in Seq(Byte), NEW s \in ScanStates, NEW here \in 1..Len(buf)
  PROVE  Given(s, SubSeq(buf, s.last + 1, here - 1)) \in ScanStates
<1>1. s.last \in Nat /\ s.lines \in Seq(Seq(Int)) /\ s.refused \in Nat
  BY DEF ScanStates
<1> DEFINE line == SubSeq(buf, s.last + 1, here - 1)
           given == Given(s, line)
<1>2. line \in Seq(Int)
  <2>1. \A i \in (s.last + 1)..(here - 1) : buf[i] \in Int
    <3>1. \A i \in 1..Len(buf) : buf[i] \in Byte
      OBVIOUS
    <3>2. \A i \in (s.last + 1)..(here - 1) : i \in 1..Len(buf)
      BY <1>1
    <3> QED BY <3>1, <3>2 DEF Byte, CR, LF
  <2> QED BY <1>1, <2>1, SubSeqProperties
<1> HIDE DEF line
<1>3. Append(s.lines, line) \in Seq(Seq(Int)) /\ Len(s.lines) + 1 \in Nat
  BY <1>1, <1>2
<1>4. Callback(line) \in BOOLEAN
  BY DEF Callback
<1> DEFINE lines == Append(s.lines, line)
           refused == IF s.refused = 0 /\ ~Callback(line) THEN Len(s.lines) + 1
                      ELSE s.refused
<1>5. lines \in Seq(Seq(Int)) /\ refused \in Nat
  BY <1>1, <1>3
<1>6. given = [s EXCEPT !.keepgoing = Callback(line), !.lines = lines, !.refused = refused]
  BY DEF Given
<1> HIDE DEF given, lines, refused
<1>7. given \in ScanStates
  BY <1>4, <1>5, <1>6 DEF ScanStates
<1> QED BY <1>7 DEF given, line

LEMMA ScanByteType ==
  ASSUME NEW buf \in Seq(Byte), NEW s \in ScanStates, NEW here \in 1..Len(buf)
  PROVE  ScanByte(buf, s, here) \in ScanStates
<1>1. ASSUME NEW t \in ScanStates
      PROVE  [t EXCEPT !.last = here] \in ScanStates
  <2>1. here \in Nat
    OBVIOUS
  <2> QED BY <2>1 DEF ScanStates
<1> QED BY <1>1, GivenType DEF ScanByte

LEMMA NothingFound ==
  ASSUME NEW buf \in Seq(Byte)
  PROVE  FoundUpTo(buf, ScanStart, 0) /\ ScanStart \in ScanStates
<1>1. << >> \in Seq(Seq(Nat)) /\ << >> \in Seq(Seq(Int)) /\ Len(<< >>) = 0
  BY EmptySeq
<1>2. ScanStart \in ScanStates
  BY <1>1 DEF ScanStart, ScanStates
<1>3. ASSUME NEW L \in Seq(Seq(Nat))
      PROVE  WithBytes(Clean(L), SubSeq(buf, 1, ScanStart.last)) = Clean(L \o ScanStart.lines)
  <2>1. SubSeq(buf, 1, 0) = << >>
    BY SubSeqEmpty
  <2>2. L \o << >> = L
    BY ConcatEmptySeq
  <2>3. Clean(L) \in Acc
    BY EmptySeq DEF Clean, Acc
  <2> QED BY <2>1, <2>2, <2>3, WithNoBytes DEF ScanStart
<1> QED BY <1>1, <1>2, <1>3 DEF FoundUpTo, Found, ScanStart

(* A byte that ends a line, after some that do not. *)
LEMMA LineGiven ==
  ASSUME NEW s \in ScanStates, NEW line
  PROVE  LET given == Given(s, line) IN
         /\ given.last = s.last
         /\ given.keepgoing = Callback(line)
         /\ given.lines = Append(s.lines, line)
         /\ given.refused = IF s.refused = 0 /\ ~Callback(line) THEN Len(s.lines) + 1
                            ELSE s.refused
BY DEF Given, ScanStates

LEMMA NextLineRead ==
  ASSUME NEW buf \in Seq(Byte), NEW here \in 1..Len(buf), NEW last \in 0..(here - 1),
         \A i \in (last + 1)..(here - 1) : ~IsEndOfLine(buf[i]), IsEndOfLine(buf[here]),
         NEW L \in Seq(Seq(Nat)), NEW M \in Seq(Seq(Nat)),
         WithBytes(Clean(L), SubSeq(buf, 1, last)) = Clean(M)
  PROVE  LET line == SubSeq(buf, last + 1, here - 1)
         IN  WithBytes(Clean(L), SubSeq(buf, 1, here))
               = Clean(IF line = << >> THEN M ELSE Append(M, line))
<1> DEFINE line == SubSeq(buf, last + 1, here - 1)
           read == SubSeq(buf, 1, last)
           byte == buf[here]
<1>1. /\ last + 1 \in 1..(Len(buf) + 1) /\ here - 1 \in ((last + 1) - 1)..Len(buf)
      /\ last \in (1 - 1)..Len(buf) /\ 1 \in 1..(Len(buf) + 1)
      /\ (here - 1) - (last + 1) + 1 = here - 1 - last
      /\ \A i \in 1..(here - 1 - last) : (last + 1) + i - 1 = last + i
  OBVIOUS
<1>2. /\ line \in Seq(Byte) /\ Len(line) = here - 1 - last
      /\ \A i \in 1..Len(line) : line[i] = buf[last + i]
  BY <1>1, PieceTidy
<1>3. read \in Seq(Byte)
  BY <1>1, PieceTidy
<1>4. SubSeq(buf, 1, here) = read \o (line \o <<byte>>)
  <2>1. SubSeq(buf, last + 1, here) = line \o <<byte>>
    <3>1. last + 1 \in 1..Len(buf) /\ here \in (last + 1)..Len(buf)
      OBVIOUS
    <3> QED BY <3>1, SubSeqRecursiveSecond
  <2>2. read \o SubSeq(buf, last + 1, here) = SubSeq(buf, 1, here)
    <3>1. here \in last..Len(buf)
      OBVIOUS
    <3> QED BY <1>1, <3>1, ConcatAdjacentSubSeq
  <2> QED BY <2>1, <2>2
<1>5. \A i \in 1..Len(line) : ~IsEndOfLine(line[i])
  <2>1. \A i \in 1..Len(line) : last + i \in (last + 1)..(here - 1)
    BY <1>1, <1>2
  <2> HIDE DEF line
  <2> QED BY <1>2, <2>1
<1>6. byte \in Byte
  OBVIOUS
<1>7. IsEndOfLine(byte) /\ WithBytes(Clean(L), read) = Clean(M)
  OBVIOUS
<1> HIDE DEF line, read, byte
<1>8. WithBytes(Clean(M), line \o <<byte>>)
        = Clean(IF line = << >> THEN M ELSE Append(M, line))
  BY <1>2, <1>5, <1>6, <1>7, LineRead
<1>9. line \o <<byte>> \in Seq(Byte)
  BY <1>2, <1>6, ConcatProperties
<1>10. Clean(L) \in Acc
  BY EmptySeq DEF Clean, Acc
<1>11. WithBytes(Clean(L), read \o (line \o <<byte>>))
         = WithBytes(WithBytes(Clean(L), read), line \o <<byte>>)
  BY <1>3, <1>9, <1>10, WithBytesConcat
<1> QED BY <1>4, <1>7, <1>8, <1>11 DEF line

LEMMA EndOfLineFound ==
  ASSUME NEW buf \in Seq(Byte), NEW here \in 1..Len(buf), NEW s,
         FoundUpTo(buf, s, here - 1), IsEndOfLine(buf[here]), s.last + 1 < here
  PROVE  Found(buf, ScanByte(buf, s, here)) /\ ScanByte(buf, s, here).last = here
<1> DEFINE line == SubSeq(buf, s.last + 1, here - 1)
           given == Given(s, line)
           next == [given EXCEPT !.last = here]
<1>1. /\ s \in ScanStates /\ s.lines \in Seq(Seq(Nat)) /\ s.last \in 0..(here - 2)
      /\ s.refused \in Nat /\ s.refused <= Len(s.lines)
  BY DEF FoundUpTo, Found, ScanStates
<1>2. ScanByte(buf, s, here) = next /\ next \in ScanStates
  <2>1. ScanByte(buf, s, here) = next
    BY DEF ScanByte
  <2> QED BY <1>1, <2>1, ScanByteType
<1>3. /\ line \in Seq(Byte) /\ Len(line) = here - 1 - s.last
      /\ \A i \in 1..Len(line) : line[i] = buf[s.last + i]
      /\ Tidy(buf) => Tidy(line)
  <2>1. s.last + 1 \in 1..(Len(buf) + 1) /\ here - 1 \in ((s.last + 1) - 1)..Len(buf)
    BY <1>1
  <2>2. (here - 1) - (s.last + 1) + 1 = here - 1 - s.last
    BY <1>1
  <2>3. \A i \in 1..(here - 1 - s.last) : (s.last + 1) + i - 1 = s.last + i
    BY <1>1
  <2> QED BY <2>1, <2>2, <2>3, PieceTidy
<1> HIDE DEF line
<1>4. \A i \in 1..Len(line) : ~IsEndOfLine(line[i])
  <2>1. \A i \in 1..Len(line) : s.last + i \in (s.last + 1)..(here - 1)
    BY <1>1, <1>3
  <2> QED BY <1>3, <2>1 DEF FoundUpTo
<1>5. line \in Seq(Nat)
  BY <1>3, <1>4, CharsRead, EmptySeq
<1>6. line # << >>
  BY <1>1, <1>3
<1>7. /\ next.last = here /\ next.keepgoing = Callback(line)
      /\ next.lines = Append(s.lines, line)
      /\ next.refused = IF s.refused = 0 /\ ~Callback(line) THEN Len(s.lines) + 1
                        ELSE s.refused
  <2>1. given \in ScanStates
    BY <1>1, <1>2 DEF Given, ScanStates
  <2> HIDE DEF given
  <2>2. /\ next.last = here /\ next.keepgoing = given.keepgoing
        /\ next.lines = given.lines /\ next.refused = given.refused
    BY <2>1 DEF ScanStates
  <2> QED BY <1>1, <2>2, LineGiven DEF given
<1>8. /\ Append(s.lines, line) \in Seq(Seq(Nat))
      /\ Len(Append(s.lines, line)) = Len(s.lines) + 1
      /\ \A k \in 1..Len(s.lines) : Append(s.lines, line)[k] = s.lines[k]
      /\ Append(s.lines, line)[Len(s.lines) + 1] = line
  BY <1>1, <1>5, AppendProperties
<1>9. ASSUME NEW L \in Seq(Seq(Nat))
      PROVE  WithBytes(Clean(L), SubSeq(buf, 1, here)) = Clean(L \o Append(s.lines, line))
  <2>1. L \o s.lines \in Seq(Seq(Nat)) /\ Append(L \o s.lines, line) = L \o Append(s.lines, line)
    BY <1>1, <1>5, AppendConcat
  <2>2. WithBytes(Clean(L), SubSeq(buf, 1, s.last)) = Clean(L \o s.lines)
    BY DEF FoundUpTo, Found
  <2>3. s.last \in 0..(here - 1) /\ \A i \in (s.last + 1)..(here - 1) : ~IsEndOfLine(buf[i])
    BY <1>1 DEF FoundUpTo
  <2>4. WithBytes(Clean(L), SubSeq(buf, 1, here)) = Clean(Append(L \o s.lines, line))
    BY <1>6, <2>1, <2>2, <2>3, NextLineRead DEF line
  <2> QED BY <2>1, <2>4
<1>10. ASSUME Tidy(buf), NEW k \in 1..Len(next.lines)
       PROVE  OfOneLine(next.lines[k])
  <2>1. OfOneLine(line)
    BY <1>3, <1>4, <1>6, <1>10, CharsOfOneLine
  <2>2. \A j \in 1..Len(s.lines) : OfOneLine(s.lines[j])
    BY <1>10 DEF FoundUpTo, Found
  <2> HIDE DEF next
  <2>3. k \in 1..Len(s.lines) \/ k = Len(s.lines) + 1
    BY <1>1, <1>7, <1>8
  <2> QED BY <1>7, <1>8, <2>1, <2>2, <2>3
<1>11. next.refused <= Len(next.lines) /\ (next.refused = 0 => next.keepgoing)
  <2> HIDE DEF next
  <2>1. Callback(line) \in BOOLEAN
    BY DEF Callback
  <2> QED BY <1>1, <1>7, <1>8, <2>1
<1> HIDE DEF next
<1> QED BY <1>2, <1>7, <1>8, <1>9, <1>10, <1>11 DEF Found

(* Whatever the byte is, one more of them is done with. *)
LEMMA ScanByteFound ==
  ASSUME NEW buf \in Seq(Byte), NEW here \in 1..Len(buf), NEW s,
         FoundUpTo(buf, s, here - 1)
  PROVE  FoundUpTo(buf, ScanByte(buf, s, here), here)
<1>1. /\ s \in ScanStates /\ s.lines \in Seq(Seq(Nat)) /\ s.last \in 0..(here - 1)
      /\ \A i \in (s.last + 1)..(here - 1) : ~IsEndOfLine(buf[i])
  BY DEF FoundUpTo, Found
<1>2. CASE ~IsEndOfLine(buf[here])
  <2>1. ScanByte(buf, s, here) = s
    BY <1>2 DEF ScanByte
  <2>2. \A i \in (s.last + 1)..here : i = here \/ i \in (s.last + 1)..(here - 1)
    BY <1>1
  <2>3. \A i \in (s.last + 1)..here : ~IsEndOfLine(buf[i])
    BY <1>1, <1>2, <2>2
  <2>4. s.last <= here
    BY <1>1
  <2> QED BY <2>1, <2>3, <2>4 DEF FoundUpTo
<1>3. CASE IsEndOfLine(buf[here]) /\ s.last + 1 < here
  <2> DEFINE next == ScanByte(buf, s, here)
  <2>1. Found(buf, next) /\ next.last = here
    BY <1>3, EndOfLineFound
  <2> HIDE DEF next
  <2> QED BY <2>1 DEF FoundUpTo, next
<1>4. CASE IsEndOfLine(buf[here]) /\ ~(s.last + 1 < here)
  <2> DEFINE next == [s EXCEPT !.last = here]
  <2>1. ScanByte(buf, s, here) = next
    BY <1>4 DEF ScanByte
  <2>2. next \in ScanStates
    BY <1>1, <2>1, ScanByteType
  <2>3. /\ next.last = here /\ next.keepgoing = s.keepgoing
        /\ next.lines = s.lines /\ next.refused = s.refused
    BY <1>1 DEF ScanStates
  <2>4. ASSUME NEW L \in Seq(Seq(Nat))
        PROVE  WithBytes(Clean(L), SubSeq(buf, 1, here)) = Clean(L \o s.lines)
    <3>1. L \o s.lines \in Seq(Seq(Nat))
      BY <1>1, ConcatProperties
    <3>2. WithBytes(Clean(L), SubSeq(buf, 1, s.last)) = Clean(L \o s.lines)
      BY DEF FoundUpTo, Found
    <3>3. SubSeq(buf, s.last + 1, here - 1) = << >>
      BY <1>1, <1>4, SubSeqEmpty
    <3> QED BY <1>1, <1>4, <3>1, <3>2, <3>3, NextLineRead
  <2>5. Found(buf, next)
    <3>1. here \in 0..Len(buf)
      OBVIOUS
    <3> HIDE DEF next
    <3> QED BY <1>1, <2>2, <2>3, <2>4, <3>1 DEF FoundUpTo, Found
  <2> HIDE DEF next
  <2> QED BY <2>1, <2>3, <2>5 DEF FoundUpTo
<1>5. s.last + 1 < here \/ ~(s.last + 1 < here)
  OBVIOUS
<1> QED BY <1>2, <1>3, <1>4, <1>5
-----------------------------------------------------------------------------
(* The file and what the game is still to write are a piece of the content. *)
FileOK == /\ file \in Seq(Byte) /\ toWrite \in Seq(Byte)
          /\ Len(file) + Len(toWrite) <= Len(Content)
          /\ Tidy(file \o toWrite)
          /\ truncations \in Nat

LEMMA FileStarts == FileInit => FileOK /\ truncations = 0
<1> SUFFICES ASSUME FileInit PROVE FileOK /\ truncations = 0
  OBVIOUS
<1>1. Content \in Seq(Byte) /\ Tidy(Content)
  BY ContentAssumption DEF Byte, Tidy
<1>2. PICK n \in 0..Len(Content) : /\ file = SubSeq(Content, 1, n)
                                   /\ toWrite = SubSeq(Content, n + 1, Len(Content))
  BY DEF FileInit
<1>3. /\ 1 \in 1..(Len(Content) + 1) /\ n \in (1 - 1)..Len(Content)
      /\ n + 1 \in 1..(Len(Content) + 1) /\ Len(Content) \in ((n + 1) - 1)..Len(Content)
      /\ Len(Content) \in n..Len(Content)
  BY <1>1
<1>4. file \in Seq(Byte) /\ Len(file) = n
  BY <1>1, <1>2, <1>3, PieceTidy
<1>5. toWrite \in Seq(Byte) /\ Len(toWrite) = Len(Content) - n
  BY <1>1, <1>2, <1>3, PieceTidy
<1>6. file \o toWrite = SubSeq(Content, 1, Len(Content))
  BY <1>1, <1>2, <1>3, ConcatAdjacentSubSeq
<1>7. file \o toWrite = Content
  BY <1>1, <1>6, SubSeqFull
<1>8. Len(file) + Len(toWrite) <= Len(Content)
  BY <1>1, <1>3, <1>4, <1>5
<1>9. truncations = 0
  BY DEF FileInit
<1> QED BY <1>1, <1>4, <1>5, <1>7, <1>8, <1>9 DEF FileOK

LEMMA FileTidy == FileOK => Tidy(file)
<1> SUFFICES ASSUME FileOK PROVE Tidy(file)
  OBVIOUS
<1> DEFINE both == file \o toWrite
<1>1. /\ file \in Seq(Byte) /\ Len(file) \in Nat /\ Len(toWrite) \in Nat
      /\ Len(both) = Len(file) + Len(toWrite)
      /\ \A i \in 1..Len(file) : both[i] = file[i]
  <2>1. file \in Seq(Byte) /\ toWrite \in Seq(Byte)
    BY DEF FileOK
  <2>2. /\ Len(both) = Len(file) + Len(toWrite)
        /\ \A i \in 1..(Len(file) + Len(toWrite)) :
             both[i] = IF i <= Len(file) THEN file[i] ELSE toWrite[i - Len(file)]
    BY <2>1, ConcatProperties
  <2> HIDE DEF both
  <2>3. \A i \in 1..Len(file) : i \in 1..(Len(file) + Len(toWrite)) /\ i <= Len(file)
    BY <2>1
  <2> QED BY <2>1, <2>2, <2>3
<1>2. Tidy(both)
  BY DEF FileOK
<1> HIDE DEF both
<1>3. \A i \in 1..(Len(file) - 1) :
        i \in 1..(Len(both) - 1) /\ i \in 1..Len(file) /\ i + 1 \in 1..Len(file)
  BY <1>1
<1> QED BY <1>1, <1>2, <1>3 DEF Tidy

LEMMA FileWritten ==
  ASSUME FileOK, Write
  PROVE  /\ FileOK' /\ truncations' = truncations
         /\ \E more \in Seq(Byte) : file' = file \o more
<1>1. PICK n \in 1..Len(toWrite) :
        /\ file' = file \o SubSeq(toWrite, 1, n)
        /\ toWrite' = SubSeq(toWrite, n + 1, Len(toWrite))
  BY DEF Write
<1> DEFINE more == SubSeq(toWrite, 1, n)
           rest == SubSeq(toWrite, n + 1, Len(toWrite))
<1>2. /\ 1 \in 1..(Len(toWrite) + 1) /\ n \in (1 - 1)..Len(toWrite)
      /\ n + 1 \in 1..(Len(toWrite) + 1) /\ Len(toWrite) \in ((n + 1) - 1)..Len(toWrite)
      /\ Len(toWrite) \in n..Len(toWrite)
  BY DEF FileOK
<1>3. more \in Seq(Byte) /\ Len(more) = n
  BY <1>2, PieceTidy DEF FileOK
<1>4. rest \in Seq(Byte) /\ Len(rest) = Len(toWrite) - n
  BY <1>2, PieceTidy DEF FileOK
<1>5. more \o rest = toWrite
  BY <1>2, ConcatAdjacentSubSeq, SubSeqFull DEF FileOK
<1> HIDE DEF more, rest
<1>6. file \in Seq(Byte) /\ Len(file) \in Nat
  BY DEF FileOK
<1>7. (file \o more) \o rest = file \o toWrite
  <2>1. (file \o more) \o rest = file \o (more \o rest)
    BY ONLY <1>3, <1>4, <1>6, ConcatAssociative
  <2> QED BY <1>5, <2>1
<1>8. file \o more \in Seq(Byte) /\ Len(file \o more) = Len(file) + Len(more)
  BY <1>3, <1>6, ConcatProperties
<1>9. file' = file \o more /\ toWrite' = rest /\ truncations' = truncations
  BY <1>1 DEF more, rest, Write
<1>10. Len(file') + Len(toWrite') <= Len(Content)
  <2>1. Len(file') = Len(file) + n /\ Len(toWrite') = Len(toWrite) - n
    BY <1>3, <1>4, <1>8, <1>9
  <2>2. Len(file) + Len(toWrite) <= Len(Content) /\ Len(toWrite) \in Nat
    BY DEF FileOK
  <2> QED BY <1>2, <1>6, <2>1, <2>2
<1>11. Tidy(file' \o toWrite')
  BY <1>7, <1>9 DEF FileOK
<1>12. truncations \in Nat
  BY DEF FileOK
<1> QED BY <1>3, <1>4, <1>8, <1>9, <1>10, <1>11, <1>12 DEF FileOK

LEMMA FileEmptied ==
  ASSUME FileOK, Truncate
  PROVE  FileOK' /\ truncations' # 0 /\ file' = << >>
<1>1. file \in Seq(Byte) /\ toWrite \in Seq(Byte)
  BY DEF FileOK
<1>2. /\ file' = << >> /\ toWrite' = toWrite
      /\ truncations \in Nat /\ truncations' = truncations + 1
  BY DEF FileOK, Truncate
<1>3. << >> \in Seq(Byte) /\ Len(<< >>) = 0 /\ << >> \o toWrite = toWrite
  BY <1>1, EmptySeq, ConcatEmptySeq
<1>4. Len(file) + Len(toWrite) <= Len(Content) /\ Len(file) \in Nat /\ Len(toWrite) \in Nat
  BY <1>1 DEF FileOK
<1>5. Tidy(toWrite)
  <2> DEFINE both == file \o toWrite
  <2>1. /\ both \in Seq(Byte) /\ Len(both) = Len(file) + Len(toWrite)
        /\ \A i \in 1..Len(toWrite) : both[Len(file) + i] = toWrite[i]
    <3>1. /\ both \in Seq(Byte) /\ Len(both) = Len(file) + Len(toWrite)
          /\ \A i \in 1..(Len(file) + Len(toWrite)) :
               both[i] = IF i <= Len(file) THEN file[i] ELSE toWrite[i - Len(file)]
      BY <1>1, ConcatProperties
    <3> HIDE DEF both
    <3>2. ASSUME NEW i \in 1..Len(toWrite)
          PROVE  both[Len(file) + i] = toWrite[i]
      <4>1. /\ Len(file) + i \in 1..(Len(file) + Len(toWrite))
            /\ ~(Len(file) + i <= Len(file)) /\ (Len(file) + i) - Len(file) = i
        BY <1>4
      <4> QED BY <3>1, <4>1
    <3> QED BY <3>1, <3>2
  <2>2. Tidy(both)
    BY DEF FileOK
  <2> HIDE DEF both
  <2> SUFFICES ASSUME NEW i \in 1..(Len(toWrite) - 1), toWrite[i] > 0, toWrite[i + 1] > 0
               PROVE  toWrite[i] = toWrite[i + 1]
    BY DEF Tidy
  <2>3. /\ i \in 1..Len(toWrite) /\ i + 1 \in 1..Len(toWrite)
        /\ Len(file) + i \in 1..(Len(both) - 1)
        /\ (Len(file) + i) + 1 = Len(file) + (i + 1)
    BY <1>4, <2>1
  <2>4. both[Len(file) + i] = toWrite[i] /\ both[Len(file) + (i + 1)] = toWrite[i + 1]
    BY <2>1, <2>3
  <2> QED BY <2>2, <2>3, <2>4 DEF Tidy
<1>6. Tidy(file' \o toWrite')
  BY <1>2, <1>3, <1>5
<1>7. Len(file') + Len(toWrite') <= Len(Content)
  <2>1. Len(file') = 0 /\ Len(toWrite') = Len(toWrite)
    BY <1>2, <1>3
  <2>2. Len(Content) \in Int
    BY ContentAssumption
  <2> QED BY <1>4, <2>1, <2>2
<1> QED BY <1>1, <1>2, <1>3, <1>6, <1>7 DEF FileOK

(* A piece of the file stays what it is when the file grows; one that goes *)
(* on to the end of the file grows with it.                                *)
LEMMA PieceKept ==
  ASSUME NEW s \in Seq(Byte), NEW t \in Seq(Byte), NEW k \in 0..Len(s), NEW n \in k..Len(s)
  PROVE  /\ SubSeq(s \o t, k + 1, n) = SubSeq(s, k + 1, n)
         /\ SubSeq(s \o t, k + 1, Len(s \o t)) = SubSeq(s, k + 1, Len(s)) \o t
<1> DEFINE u == s \o t
<1>1. /\ u \in Seq(Byte) /\ Len(u) = Len(s) + Len(t) /\ Len(s) \in Nat /\ Len(t) \in Nat
      /\ \A i \in 1..(Len(s) + Len(t)) : u[i] = IF i <= Len(s) THEN s[i] ELSE t[i - Len(s)]
  BY ConcatProperties
<1> HIDE DEF u
<1>2. ASSUME NEW m, m \in k..Len(s)
      PROVE  SubSeq(u, k + 1, m) = SubSeq(s, k + 1, m)
  <2>1. /\ k + 1 \in 1..(Len(s) + 1) /\ m \in ((k + 1) - 1)..Len(s)
        /\ k + 1 \in 1..(Len(u) + 1) /\ m \in ((k + 1) - 1)..Len(u)
    BY <1>1, <1>2
  <2>2. /\ SubSeq(s, k + 1, m) \in Seq(Byte) /\ Len(SubSeq(s, k + 1, m)) = m - (k + 1) + 1
        /\ \A i \in 1..(m - (k + 1) + 1) : SubSeq(s, k + 1, m)[i] = s[(k + 1) + i - 1]
    BY <2>1, PieceTidy
  <2>3. /\ SubSeq(u, k + 1, m) \in Seq(Byte) /\ Len(SubSeq(u, k + 1, m)) = m - (k + 1) + 1
        /\ \A i \in 1..(m - (k + 1) + 1) : SubSeq(u, k + 1, m)[i] = u[(k + 1) + i - 1]
    BY <1>1, <2>1, PieceTidy
  <2>4. \A i \in 1..(m - (k + 1) + 1) : u[(k + 1) + i - 1] = s[(k + 1) + i - 1]
    <3>1. \A i \in 1..(m - (k + 1) + 1) :
            (k + 1) + i - 1 \in 1..(Len(s) + Len(t)) /\ (k + 1) + i - 1 <= Len(s)
      BY <1>1, <1>2
    <3> QED BY <1>1, <3>1
  <2>5. \A i \in 1..Len(SubSeq(u, k + 1, m)) : SubSeq(u, k + 1, m)[i] = SubSeq(s, k + 1, m)[i]
    BY <2>2, <2>3, <2>4
  <2> QED BY <2>2, <2>3, <2>5, SeqEqual
<1>3. SubSeq(u, k + 1, Len(u)) = SubSeq(u, k + 1, Len(s)) \o SubSeq(u, Len(s) + 1, Len(u))
  <2>1. /\ k + 1 \in 1..(Len(u) + 1) /\ Len(s) \in ((k + 1) - 1)..Len(u)
        /\ Len(u) \in Len(s)..Len(u)
    BY <1>1
  <2> QED BY <1>1, <2>1, ConcatAdjacentSubSeq
<1>4. SubSeq(u, Len(s) + 1, Len(u)) = t
  <2>1. /\ Len(s) + 1 \in 1..(Len(u) + 1) /\ Len(u) \in ((Len(s) + 1) - 1)..Len(u)
        /\ Len(u) - (Len(s) + 1) + 1 = Len(t)
    BY <1>1
  <2>2. /\ SubSeq(u, Len(s) + 1, Len(u)) \in Seq(Byte)
        /\ Len(SubSeq(u, Len(s) + 1, Len(u))) = Len(t)
        /\ \A i \in 1..Len(t) : SubSeq(u, Len(s) + 1, Len(u))[i] = u[(Len(s) + 1) + i - 1]
    BY <1>1, <2>1, PieceTidy
  <2>3. \A i \in 1..Len(t) : /\ (Len(s) + 1) + i - 1 \in 1..(Len(s) + Len(t))
                             /\ ~((Len(s) + 1) + i - 1 <= Len(s))
                             /\ ((Len(s) + 1) + i - 1) - Len(s) = i
    BY <1>1
  <2>4. \A i \in 1..Len(t) : u[(Len(s) + 1) + i - 1] = t[i]
    BY <1>1, <2>3
  <2> QED BY <2>2, <2>4, SeqEqual
<1>5. n \in k..Len(s) /\ Len(s) \in k..Len(s)
  BY <1>1
<1> QED BY <1>2, <1>3, <1>4, <1>5 DEF u
-----------------------------------------------------------------------------
(* read() returns a piece of the file, and nothing only at its end or       *)
(* beyond it.                                                               *)
LEMMA ReadReturns ==
  ASSUME FileOK, NEW position \in Nat
  PROVE  LET buf == ReadAt(position, BufSize) IN
         /\ buf \in Seq(Byte) /\ Tidy(buf)
         /\ buf = << >> => position >= Len(file)
         /\ buf # << >> => position + Len(buf) <= Len(file)
         /\ buf # << >> => \A k \in 0..Len(buf) :
              SubSeq(buf, 1, k) = SubSeq(file, position + 1, position + k)
<1> DEFINE end == Min({position + BufSize, Len(file)})
           buf == ReadAt(position, BufSize)
<1>1. file \in Seq(Byte) /\ Len(file) \in Nat /\ BufSize \in Nat \ {0}
  BY ScanAssumption DEF FileOK
<1>2. /\ end \in Nat /\ end <= Len(file)
      /\ end = position + BufSize \/ end = Len(file)
  BY <1>1 DEF Min
<1>3. buf = SubSeq(file, position + 1, end)
  BY DEF ReadAt
<1>4. Tidy(file)
  BY FileTidy
<1> HIDE DEF end, buf
<1>5. CASE position >= end
  <2>1. buf = << >>
    BY <1>2, <1>3, <1>5, SubSeqEmpty
  <2>2. << >> \in Seq(Byte) /\ Len(<< >>) = 0
    BY EmptySeq
  <2>3. Tidy(<< >>)
    BY <2>2 DEF Tidy
  <2>4. position >= Len(file)
    BY <1>1, <1>2, <1>5
  <2> QED BY <2>1, <2>2, <2>3, <2>4 DEF buf
<1>6. CASE position < end
  <2>1. position + 1 \in 1..(Len(file) + 1) /\ end \in ((position + 1) - 1)..Len(file)
    BY <1>1, <1>2, <1>6
  <2>2. /\ buf \in Seq(Byte) /\ Len(buf) = end - (position + 1) + 1 /\ Tidy(buf)
        /\ \A i \in 1..(end - (position + 1) + 1) : buf[i] = file[(position + 1) + i - 1]
    BY <1>1, <1>3, <1>4, <2>1, PieceTidy
  <2>3. Len(buf) = end - position /\ Len(buf) > 0 /\ position + Len(buf) <= Len(file)
    BY <1>2, <1>6, <2>2
  <2>4. buf # << >>
    BY <2>3, EmptySeq
  <2>5. ASSUME NEW k \in 0..Len(buf)
        PROVE  SubSeq(buf, 1, k) = SubSeq(file, position + 1, position + k)
    <3>1. /\ 1 \in 1..(Len(buf) + 1) /\ k \in (1 - 1)..Len(buf)
          /\ position + 1 \in 1..(Len(file) + 1)
          /\ position + k \in ((position + 1) - 1)..Len(file)
          /\ (position + k) - (position + 1) + 1 = k /\ k - 1 + 1 = k
      BY <1>1, <2>3
    <3>2. /\ SubSeq(buf, 1, k) \in Seq(Byte) /\ Len(SubSeq(buf, 1, k)) = k
          /\ \A i \in 1..k : SubSeq(buf, 1, k)[i] = buf[1 + i - 1]
      BY <2>2, <3>1, PieceTidy
    <3> DEFINE t == SubSeq(file, position + 1, position + k)
    <3>3. /\ t \in Seq(Byte) /\ Len(t) = k
          /\ \A i \in 1..k : t[i] = file[(position + 1) + i - 1]
      BY <1>1, <3>1, PieceTidy
    <3>4. \A i \in 1..k : buf[1 + i - 1] = file[(position + 1) + i - 1]
      <4>1. \A i \in 1..k : 1 + i - 1 = i /\ i \in 1..(end - (position + 1) + 1)
        BY <1>2, <2>3
      <4> QED BY <2>2, <4>1
    <3> HIDE DEF t
    <3>5. SubSeq(buf, 1, k) = t
      BY <3>2, <3>3, <3>4, SeqEqual
    <3> QED BY <3>5 DEF t
  <2> QED BY <2>2, <2>3, <2>4, <2>5 DEF buf
<1> QED BY <1>1, <1>2, <1>5, <1>6

(* What the scan found of a piece read goes on from what was delivered.    *)
LEMMA ReadDelivers ==
  ASSUME FileOK, NEW offset \in Nat, NEW begin \in 0..offset,
         NEW given \in Seq(Seq(Nat)), NEW s,
         ReadAt(offset, BufSize) # << >>,
         Found(ReadAt(offset, BufSize), s),
         WithBytes(NoLines, SubSeq(file, begin + 1, offset)) = Clean(given)
  PROVE  /\ given \o s.lines \in Seq(Seq(Nat))
         /\ offset + s.last \in offset..Len(file)
         /\ WithBytes(NoLines, SubSeq(file, begin + 1, offset + s.last))
              = Clean(given \o s.lines)
<1> DEFINE buf == ReadAt(offset, BufSize)
           since == SubSeq(file, begin + 1, offset)
           more == SubSeq(buf, 1, s.last)
<1>1. file \in Seq(Byte) /\ Len(file) \in Nat
  BY DEF FileOK
<1>2. /\ buf \in Seq(Byte) /\ Len(buf) \in Nat /\ offset + Len(buf) <= Len(file)
      /\ \A k \in 0..Len(buf) : SubSeq(buf, 1, k) = SubSeq(file, offset + 1, offset + k)
  <2>1. buf \in Seq(Byte)
    BY ReadReturns
  <2>2. offset + Len(buf) <= Len(file)
    BY ReadReturns
  <2>3. \A k \in 0..Len(buf) : SubSeq(buf, 1, k) = SubSeq(file, offset + 1, offset + k)
    BY ReadReturns
  <2>4. Len(buf) \in Nat
    <3> HIDE DEF buf
    <3> QED BY <2>1
  <2> QED BY <2>1, <2>2, <2>3, <2>4
<1>3. /\ s.last \in 0..Len(buf) /\ s.lines \in Seq(Seq(Nat))
      /\ WithBytes(Clean(given), more) = Clean(given \o s.lines)
  BY DEF Found
<1>4. more = SubSeq(file, offset + 1, offset + s.last)
  BY <1>2, <1>3
<1>5. more \in Seq(Byte) /\ since \in Seq(Byte)
  <2>1. /\ 1 \in 1..(Len(buf) + 1) /\ s.last \in (1 - 1)..Len(buf)
        /\ begin + 1 \in 1..(Len(file) + 1) /\ offset \in ((begin + 1) - 1)..Len(file)
    BY <1>1, <1>2, <1>3
  <2> QED BY <1>1, <1>2, <2>1, PieceTidy
<1>6. since \o more = SubSeq(file, begin + 1, offset + s.last)
  <2>1. /\ begin + 1 \in 1..(Len(file) + 1) /\ offset \in ((begin + 1) - 1)..Len(file)
        /\ offset + s.last \in offset..Len(file)
    BY <1>1, <1>2, <1>3
  <2> QED BY <1>1, <1>4, <2>1, ConcatAdjacentSubSeq
<1>7. NoLines \in Acc
  BY EmptySeq DEF NoLines, Acc
<1> HIDE DEF since, more, buf
<1>8. WithBytes(NoLines, since \o more) = WithBytes(WithBytes(NoLines, since), more)
  BY <1>5, <1>7, WithBytesConcat
<1>9. WithBytes(NoLines, since) = Clean(given)
  BY DEF since
<1>10. given \o s.lines \in Seq(Seq(Nat))
  BY <1>3, ConcatProperties
<1>11. offset + s.last \in offset..Len(file)
  BY <1>1, <1>2, <1>3
<1> QED BY <1>3, <1>6, <1>8, <1>9, <1>10, <1>11

(* The whole lines of a run are those of more of it, as far as they go.     *)
LEMMA WholeLinesGrow ==
  ASSUME NEW s \in Seq(Byte), NEW t \in Seq(Byte)
  PROVE  /\ IsPrefix(WholeLines(s), WholeLines(s \o t))
         /\ WholeLines(s) \in Seq(Seq(Nat))
<1>1. NoLines \in Acc
  BY EmptySeq DEF NoLines, Acc
<1>2. WithBytes(NoLines, s) \in Acc
  BY <1>1, WithBytesType
<1>3. WithBytes(NoLines, s \o t) = WithBytes(WithBytes(NoLines, s), t)
  BY <1>1, WithBytesConcat
<1>4. IsPrefix(WithBytes(NoLines, s).lines, WithBytes(NoLines, s \o t).lines)
  BY <1>2, <1>3, LinesGrow
<1>5. WithBytes(NoLines, s).lines \in Seq(Seq(Nat))
  BY <1>2 DEF Acc
<1> QED BY <1>4, <1>5 DEF WholeLines

LEMMA PrefixOfItself ==
  ASSUME NEW s
  PROVE  Len(s) \in Nat => IsPrefix(s, s)
BY DEF IsPrefix
=============================================================================
