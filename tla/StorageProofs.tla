--------------------------- MODULE StorageProofs ----------------------------
(***************************************************************************)
(* The arrays of a battle in memory, for any names, verbs, capacities and  *)
(* length of the log: every block has one owner and none is freed twice or *)
(* lost, no pointer is used after its storage has moved, and what was said *)
(* can be read back.                                                       *)
(*                                                                         *)
(* First what each function of Array does to the heap, and that the folds  *)
(* over the elements that a resize destroys do nothing when it grows.      *)
(* Then the battle: its arrays in order (WF), with every block in use      *)
(* owned once (Once), and what is kept when a block is written, moved or   *)
(* freed (Untouched, Kept...).  Then one lemma per function of battle.c,   *)
(* and at last the history: what is stored is what was said (Told).        *)
(***************************************************************************)
EXTENDS Storage, SequenceTheorems, FiniteSetTheorems, WellFoundedInduction, TLAPS

(* A heap in order, and an array in it. *)
Memory(x) == x = [i \in DOMAIN x |-> x[i]]
HeapOK(h) == /\ h = [live |-> h.live, next |-> h.next, fault |-> FALSE]
             /\ h.live = [b \in DOMAIN h.live |-> h.live[b]]
             /\ h.next \in Nat \ {0}
             /\ DOMAIN h.live \subseteq 1..(h.next - 1)
             /\ \A b \in DOMAIN h.live : Memory(h.live[b])
Block(x, n) == x = [i \in 1..n |-> x[i]]
ArrayOK(h, a) ==
  /\ a \in [data : Nat, size : Nat, capacity : Nat]
  /\ a.size <= a.capacity
  /\ a.data = Null => a.capacity = 0
  /\ a.data # Null => /\ a.capacity > 0
                      /\ a.data \in DOMAIN h.live
                      /\ Block(h.live[a.data], a.capacity)

(* A push that finds the array full always gets a larger one. *)
LEMMA CapacityGrows ==
  ASSUME NEW c \in Nat
  PROVE  nextCapacity(c) \in Nat /\ nextCapacity(c) > c
BY ArrayAssumption DEF nextCapacity

(* malloc adds a block at an address never used before. *)
LEMMA MallocIs ==
  ASSUME NEW h, HeapOK(h), NEW block, Memory(block)
  PROVE  /\ HeapOK(Malloc(h, block))
         /\ Malloc(h, block).next = h.next + 1
         /\ DOMAIN Malloc(h, block).live = DOMAIN h.live \union {h.next}
         /\ Malloc(h, block).live[h.next] = block
         /\ \A b \in DOMAIN h.live : Malloc(h, block).live[b] = h.live[b]
         /\ h.next \notin DOMAIN h.live /\ h.next # Null
<1> DEFINE m == Malloc(h, block)
           live == [b \in DOMAIN h.live \union {h.next} |-> IF b = h.next THEN block ELSE h.live[b]]
<1>1. m = [h EXCEPT !.live = live, !.next = h.next + 1]
  BY DEF Malloc
<1>2. m = [live |-> live, next |-> h.next + 1, fault |-> FALSE]
  <2> HIDE DEF live, m
  <2> DEFINE was == h.live
             next == h.next
  <2>1. h = [live |-> was, next |-> next, fault |-> FALSE]
    BY DEF HeapOK
  <2>2. m = [h EXCEPT !.live = live, !.next = next + 1]
    BY <1>1
  <2> HIDE DEF was, next
  <2>3. m = [live |-> live, next |-> next + 1, fault |-> FALSE]
    BY <2>1, <2>2
  <2> QED BY <2>3 DEF next
<1>3. m.live = live /\ m.next = h.next + 1 /\ m.fault = FALSE
  BY <1>2
<1>4. h.next \in Nat \ {0} /\ DOMAIN h.live \subseteq 1..(h.next - 1)
  BY DEF HeapOK
<1>5. h.next \notin DOMAIN h.live /\ h.next # Null
  BY <1>4 DEF Null
<1> HIDE DEF m
<1>6. HeapOK(m)
  BY <1>2, <1>3, <1>4 DEF HeapOK
<1>7. DOMAIN m.live = DOMAIN h.live \union {h.next} /\ m.live[h.next] = block
  BY <1>3
<1>8. \A b \in DOMAIN h.live : m.live[b] = h.live[b]
  BY <1>3, <1>5
<1> QED BY <1>3, <1>5, <1>6, <1>7, <1>8 DEF m

(* free of a block in use takes that block away and no other. *)
LEMMA FreeIs ==
  ASSUME NEW h, HeapOK(h), NEW a \in DOMAIN h.live
  PROVE  /\ HeapOK(Free(h, a))
         /\ Free(h, a).next = h.next
         /\ DOMAIN Free(h, a).live = DOMAIN h.live \ {a}
         /\ \A b \in DOMAIN h.live \ {a} : Free(h, a).live[b] = h.live[b]
<1> DEFINE f == Free(h, a)
           live == [b \in DOMAIN h.live \ {a} |-> h.live[b]]
<1>1. a # Null
  BY DEF HeapOK, Null
<1>2. f = [live |-> live, next |-> h.next, fault |-> FALSE]
  <2>1. f = [h EXCEPT !.live = Restrict(h.live, DOMAIN h.live \ {a}),
                      !.fault = h.fault \/ a \notin DOMAIN h.live]
    BY <1>1 DEF Free
  <2>2. Restrict(h.live, DOMAIN h.live \ {a}) = live
    BY DEF Restrict
  <2>3. (h.fault \/ a \notin DOMAIN h.live) = FALSE
    BY DEF HeapOK
  <2> HIDE DEF f, live
  <2> QED BY <2>1, <2>2, <2>3 DEF HeapOK
<1>3. f.live = live /\ f.next = h.next
  BY <1>2
<1> HIDE DEF f
<1> QED BY <1>2, <1>3 DEF HeapOK, f

(* A write through a valid pointer changes one element of one block. *)
LEMMA WriteIs ==
  ASSUME NEW h, HeapOK(h), NEW p, Valid(h, p), NEW e
  PROVE  /\ HeapOK(Write(h, p, e))
         /\ Write(h, p, e).next = h.next
         /\ DOMAIN Write(h, p, e).live = DOMAIN h.live
         /\ \A b \in DOMAIN h.live \ {p.block} : Write(h, p, e).live[b] = h.live[b]
         /\ Write(h, p, e).live[p.block] =
              [i \in DOMAIN h.live[p.block] |-> IF i = p.pos THEN e ELSE h.live[p.block][i]]
<1> DEFINE block == h.live[p.block]
           written == [i \in DOMAIN block |-> IF i = p.pos THEN e ELSE block[i]]
           w == Write(h, p, e)
           live == [b \in DOMAIN h.live |-> IF b = p.block THEN written ELSE h.live[b]]
<1>1. w = [h EXCEPT !.live = [h.live EXCEPT ![p.block] = written]]
  BY DEF Write
<1>2. p.block \in DOMAIN h.live
  BY DEF Valid
<1>21. [h.live EXCEPT ![p.block] = written] = live
  <2> HIDE DEF written
  <2> QED OBVIOUS
<1> HIDE DEF live, written, w
<1>3. w = [live |-> live, next |-> h.next, fault |-> FALSE]
  <2> DEFINE was == h.live
             next == h.next
  <2>1. h = [live |-> was, next |-> next, fault |-> FALSE]
    BY DEF HeapOK
  <2>2. w = [h EXCEPT !.live = live]
    BY <1>1, <1>21
  <2> HIDE DEF was, next
  <2>3. w = [live |-> live, next |-> next, fault |-> FALSE]
    BY <2>1, <2>2
  <2> QED BY <2>3 DEF next
<1>4. w.live = live /\ w.next = h.next
  BY <1>3
<1>5. HeapOK(w)
  <2>1. w = [live |-> w.live, next |-> w.next, fault |-> FALSE]
    BY <1>3, <1>4
  <2>2. w.live = [b \in DOMAIN w.live |-> w.live[b]] /\ DOMAIN w.live = DOMAIN h.live
    BY <1>4 DEF live
  <2>3. Memory(written)
    BY DEF written, Memory
  <2>4. \A b \in DOMAIN w.live : Memory(w.live[b])
    <3> SUFFICES ASSUME NEW b \in DOMAIN w.live PROVE Memory(w.live[b])
      OBVIOUS
    <3>1. b \in DOMAIN h.live /\ Memory(h.live[b])
      BY <2>2 DEF HeapOK
    <3>2. CASE b = p.block
      <4>1. w.live[b] = written
        BY <1>4, <3>1, <3>2 DEF live
      <4> QED BY <4>1, <2>3
    <3>3. CASE b # p.block
      <4>1. w.live[b] = h.live[b]
        BY <1>4, <3>1, <3>3 DEF live
      <4> QED BY <4>1, <3>1
    <3> QED BY <3>2, <3>3
  <2>5. w.next \in Nat \ {0} /\ DOMAIN w.live \subseteq 1..(w.next - 1)
    BY <1>4, <2>2 DEF HeapOK
  <2> QED BY <2>1, <2>2, <2>4, <2>5 DEF HeapOK
<1>6. p.block \in DOMAIN h.live
  BY DEF Valid
<1> QED BY <1>4, <1>5, <1>6 DEF w, live, written

(* Growing an array destroys nothing: what pushes do before they write. *)
Grown(h, a) ==
  IF a.size # a.capacity THEN Result(h, a)
  ELSE IF a.data = Null THEN Allocated(h, a, nextCapacity(a.capacity))
  ELSE Reallocated(h, a, nextCapacity(a.capacity))
Pushed(h, a, e) == PutBehind(Grown(h, a).heap, Grown(h, a).array, e)

(* An array that grows kicks nothing out. *)
LEMMA NothingKicked ==
  ASSUME NEW h, NEW a, ArrayOK(h, a), NEW c \in Nat, c >= a.size
  PROVE  Kicked(h, a, c) = << >> /\ DOMAIN Kicked(h, a, c) = {}
BY DEF Kicked, ArrayOK, SubSeq

(* A fold over nothing. *)
LEMMA NoStringFreed == ASSUME NEW h, NEW s, DOMAIN s = {} PROVE FoldLeft(StringDtor, h, s) = h
<1> DEFINE Solves(g) == g = [t \in SUBSET DOMAIN s |-> IF t = {} THEN h ELSE StringDtor(g[t \ {Max(t)}], s[Max(t)])]
           f == [t \in SUBSET {} |-> h]
<1>1. Solves(f)
  <2>1. \A t \in SUBSET {} : t = {}
    OBVIOUS
  <2> QED BY <2>1
<1> HIDE DEF f
<1>2. \A g : Solves(g) => g[DOMAIN s] = h
  OBVIOUS
<1>3. FoldLeft(StringDtor, h, s) = (CHOOSE g : Solves(g))[DOMAIN s]
  BY DEF FoldLeft, MapThenFoldSet
<1> HIDE DEF Solves
<1> QED BY <1>1, <1>2, <1>3

(* An array in a heap, and what it has in its cells. *)
Cell(h, a, i) == h.live[a.data][i]

(* The elements of an array are the first cells of its block. *)
LEMMA ElementsAre ==
  ASSUME NEW h, NEW a, ArrayOK(h, a)
  PROVE  Elements(h, a) = [i \in 1..a.size |-> Cell(h, a, i)]
<1>1. CASE a.data = Null
  <2>1. a.size = 0
    BY <1>1 DEF ArrayOK
  <2> QED BY <1>1, <2>1 DEF Elements
<1>2. CASE a.data # Null
  BY <1>2 DEF Elements, SubSeq, ArrayOK, Cell
<1> QED BY <1>1, <1>2

LEMMA GrownIs ==
  ASSUME NEW h, HeapOK(h), NEW a, ArrayOK(h, a)
  PROVE  LET r == Grown(h, a)
         IN  /\ HeapOK(r.heap) /\ ArrayOK(r.heap, r.array)
             /\ r.array.size = a.size /\ r.array.size < r.array.capacity
             /\ r.array.data # Null
             /\ r.array.data = a.data \/ (r.array.data \notin DOMAIN h.live)
             /\ DOMAIN r.heap.live = (DOMAIN h.live \ {a.data}) \union {r.array.data}
             /\ \A b \in DOMAIN h.live \ {a.data} : r.heap.live[b] = h.live[b]
             /\ \A i \in 1..a.size : Cell(r.heap, r.array, i) = Cell(h, a, i)
<1> DEFINE r == Grown(h, a)
           c == nextCapacity(a.capacity)
<1>a. /\ a \in [data : Nat, size : Nat, capacity : Nat] /\ a.size <= a.capacity
      /\ a.data = Null => a.capacity = 0
      /\ a.data # Null => /\ a.capacity > 0 /\ a.data \in DOMAIN h.live
                          /\ Block(h.live[a.data], a.capacity)
  BY DEF ArrayOK
<1>0. c \in Nat /\ c > a.capacity
  BY <1>a, CapacityGrows
<1> HIDE DEF c
<1>1. CASE a.size # a.capacity
  <2>1. r = Result(h, a)
    BY <1>1 DEF Grown
  <2>2. r.heap = h /\ r.array = a
    BY <2>1 DEF Result
  <2>3. a.size < a.capacity /\ a.data # Null /\ a.data \in DOMAIN h.live
    BY <1>1, <1>a
  <2> HIDE DEF r
  <2> QED BY <2>2, <2>3 DEF r
<1>2. CASE a.size = a.capacity /\ a.data = Null
  <2> DEFINE block == [i \in 1..c |-> Zero]
  <2>1. r = Result(Malloc(h, block), [a EXCEPT !.data = h.next, !.capacity = c])
    BY <1>2 DEF Grown, Allocated, c
  <2>2. Memory(block) /\ Block(block, c)
    BY DEF Memory, Block
  <2> HIDE DEF block, r
  <2>3. r.heap = Malloc(h, block) /\ r.array = [data |-> h.next, size |-> a.size, capacity |-> c]
    BY <2>1, <1>a DEF Result
  <2>4. /\ HeapOK(r.heap) /\ r.heap.next = h.next + 1
        /\ DOMAIN r.heap.live = DOMAIN h.live \union {h.next} /\ r.heap.live[h.next] = block
        /\ \A b \in DOMAIN h.live : r.heap.live[b] = h.live[b]
        /\ h.next \notin DOMAIN h.live /\ h.next # Null
    BY <2>2, <2>3, MallocIs
  <2>5. h.next \in Nat /\ Null \notin DOMAIN h.live /\ a.size = 0
    BY <1>2, <1>a DEF HeapOK, Null
  <2>6. ArrayOK(r.heap, r.array)
    BY <2>2, <2>3, <2>4, <2>5, <1>0 DEF ArrayOK
  <2>7. /\ r.array.size = a.size /\ r.array.size < r.array.capacity
        /\ r.array.data # Null /\ r.array.data \notin DOMAIN h.live
    BY <2>3, <2>4, <2>5, <1>0, <1>a
  <2>8. DOMAIN r.heap.live = (DOMAIN h.live \ {a.data}) \union {r.array.data}
    BY <2>3, <2>4, <2>5, <1>2
  <2>9. \A i \in 1..a.size : Cell(r.heap, r.array, i) = Cell(h, a, i)
    BY <2>5
  <2> QED BY <2>4, <2>6, <2>7, <2>8, <2>9 DEF r
<1>3. CASE a.size = a.capacity /\ a.data # Null
  <2> DEFINE block == [i \in 1..c |-> IF i <= a.capacity THEN h.live[a.data][i] ELSE Zero]
             m == Malloc(h, block)
  <2>1. r = Result(Free(m, a.data), [data |-> h.next, size |-> Min({a.size, c}), capacity |-> c])
    BY <1>3 DEF Grown, Reallocated, c
  <2>2. Memory(block) /\ Block(block, c)
    BY DEF Memory, Block
  <2>21. \A i \in 1..a.size : block[i] = h.live[a.data][i]
    BY <1>0, <1>3, <1>a
  <2>3. Min({a.size, c}) = a.size
    <3>1. a.size \in Nat /\ a.size < c
      BY <1>0, <1>3, <1>a
    <3> QED BY <3>1, <1>0 DEF Min
  <2> HIDE DEF block, r
  <2>4. /\ HeapOK(m) /\ m.next = h.next + 1
        /\ DOMAIN m.live = DOMAIN h.live \union {h.next} /\ m.live[h.next] = block
        /\ \A b \in DOMAIN h.live : m.live[b] = h.live[b]
        /\ h.next \notin DOMAIN h.live /\ h.next # Null
    BY <2>2, MallocIs
  <2> HIDE DEF m
  <2>5. a.data \in DOMAIN h.live /\ a.data \in DOMAIN m.live /\ h.next \in Nat
    BY <1>3, <1>a, <2>4 DEF HeapOK
  <2>6. r.heap = Free(m, a.data) /\ r.array = [data |-> h.next, size |-> a.size, capacity |-> c]
    BY <2>1, <2>3 DEF Result
  <2>7. /\ HeapOK(r.heap) /\ DOMAIN r.heap.live = DOMAIN m.live \ {a.data}
        /\ \A b \in DOMAIN m.live \ {a.data} : r.heap.live[b] = m.live[b]
    BY <2>4, <2>5, <2>6, FreeIs
  <2>8. h.next # a.data /\ h.next \in DOMAIN r.heap.live /\ r.heap.live[h.next] = block
    BY <2>4, <2>5, <2>7
  <2>9. ArrayOK(r.heap, r.array)
    BY <1>a, <1>0, <2>2, <2>4, <2>5, <2>6, <2>8, <1>3 DEF ArrayOK
  <2>10. /\ r.array.size = a.size /\ r.array.size < r.array.capacity
         /\ r.array.data # Null /\ r.array.data \notin DOMAIN h.live
    BY <1>a, <1>0, <2>4, <2>6, <1>3
  <2>11. DOMAIN r.heap.live = (DOMAIN h.live \ {a.data}) \union {r.array.data}
    BY <2>4, <2>6, <2>7, <2>8
  <2>12. \A b \in DOMAIN h.live \ {a.data} : r.heap.live[b] = h.live[b]
    BY <2>4, <2>7
  <2>13. \A i \in 1..a.size : Cell(r.heap, r.array, i) = Cell(h, a, i)
    BY <2>6, <2>8, <2>21 DEF Cell
  <2>14. HeapOK(r.heap)
    BY <2>7
  <2> QED BY <2>14, <2>9, <2>10, <2>11, <2>12, <2>13 DEF r
<1> QED BY <1>1, <1>2, <1>3

(* What a push does: one cell more, and the block may have moved. *)
LEMMA PushedIs ==
  ASSUME NEW h, HeapOK(h), NEW a, ArrayOK(h, a), NEW e
  PROVE  LET r == Pushed(h, a, e)
         IN  /\ HeapOK(r.heap) /\ ArrayOK(r.heap, r.array)
             /\ r.array.size = a.size + 1 /\ r.array.data # Null
             /\ r.array.data = a.data \/ (r.array.data \notin DOMAIN h.live)
             /\ DOMAIN r.heap.live = (DOMAIN h.live \ {a.data}) \union {r.array.data}
             /\ \A b \in DOMAIN h.live \ {a.data} : r.heap.live[b] = h.live[b]
             /\ \A i \in 1..a.size : Cell(r.heap, r.array, i) = Cell(h, a, i)
             /\ Cell(r.heap, r.array, a.size + 1) = e
<1> DEFINE g == Grown(h, a)
           r == Pushed(h, a, e)
           p == [block |-> g.array.data, pos |-> g.array.size + 1]
<1>1. /\ HeapOK(g.heap) /\ ArrayOK(g.heap, g.array)
      /\ g.array.size = a.size /\ g.array.size < g.array.capacity
      /\ g.array.data # Null
      /\ g.array.data = a.data \/ (g.array.data \notin DOMAIN h.live)
      /\ DOMAIN g.heap.live = (DOMAIN h.live \ {a.data}) \union {g.array.data}
      /\ \A b \in DOMAIN h.live \ {a.data} : g.heap.live[b] = h.live[b]
      /\ \A i \in 1..a.size : Cell(g.heap, g.array, i) = Cell(h, a, i)
  BY GrownIs
<1>2. r = Result(Write(g.heap, p, e), [g.array EXCEPT !.size = g.array.size + 1])
  BY DEF Pushed, PutBehind
<1> HIDE DEF g
<1>3. /\ g.array \in [data : Nat, size : Nat, capacity : Nat]
      /\ g.array.data \in DOMAIN g.heap.live
      /\ Block(g.heap.live[g.array.data], g.array.capacity)
  BY <1>1 DEF ArrayOK
<1>4. Valid(g.heap, p) /\ p.block = g.array.data /\ p.pos = a.size + 1
  BY <1>1, <1>3 DEF Valid, Block
<1> HIDE DEF p, r
<1>5. r.heap = Write(g.heap, p, e) /\ r.array = [g.array EXCEPT !.size = g.array.size + 1]
  BY <1>2 DEF Result
<1>6. /\ HeapOK(r.heap) /\ DOMAIN r.heap.live = DOMAIN g.heap.live
      /\ \A b \in DOMAIN g.heap.live \ {p.block} : r.heap.live[b] = g.heap.live[b]
      /\ r.heap.live[p.block] =
           [i \in DOMAIN g.heap.live[p.block] |-> IF i = p.pos THEN e ELSE g.heap.live[p.block][i]]
  BY <1>1, <1>4, <1>5, WriteIs
<1>7. /\ r.array \in [data : Nat, size : Nat, capacity : Nat]
      /\ r.array.data = g.array.data /\ r.array.size = a.size + 1
      /\ r.array.capacity = g.array.capacity
  BY <1>1, <1>3, <1>5
<1>8. r.heap.live[r.array.data] =
        [i \in 1..g.array.capacity |-> IF i = a.size + 1 THEN e ELSE g.heap.live[g.array.data][i]]
  <2> DEFINE old == g.heap.live[g.array.data]
             new == r.heap.live[r.array.data]
  <2>1. DOMAIN old = 1..g.array.capacity
    BY <1>3 DEF Block
  <2>2. new = [i \in DOMAIN old |-> IF i = p.pos THEN e ELSE old[i]]
    <3>1. r.array.data = p.block /\ g.array.data = p.block
      BY <1>4, <1>7
    <3> QED BY <1>6, <3>1
  <2>3. p.pos = a.size + 1
    BY <1>4
  <2> HIDE DEF old, new
  <2>4. new = [i \in 1..g.array.capacity |-> IF i = a.size + 1 THEN e ELSE old[i]]
    BY <2>1, <2>2, <2>3
  <2> QED BY <2>4 DEF old, new
<1>9. a.size + 1 \in 1..g.array.capacity /\ a.size \in Nat
  <2>1. g.array.size \in Nat /\ g.array.capacity \in Nat
    BY <1>3
  <2>2. g.array.size = a.size /\ g.array.size < g.array.capacity
    BY <1>1
  <2> QED BY ONLY <2>1, <2>2
<1>10. ArrayOK(r.heap, r.array)
  <2>1. Block(r.heap.live[r.array.data], g.array.capacity)
    BY <1>8 DEF Block
  <2>2. g.array.capacity \in Nat /\ g.array.capacity > 0 /\ a.size + 1 <= g.array.capacity
    BY <1>9, <1>3
  <2> QED BY <1>3, <1>7, <1>6, <1>1, <2>1, <2>2 DEF ArrayOK
<1>11. \A i \in 1..a.size : Cell(r.heap, r.array, i) = Cell(g.heap, g.array, i)
  BY <1>7, <1>8, <1>9 DEF Cell
<1>12. Cell(r.heap, r.array, a.size + 1) = e
  BY <1>8, <1>9 DEF Cell
<1>13. \A b \in DOMAIN h.live \ {a.data} : r.heap.live[b] = h.live[b]
  <2> TAKE b \in DOMAIN h.live \ {a.data}
  <2>1. b # p.block /\ b \in DOMAIN g.heap.live
    BY <1>1, <1>4
  <2> QED BY <2>1, <1>1, <1>6
<1>14. \A i \in 1..a.size : Cell(r.heap, r.array, i) = Cell(h, a, i)
  BY <1>1, <1>11
<1> QED BY <1>1, <1>6, <1>7, <1>10, <1>12, <1>13, <1>14 DEF r

LEMMA NoVerbFreed == ASSUME NEW h, NEW s, DOMAIN s = {} PROVE FoldLeft(ByVerbDtor, h, s) = h
<1> DEFINE Solves(g) == g = [t \in SUBSET DOMAIN s |-> IF t = {} THEN h ELSE ByVerbDtor(g[t \ {Max(t)}], s[Max(t)])]
           f == [t \in SUBSET {} |-> h]
<1>1. Solves(f)
  <2>1. \A t \in SUBSET {} : t = {}
    OBVIOUS
  <2> QED BY <2>1
<1> HIDE DEF f
<1>2. \A g : Solves(g) => g[DOMAIN s] = h
  OBVIOUS
<1>3. FoldLeft(ByVerbDtor, h, s) = (CHOOSE g : Solves(g))[DOMAIN s]
  BY DEF FoldLeft, MapThenFoldSet
<1> HIDE DEF Solves
<1> QED BY <1>1, <1>2, <1>3

LEMMA NoFightFreed == ASSUME NEW h, NEW s, DOMAIN s = {} PROVE FoldLeft(FightDtor, h, s) = h
<1> DEFINE Solves(g) == g = [t \in SUBSET DOMAIN s |-> IF t = {} THEN h ELSE FightDtor(g[t \ {Max(t)}], s[Max(t)])]
           f == [t \in SUBSET {} |-> h]
<1>1. Solves(f)
  <2>1. \A t \in SUBSET {} : t = {}
    OBVIOUS
  <2> QED BY <2>1
<1> HIDE DEF f
<1>2. \A g : Solves(g) => g[DOMAIN s] = h
  OBVIOUS
<1>3. FoldLeft(FightDtor, h, s) = (CHOOSE g : Solves(g))[DOMAIN s]
  BY DEF FoldLeft, MapThenFoldSet
<1> HIDE DEF Solves
<1> QED BY <1>1, <1>2, <1>3

LEMMA NoDeathFreed == ASSUME NEW h, NEW s, DOMAIN s = {} PROVE FoldLeft(NoDtor, h, s) = h
<1> DEFINE Solves(g) == g = [t \in SUBSET DOMAIN s |-> IF t = {} THEN h ELSE NoDtor(g[t \ {Max(t)}], s[Max(t)])]
           f == [t \in SUBSET {} |-> h]
<1>1. Solves(f)
  <2>1. \A t \in SUBSET {} : t = {}
    OBVIOUS
  <2> QED BY <2>1
<1> HIDE DEF f
<1>2. \A g : Solves(g) => g[DOMAIN s] = h
  OBVIOUS
<1>3. FoldLeft(NoDtor, h, s) = (CHOOSE g : Solves(g))[DOMAIN s]
  BY DEF FoldLeft, MapThenFoldSet
<1> HIDE DEF Solves
<1> QED BY <1>1, <1>2, <1>3

(* So what a push destroys does not depend on the destructor: nothing. *)
LEMMA PushString ==
  ASSUME NEW h, NEW a, ArrayOK(h, a), NEW e
  PROVE  Push(h, a, e, StringDtor) = Pushed(h, a, e)
<1> DEFINE c == nextCapacity(a.capacity)
<1>1. CASE a.size # a.capacity
  BY <1>1 DEF Push, Pushed, Grown
<1>2. CASE a.size = a.capacity
  <2>1. c \in Nat /\ c > a.capacity /\ a.capacity \in Nat
    BY CapacityGrows DEF ArrayOK
  <2>2. DOMAIN Kicked(h, a, c) = {}
    BY <2>1, <1>2, NothingKicked
  <2>3. FoldLeft(StringDtor, h, Kicked(h, a, c)) = h
    BY <2>2, NoStringFreed
  <2>4. c # 0 /\ c > 0
    BY <2>1
  <2> HIDE DEF c
  <2>5. Resize(h, a, c, StringDtor) = IF a.data = Null THEN Allocated(h, a, c) ELSE Reallocated(h, a, c)
    BY <2>3, <2>4 DEF Resize
  <2>6. Push(h, a, e, StringDtor) = PutBehind(Resize(h, a, c, StringDtor).heap, Resize(h, a, c, StringDtor).array, e)
    BY <1>2 DEF Push, c
  <2>7. Pushed(h, a, e) = LET r == IF a.data = Null THEN Allocated(h, a, c) ELSE Reallocated(h, a, c)
                          IN  PutBehind(r.heap, r.array, e)
    BY <1>2 DEF Pushed, Grown, c
  <2> QED BY <2>5, <2>6, <2>7
<1> QED BY <1>1, <1>2

LEMMA PushVerb ==
  ASSUME NEW h, NEW a, ArrayOK(h, a), NEW e
  PROVE  Push(h, a, e, ByVerbDtor) = Pushed(h, a, e)
<1> DEFINE c == nextCapacity(a.capacity)
<1>1. CASE a.size # a.capacity
  BY <1>1 DEF Push, Pushed, Grown
<1>2. CASE a.size = a.capacity
  <2>1. c \in Nat /\ c > a.capacity /\ a.capacity \in Nat
    BY CapacityGrows DEF ArrayOK
  <2>2. DOMAIN Kicked(h, a, c) = {}
    BY <2>1, <1>2, NothingKicked
  <2>3. FoldLeft(ByVerbDtor, h, Kicked(h, a, c)) = h
    BY <2>2, NoVerbFreed
  <2>4. c # 0 /\ c > 0
    BY <2>1
  <2> HIDE DEF c
  <2>5. Resize(h, a, c, ByVerbDtor) = IF a.data = Null THEN Allocated(h, a, c) ELSE Reallocated(h, a, c)
    BY <2>3, <2>4 DEF Resize
  <2>6. Push(h, a, e, ByVerbDtor) = PutBehind(Resize(h, a, c, ByVerbDtor).heap, Resize(h, a, c, ByVerbDtor).array, e)
    BY <1>2 DEF Push, c
  <2>7. Pushed(h, a, e) = LET r == IF a.data = Null THEN Allocated(h, a, c) ELSE Reallocated(h, a, c)
                          IN  PutBehind(r.heap, r.array, e)
    BY <1>2 DEF Pushed, Grown, c
  <2> QED BY <2>5, <2>6, <2>7
<1> QED BY <1>1, <1>2

LEMMA PushFight ==
  ASSUME NEW h, NEW a, ArrayOK(h, a), NEW e
  PROVE  Push(h, a, e, FightDtor) = Pushed(h, a, e)
<1> DEFINE c == nextCapacity(a.capacity)
<1>1. CASE a.size # a.capacity
  BY <1>1 DEF Push, Pushed, Grown
<1>2. CASE a.size = a.capacity
  <2>1. c \in Nat /\ c > a.capacity /\ a.capacity \in Nat
    BY CapacityGrows DEF ArrayOK
  <2>2. DOMAIN Kicked(h, a, c) = {}
    BY <2>1, <1>2, NothingKicked
  <2>3. FoldLeft(FightDtor, h, Kicked(h, a, c)) = h
    BY <2>2, NoFightFreed
  <2>4. c # 0 /\ c > 0
    BY <2>1
  <2> HIDE DEF c
  <2>5. Resize(h, a, c, FightDtor) = IF a.data = Null THEN Allocated(h, a, c) ELSE Reallocated(h, a, c)
    BY <2>3, <2>4 DEF Resize
  <2>6. Push(h, a, e, FightDtor) = PutBehind(Resize(h, a, c, FightDtor).heap, Resize(h, a, c, FightDtor).array, e)
    BY <1>2 DEF Push, c
  <2>7. Pushed(h, a, e) = LET r == IF a.data = Null THEN Allocated(h, a, c) ELSE Reallocated(h, a, c)
                          IN  PutBehind(r.heap, r.array, e)
    BY <1>2 DEF Pushed, Grown, c
  <2> QED BY <2>5, <2>6, <2>7
<1> QED BY <1>1, <1>2

LEMMA PushDeath ==
  ASSUME NEW h, NEW a, ArrayOK(h, a), NEW e
  PROVE  Push(h, a, e, NoDtor) = Pushed(h, a, e)
<1> DEFINE c == nextCapacity(a.capacity)
<1>1. CASE a.size # a.capacity
  BY <1>1 DEF Push, Pushed, Grown
<1>2. CASE a.size = a.capacity
  <2>1. c \in Nat /\ c > a.capacity /\ a.capacity \in Nat
    BY CapacityGrows DEF ArrayOK
  <2>2. DOMAIN Kicked(h, a, c) = {}
    BY <2>1, <1>2, NothingKicked
  <2>3. FoldLeft(NoDtor, h, Kicked(h, a, c)) = h
    BY <2>2, NoDeathFreed
  <2>4. c # 0 /\ c > 0
    BY <2>1
  <2> HIDE DEF c
  <2>5. Resize(h, a, c, NoDtor) = IF a.data = Null THEN Allocated(h, a, c) ELSE Reallocated(h, a, c)
    BY <2>3, <2>4 DEF Resize
  <2>6. Push(h, a, e, NoDtor) = PutBehind(Resize(h, a, c, NoDtor).heap, Resize(h, a, c, NoDtor).array, e)
    BY <1>2 DEF Push, c
  <2>7. Pushed(h, a, e) = LET r == IF a.data = Null THEN Allocated(h, a, c) ELSE Reallocated(h, a, c)
                          IN  PutBehind(r.heap, r.array, e)
    BY <1>2 DEF Pushed, Grown, c
  <2> QED BY <2>5, <2>6, <2>7
<1> QED BY <1>1, <1>2

(* The least position, which the loops of battle.c leave at. *)
LEMMA LeastPosition ==
  ASSUME NEW n \in Nat, NEW T \in SUBSET (1..n), T # {}
  PROVE  \E x \in T : \A y \in T : x <= y
<1> DEFINE R == StrictSubsetOrdering(1..n)
           D == FiniteSubsetsOf(1..n)
           W == {1..i : i \in T}
<1>1. IsWellFoundedOn(R, D)
  BY FS_StrictSubsetOrderingWellFounded
<1>2. W \subseteq D /\ W # {}
  <2>1. \A i \in T : IsFiniteSet(1..i)
    BY FS_Interval
  <2>2. \A i \in T : 1..i \in SUBSET (1..n)
    OBVIOUS
  <2>3. W \subseteq D
    BY <2>1, <2>2 DEF FiniteSubsetsOf
  <2> QED BY <2>3
<1>3. \E x \in W : \A y \in W : <<y, x>> \notin R
  <2> HIDE DEF R, D, W
  <2> QED BY <1>1, <1>2, WFMin
<1>4. PICK i \in T : \A j \in T : <<1..j, 1..i>> \notin R
  BY <1>3
<1>5. ASSUME NEW j \in T, j < i
      PROVE  <<1..j, 1..i>> \in R
  <2>1. i \in 1..i /\ i \notin 1..j
    BY <1>5
  <2>2. 1..j \subseteq 1..i /\ 1..j # 1..i
    BY <1>5, <2>1
  <2> QED BY <2>2 DEF StrictSubsetOrdering
<1>6. \A j \in T : i <= j
  <2>1. \A j \in T : ~(j < i)
    BY <1>4, <1>5, Zenon
  <2> QED BY <2>1
<1> QED BY <1>6

(* The search of Battle_getPCIndex finds a name that is there. *)

LEMMA FirstOfIs ==
  ASSUME NEW n \in Nat, NEW T \in SUBSET (1..n)
  PROVE  /\ T = {} => FirstOf(T) = 0
         /\ T # {} => FirstOf(T) \in T
<1>1. CASE T = {}
  BY <1>1 DEF FirstOf
<1>2. CASE T # {}
  <2>1. \E x \in T : \A y \in T : x <= y
    BY <1>2, LeastPosition
  <2>2. FirstOf(T) = CHOOSE x \in T : \A y \in T : x <= y
    BY <1>2 DEF FirstOf, Min
  <2> QED BY <2>1, <2>2, <1>2
<1> QED BY <1>1, <1>2

(* Who owns what, each block once. *)
Once(own, live) ==
  /\ \A b : b \in live <=> (b # Null /\ \E o \in DOMAIN own : own[o] = b)
  /\ \A o, p \in DOMAIN own : own[o] = own[p] /\ own[o] # Null => o = p

(* A block in one owner may be replaced by a new one. *)
LEMMA OnceMoved ==
  ASSUME NEW own, NEW own2, NEW live, NEW live2, Once(own, live), NEW o \in DOMAIN own,
         DOMAIN own2 = DOMAIN own,
         \A x \in DOMAIN own \ {o} : own2[x] = own[x],
         own2[o] # Null, own2[o] = own[o] \/ own2[o] \notin live,
         live2 = (live \ {own[o]}) \union {own2[o]}
  PROVE  Once(own2, live2)
<1>1. ASSUME NEW b PROVE b \in live2 <=> (b # Null /\ \E x \in DOMAIN own2 : own2[x] = b)
  <2>1. CASE b \in live2 /\ b = own2[o]
    BY <2>1
  <2>2. CASE b \in live2 /\ b # own2[o]
    <3>1. PICK x \in DOMAIN own : own[x] = b
      BY <2>2 DEF Once
    <3>2. x # o /\ b # Null
      BY <2>2, <3>1 DEF Once
    <3>3. own2[x] = b /\ x \in DOMAIN own2
      BY <3>1, <3>2
    <3> QED BY <3>2, <3>3, <2>2
  <2>3. CASE b \notin live2 /\ b # Null
    <3>1. b # own2[o] /\ (b \notin live \/ b = own[o])
      BY <2>3
    <3>2. ASSUME NEW x \in DOMAIN own, own2[x] = b PROVE FALSE
      <4>1. x # o /\ own[x] = b
        BY <3>1, <3>2
      <4>2. b = own[o]
        BY <4>1, <3>1, <2>3 DEF Once
      <4>3. own[x] = own[o] /\ own[x] # Null
        BY <4>1, <4>2, <2>3
      <4>4. x = o
        BY <4>3 DEF Once
      <4> QED BY <4>1, <4>4
    <3>3. ~ \E x \in DOMAIN own2 : own2[x] = b
      BY <3>2
    <3> QED BY <3>3, <2>3
  <2>4. CASE b = Null /\ b \in live2
    BY <2>4 DEF Once
  <2> QED BY <2>1, <2>2, <2>3, <2>4
<1>2. ASSUME NEW x \in DOMAIN own2, NEW y \in DOMAIN own2, own2[x] = own2[y], own2[x] # Null
      PROVE  x = y
  <2>1. ASSUME NEW z \in DOMAIN own, z # o, own2[z] = own2[o] PROVE FALSE
    <3>1. own[z] = own2[o] /\ own[z] # Null
      BY <2>1
    <3>2. own[z] \in live
      BY <3>1 DEF Once
    <3> QED BY <3>1, <3>2, <2>1 DEF Once
  <2>2. CASE x = o \/ y = o
    BY <2>1, <2>2, <1>2
  <2>3. CASE x # o /\ y # o
    BY <2>3, <1>2 DEF Once
  <2> QED BY <2>2, <2>3
<1> QED BY <1>1, <1>2 DEF Once

(* An owner with a new block, or none, may be added. *)
LEMMA OnceAdded ==
  ASSUME NEW own, NEW own2, NEW live, NEW live2, Once(own, live), NEW o, o \notin DOMAIN own,
         DOMAIN own2 = DOMAIN own \union {o},
         \A x \in DOMAIN own : own2[x] = own[x],
         own2[o] = Null \/ own2[o] \notin live,
         live2 = live \union ({own2[o]} \ {Null})
  PROVE  Once(own2, live2)
<1>1. ASSUME NEW b PROVE b \in live2 <=> (b # Null /\ \E x \in DOMAIN own2 : own2[x] = b)
  <2>1. CASE b = own2[o]
    <3>1. Null \notin live
      BY DEF Once
    <3> QED BY <2>1, <3>1
  <2>2. CASE b # own2[o]
    <3>1. b \in live2 <=> b \in live
      BY <2>2
    <3>2. (\E x \in DOMAIN own2 : own2[x] = b) <=> \E x \in DOMAIN own : own[x] = b
      BY <2>2
    <3> QED BY <3>1, <3>2 DEF Once
  <2> QED BY <2>1, <2>2
<1>2. ASSUME NEW x \in DOMAIN own2, NEW y \in DOMAIN own2, own2[x] = own2[y], own2[x] # Null
      PROVE  x = y
  <2>1. ASSUME NEW z \in DOMAIN own, own2[z] = own2[o], own2[z] # Null PROVE FALSE
    <3>1. own[z] = own2[o] /\ own[z] # Null
      BY <2>1
    <3>2. own[z] \in live
      BY <3>1 DEF Once
    <3> QED BY <3>1, <3>2
  <2>2. CASE x = o \/ y = o
    BY <2>1, <2>2, <1>2
  <2>3. CASE x # o /\ y # o
    BY <2>3, <1>2 DEF Once
  <2> QED BY <2>2, <2>3
<1> QED BY <1>1, <1>2 DEF Once

(* Both at once: an array moves, and its new element owns a block. *)
LEMMA OnceGrown ==
  ASSUME NEW own, NEW own2, NEW live, NEW live2, Once(own, live),
         NEW o \in DOMAIN own, NEW p, p \notin DOMAIN own,
         DOMAIN own2 = DOMAIN own \union {p},
         \A x \in DOMAIN own \ {o} : own2[x] = own[x],
         own2[p] = Null \/ own2[p] \notin live,
         own2[o] # Null, own2[o] = own[o] \/ own2[o] \notin live \union {own2[p]},
         own2[p] # Null => own2[p] # own[o],
         live2 = ((live \union ({own2[p]} \ {Null})) \ {own[o]}) \union {own2[o]}
  PROVE  Once(own2, live2)
<1> DEFINE own1 == [x \in DOMAIN own \union {p} |-> IF x = p THEN own2[p] ELSE own[x]]
           live1 == live \union ({own2[p]} \ {Null})
<1>1. /\ DOMAIN own1 = DOMAIN own \union {p} /\ own1[p] = own2[p]
      /\ \A x \in DOMAIN own : own1[x] = own[x]
  OBVIOUS
<1> HIDE DEF own1
<1>2. Once(own1, live1)
  BY <1>1, OnceAdded
<1>3. o \in DOMAIN own1 /\ DOMAIN own2 = DOMAIN own1 /\ own1[o] = own[o]
  BY <1>1
<1>4. \A x \in DOMAIN own1 \ {o} : own2[x] = own1[x]
  BY <1>1
<1>5. own2[o] = own1[o] \/ own2[o] \notin live1
  BY <1>3
<1>6. live2 = (live1 \ {own1[o]}) \union {own2[o]}
  BY <1>3
<1> HIDE DEF live1
<1> QED BY <1>2, <1>3, <1>4, <1>5, <1>6, OnceMoved

(* The arrays of a battle in order: what they point to is there, no name,  *)
(* pair or verb is twice, the ids are of names.                            *)
NameAt(h, pc, i) == Text(h, Cell(h, pc, i))
VerbAt(h, v, j)  == Text(h, Cell(h, v, j).m_verb)
Verbs(h, ft, i)  == Cell(h, ft, i).m_byVerb

VerbOK(h, c) == /\ c = [m_verb |-> c.m_verb, hits |-> c.hits] /\ c.hits \in Nat
                /\ c.m_verb.data \in DOMAIN h.live /\ Text(h, c.m_verb) \in Verb
VerbsOK(h, v) ==
  /\ ArrayOK(h, v)
  /\ \A j \in 1..v.size : VerbOK(h, Cell(h, v, j))
  /\ \A j, k \in 1..v.size : VerbAt(h, v, j) = VerbAt(h, v, k) => j = k
FightOK(h, n, f) ==
  /\ f = [sourceId |-> f.sourceId, targetId |-> f.targetId, m_byVerb |-> f.m_byVerb]
  /\ f.sourceId \in 1..n /\ f.targetId \in 1..n
  /\ VerbsOK(h, f.m_byVerb)
PcOK(h, pc) ==
  /\ ArrayOK(h, pc)
  /\ \A i \in 1..pc.size : Cell(h, pc, i).data \in DOMAIN h.live /\ NameAt(h, pc, i) \in Name
  /\ \A i, j \in 1..pc.size : NameAt(h, pc, i) = NameAt(h, pc, j) => i = j
SamePair(h, ft, i, j) == /\ Cell(h, ft, i).sourceId = Cell(h, ft, j).sourceId
                         /\ Cell(h, ft, i).targetId = Cell(h, ft, j).targetId
FtOK(h, n, ft) ==
  /\ ArrayOK(h, ft)
  /\ \A i \in 1..ft.size : FightOK(h, n, Cell(h, ft, i))
  /\ \A i, j \in 1..ft.size : SamePair(h, ft, i, j) => i = j
DtOK(h, n, dt) ==
  /\ ArrayOK(h, dt)
  /\ \A i \in 1..dt.size : Cell(h, dt, i).sourceId \in 1..n /\ Cell(h, dt, i).targetId \in 1..n

Own(h, pc, ft, dt) == [o \in Owners(h, pc, ft) |-> BlockOf(h, pc, ft, dt, o)]
WF(h, pc, ft, dt) ==
  /\ HeapOK(h) /\ PcOK(h, pc) /\ FtOK(h, pc.size, ft) /\ DtOK(h, pc.size, dt)
  /\ Once(Own(h, pc, ft, dt), DOMAIN h.live)

OfPc == <<"pc", 0, 0>>
OfFight == <<"fight", 0, 0>>
OfDeath == <<"death", 0, 0>>
OfString(i) == <<"string", i, 0>>
OfByVerb(i) == <<"byVerb", i, 0>>
OfVerb(i, j) == <<"verb", i, j>>

(* Which owners there are. *)
LEMMA OwnersAre ==
  ASSUME NEW h, NEW pc, NEW ft, ArrayOK(h, ft)
  PROVE  \A o : o \in Owners(h, pc, ft) <=>
           \/ o \in {OfPc, OfFight, OfDeath}
           \/ \E i \in 1..pc.size : o = OfString(i)
           \/ \E i \in 1..ft.size : o = OfByVerb(i)
           \/ \E i \in 1..ft.size : \E j \in 1..Verbs(h, ft, i).size : o = OfVerb(i, j)
<1>1. \A i \in 1..ft.size : Elements(h, ft)[i] = Cell(h, ft, i)
  BY ElementsAre
<1>2. Owners(h, pc, ft) =
        {OfPc, OfFight, OfDeath} \union {OfString(i) : i \in 1..pc.size}
          \union {OfByVerb(i) : i \in 1..ft.size}
          \union UNION {{OfVerb(i, j) : j \in 1..Elements(h, ft)[i].m_byVerb.size} : i \in 1..ft.size}
  BY DEF Owners, OfPc, OfFight, OfDeath, OfString, OfByVerb, OfVerb
<1> DEFINE Vs(i) == {OfVerb(i, j) : j \in 1..Elements(h, ft)[i].m_byVerb.size}
<1>3. \A i \in 1..ft.size : \A o : o \in Vs(i) <=> \E j \in 1..Verbs(h, ft, i).size : o = OfVerb(i, j)
  BY <1>1 DEF Verbs
<1>4. \A o : o \in Owners(h, pc, ft) <=>
           \/ o \in {OfPc, OfFight, OfDeath}
           \/ o \in {OfString(i) : i \in 1..pc.size}
           \/ o \in {OfByVerb(i) : i \in 1..ft.size}
           \/ \E i \in 1..ft.size : o \in Vs(i)
  <2> HIDE DEF OfPc, OfFight, OfDeath, OfString, OfByVerb, OfVerb
  <2>1. Owners(h, pc, ft) =
        {OfPc, OfFight, OfDeath} \union {OfString(i) : i \in 1..pc.size}
          \union {OfByVerb(i) : i \in 1..ft.size} \union UNION {Vs(i) : i \in 1..ft.size}
    BY <1>2
  <2> HIDE DEF Vs
  <2> QED BY <2>1
<1> HIDE DEF Vs
<1>5. \A o : (\E i \in 1..ft.size : o \in Vs(i))
         <=> \E i \in 1..ft.size : \E j \in 1..Verbs(h, ft, i).size : o = OfVerb(i, j)
  BY <1>3
<1> QED BY <1>4, <1>5

(* Distinct owners are told apart. *)
LEMMA OwnersApart ==
  /\ OfPc # OfFight /\ OfPc # OfDeath /\ OfFight # OfDeath
  /\ \A i : OfString(i) \notin {OfPc, OfFight, OfDeath} /\ OfByVerb(i) \notin {OfPc, OfFight, OfDeath}
  /\ \A i, j : OfVerb(i, j) \notin {OfPc, OfFight, OfDeath} /\ OfString(i) # OfByVerb(j)
  /\ \A i, j : OfString(i) = OfString(j) => i = j
  /\ \A i, j : OfByVerb(i) = OfByVerb(j) => i = j
  /\ \A i, j, k : OfVerb(i, j) # OfString(k) /\ OfVerb(i, j) # OfByVerb(k)
  /\ \A i, j, k, l : OfVerb(i, j) = OfVerb(k, l) => i = k /\ j = l
BY DEF OfPc, OfFight, OfDeath, OfString, OfByVerb, OfVerb

(* And what each owns. *)
LEMMA OwnIs ==
  ASSUME NEW h, NEW pc, NEW ft, NEW dt, ArrayOK(h, pc), ArrayOK(h, ft),
         \A i \in 1..ft.size : ArrayOK(h, Verbs(h, ft, i))
  PROVE  LET own == Own(h, pc, ft, dt)
         IN  /\ DOMAIN own = Owners(h, pc, ft)
             /\ {OfPc, OfFight, OfDeath} \subseteq DOMAIN own
             /\ own[OfPc] = pc.data /\ own[OfFight] = ft.data /\ own[OfDeath] = dt.data
             /\ \A i \in 1..pc.size : OfString(i) \in DOMAIN own /\ own[OfString(i)] = Cell(h, pc, i).data
             /\ \A i \in 1..ft.size : OfByVerb(i) \in DOMAIN own /\ own[OfByVerb(i)] = Verbs(h, ft, i).data
             /\ \A i \in 1..ft.size : \A j \in 1..Verbs(h, ft, i).size :
                  /\ OfVerb(i, j) \in DOMAIN own
                  /\ own[OfVerb(i, j)] = Cell(h, Verbs(h, ft, i), j).m_verb.data
<1>1. \A i \in 1..ft.size : Elements(h, ft)[i] = Cell(h, ft, i)
  BY ElementsAre
<1>2. \A i \in 1..pc.size : Elements(h, pc)[i] = Cell(h, pc, i)
  BY ElementsAre
<1>3. \A i \in 1..ft.size : \A j \in 1..Verbs(h, ft, i).size :
         Elements(h, Verbs(h, ft, i))[j] = Cell(h, Verbs(h, ft, i), j)
  BY ElementsAre
<1>4. /\ BlockOf(h, pc, ft, dt, OfPc) = pc.data
      /\ BlockOf(h, pc, ft, dt, OfFight) = ft.data
      /\ BlockOf(h, pc, ft, dt, OfDeath) = dt.data
  BY DEF BlockOf, OfPc, OfFight, OfDeath
<1>5. \A i : BlockOf(h, pc, ft, dt, OfString(i)) = Elements(h, pc)[i].data
  BY DEF BlockOf, OfString
<1>6. \A i : BlockOf(h, pc, ft, dt, OfByVerb(i)) = Elements(h, ft)[i].m_byVerb.data
  BY DEF BlockOf, OfByVerb
<1>7. \A i, j : BlockOf(h, pc, ft, dt, OfVerb(i, j)) = Elements(h, Elements(h, ft)[i].m_byVerb)[j].m_verb.data
  BY DEF BlockOf, OfVerb
<1>8. \A i \in 1..ft.size : Elements(h, ft)[i].m_byVerb = Verbs(h, ft, i)
  BY <1>1 DEF Verbs
<1> DEFINE own == Own(h, pc, ft, dt)
<1>9. DOMAIN own = Owners(h, pc, ft) /\ \A o \in Owners(h, pc, ft) : own[o] = BlockOf(h, pc, ft, dt, o)
  BY DEF Own
<1> HIDE DEF own
<1>10. /\ {OfPc, OfFight, OfDeath} \subseteq DOMAIN own
       /\ \A i \in 1..pc.size : OfString(i) \in DOMAIN own
       /\ \A i \in 1..ft.size : OfByVerb(i) \in DOMAIN own
       /\ \A i \in 1..ft.size : \A j \in 1..Verbs(h, ft, i).size : OfVerb(i, j) \in DOMAIN own
  BY <1>9, OwnersAre
<1>11. own[OfPc] = pc.data /\ own[OfFight] = ft.data /\ own[OfDeath] = dt.data
  BY <1>4, <1>9, <1>10
<1>12. \A i \in 1..pc.size : own[OfString(i)] = Cell(h, pc, i).data
  BY <1>2, <1>5, <1>9, <1>10
<1>13. \A i \in 1..ft.size : own[OfByVerb(i)] = Verbs(h, ft, i).data
  BY <1>6, <1>8, <1>9, <1>10
<1>14. \A i \in 1..ft.size : \A j \in 1..Verbs(h, ft, i).size :
         own[OfVerb(i, j)] = Cell(h, Verbs(h, ft, i), j).m_verb.data
  <2> TAKE i \in 1..ft.size
  <2> TAKE j \in 1..Verbs(h, ft, i).size
  <2>1. own[OfVerb(i, j)] = Elements(h, Elements(h, ft)[i].m_byVerb)[j].m_verb.data
    BY <1>7, <1>9, <1>10
  <2>2. Elements(h, ft)[i].m_byVerb = Verbs(h, ft, i)
    BY <1>8
  <2>3. Elements(h, Verbs(h, ft, i))[j] = Cell(h, Verbs(h, ft, i), j)
    BY <1>3
  <2> QED BY <2>1, <2>2, <2>3
<1> QED BY <1>9, <1>10, <1>11, <1>12, <1>13, <1>14 DEF own

(* What is not touched is what it was. *)
Same(h, g, b) == b \in DOMAIN g.live /\ g.live[b] = h.live[b]

(* An array keeps its cells while its block is not touched. *)
LEMMA ArrayKept ==
  ASSUME NEW h, NEW g, NEW a, ArrayOK(h, a), a.data # Null => Same(h, g, a.data)
  PROVE  /\ ArrayOK(g, a)
         /\ \A i \in 1..a.size : Cell(g, a, i) = Cell(h, a, i)
<1>1. ArrayOK(g, a)
  BY DEF ArrayOK, Same
<1>2. \A i \in 1..a.size : a.data # Null
  BY DEF ArrayOK
<1>3. \A i \in 1..a.size : Cell(g, a, i) = Cell(h, a, i)
  BY <1>2 DEF Cell, Same
<1> QED BY <1>1, <1>3

LEMMA PcKept ==
  ASSUME NEW h, NEW g, NEW pc, PcOK(h, pc), pc.data # Null => Same(h, g, pc.data),
         \A i \in 1..pc.size : Same(h, g, Cell(h, pc, i).data)
  PROVE  /\ PcOK(g, pc)
         /\ \A i \in 1..pc.size : Cell(g, pc, i) = Cell(h, pc, i) /\ NameAt(g, pc, i) = NameAt(h, pc, i)
<1>1. ArrayOK(g, pc) /\ \A i \in 1..pc.size : Cell(g, pc, i) = Cell(h, pc, i)
  <2>1. ArrayOK(h, pc)
    BY DEF PcOK
  <2> QED BY <2>1, ArrayKept
<1>2. \A i \in 1..pc.size : NameAt(g, pc, i) = NameAt(h, pc, i) /\ Cell(g, pc, i).data \in DOMAIN g.live
  BY <1>1 DEF NameAt, Text, Same
<1> QED BY <1>1, <1>2 DEF PcOK

LEMMA VerbsKept ==
  ASSUME NEW h, NEW g, NEW v, VerbsOK(h, v), v.data # Null => Same(h, g, v.data),
         \A j \in 1..v.size : Same(h, g, Cell(h, v, j).m_verb.data)
  PROVE  /\ VerbsOK(g, v)
         /\ \A j \in 1..v.size : Cell(g, v, j) = Cell(h, v, j) /\ VerbAt(g, v, j) = VerbAt(h, v, j)
<1>1. ArrayOK(g, v) /\ \A j \in 1..v.size : Cell(g, v, j) = Cell(h, v, j)
  <2>1. ArrayOK(h, v)
    BY DEF VerbsOK
  <2> QED BY <2>1, ArrayKept
<1>2. \A j \in 1..v.size : VerbAt(g, v, j) = VerbAt(h, v, j)
  BY <1>1 DEF VerbAt, Text, Same
<1>3. \A j \in 1..v.size : VerbOK(g, Cell(g, v, j))
  <2> TAKE j \in 1..v.size
  <2>1. VerbOK(h, Cell(h, v, j)) /\ Cell(g, v, j) = Cell(h, v, j)
    BY <1>1 DEF VerbsOK
  <2>2. Same(h, g, Cell(h, v, j).m_verb.data)
    OBVIOUS
  <2> QED BY <2>1, <2>2 DEF VerbOK, Same, Text
<1> QED BY <1>1, <1>2, <1>3 DEF VerbsOK

KeptVerbs(h, g, v) ==
  \A j \in 1..v.size : Cell(g, v, j) = Cell(h, v, j) /\ VerbAt(g, v, j) = VerbAt(h, v, j)
KeptFights(h, g, ft) ==
  \A i \in 1..ft.size : Cell(g, ft, i) = Cell(h, ft, i) /\ KeptVerbs(h, g, Verbs(h, ft, i))
KeptNames(h, g, pc) ==
  \A i \in 1..pc.size : Cell(g, pc, i) = Cell(h, pc, i) /\ NameAt(g, pc, i) = NameAt(h, pc, i)
KeptDeaths(h, g, dt) == \A i \in 1..dt.size : Cell(g, dt, i) = Cell(h, dt, i)

LEMMA FtKept ==
  ASSUME NEW h, NEW g, NEW n \in Nat, NEW m \in Nat, n <= m, NEW ft, FtOK(h, n, ft),
         ft.data # Null => Same(h, g, ft.data),
         \A i \in 1..ft.size : Verbs(h, ft, i).data # Null => Same(h, g, Verbs(h, ft, i).data),
         \A i \in 1..ft.size : \A j \in 1..Verbs(h, ft, i).size :
           Same(h, g, Cell(h, Verbs(h, ft, i), j).m_verb.data)
  PROVE  FtOK(g, m, ft) /\ KeptFights(h, g, ft)
<1>1. ArrayOK(g, ft) /\ \A i \in 1..ft.size : Cell(g, ft, i) = Cell(h, ft, i)
  <2>1. ArrayOK(h, ft)
    BY DEF FtOK
  <2> QED BY <2>1, ArrayKept
<1>2. \A i \in 1..ft.size : VerbsOK(g, Verbs(h, ft, i)) /\ KeptVerbs(h, g, Verbs(h, ft, i))
  <2> TAKE i \in 1..ft.size
  <2>1. VerbsOK(h, Verbs(h, ft, i))
    BY DEF FtOK, FightOK, Verbs
  <2> QED BY <2>1, VerbsKept DEF KeptVerbs
<1>3. \A i \in 1..ft.size : FightOK(g, m, Cell(g, ft, i))
  <2> TAKE i \in 1..ft.size
  <2>1. FightOK(h, n, Cell(h, ft, i)) /\ Cell(g, ft, i) = Cell(h, ft, i)
    BY <1>1 DEF FtOK
  <2>2. VerbsOK(g, Cell(h, ft, i).m_byVerb)
    BY <1>2 DEF Verbs
  <2> QED BY <2>1, <2>2 DEF FightOK
<1>4. \A i, j \in 1..ft.size : SamePair(g, ft, i, j) => i = j
  BY <1>1 DEF SamePair, FtOK
<1>5. KeptFights(h, g, ft)
  BY <1>1, <1>2 DEF KeptFights
<1>6. FtOK(g, m, ft)
  BY <1>1, <1>3, <1>4 DEF FtOK
<1> QED BY <1>5, <1>6

LEMMA DtKept ==
  ASSUME NEW h, NEW g, NEW n \in Nat, NEW m \in Nat, n <= m, NEW dt, DtOK(h, n, dt),
         dt.data # Null => Same(h, g, dt.data)
  PROVE  DtOK(g, m, dt) /\ KeptDeaths(h, g, dt)
<1>1. ArrayOK(g, dt) /\ \A i \in 1..dt.size : Cell(g, dt, i) = Cell(h, dt, i)
  <2>1. ArrayOK(h, dt)
    BY DEF DtOK
  <2> QED BY <2>1, ArrayKept
<1> QED BY <1>1 DEF DtOK, KeptDeaths

(* What the owners of a battle in order own. *)
LEMMA OwnInOrder ==
  ASSUME NEW h, NEW pc, NEW ft, NEW dt, WF(h, pc, ft, dt)
  PROVE  LET own == Own(h, pc, ft, dt)
         IN  /\ Once(own, DOMAIN h.live) /\ Null \notin DOMAIN h.live
             /\ DOMAIN own = Owners(h, pc, ft)
             /\ {OfPc, OfFight, OfDeath} \subseteq DOMAIN own
             /\ own[OfPc] = pc.data /\ own[OfFight] = ft.data /\ own[OfDeath] = dt.data
             /\ \A i \in 1..pc.size : OfString(i) \in DOMAIN own /\ own[OfString(i)] = Cell(h, pc, i).data
             /\ \A i \in 1..ft.size : OfByVerb(i) \in DOMAIN own /\ own[OfByVerb(i)] = Verbs(h, ft, i).data
             /\ \A i \in 1..ft.size : \A j \in 1..Verbs(h, ft, i).size :
                  /\ OfVerb(i, j) \in DOMAIN own
                  /\ own[OfVerb(i, j)] = Cell(h, Verbs(h, ft, i), j).m_verb.data
<1>1. ArrayOK(h, pc) /\ ArrayOK(h, ft)
  BY DEF WF, PcOK, FtOK
<1>2. \A i \in 1..ft.size : ArrayOK(h, Verbs(h, ft, i))
  BY DEF WF, FtOK, FightOK, VerbsOK, Verbs
<1>3. Once(Own(h, pc, ft, dt), DOMAIN h.live) /\ Null \notin DOMAIN h.live
  BY DEF WF, HeapOK, Null
<1> QED BY <1>1, <1>2, <1>3, OwnIs

(* What a call leaves alone: all blocks but those of a few owners. *)
Untouched(h, g, own, some) ==
  \A o \in DOMAIN own \ some : own[o] # Null => Same(h, g, own[o])

(* If only the blocks of some owners change, the others see nothing. *)
LEMMA OthersUntouched ==
  ASSUME NEW h, NEW g, NEW own, Once(own, DOMAIN h.live), NEW some, some \subseteq DOMAIN own,
         \A b \in DOMAIN h.live : (\A o \in some : b # own[o]) => Same(h, g, b)
  PROVE  Untouched(h, g, own, some)
<1> SUFFICES ASSUME NEW o \in DOMAIN own \ some, own[o] # Null PROVE Same(h, g, own[o])
  BY DEF Untouched
<1>1. own[o] \in DOMAIN h.live
  BY DEF Once
<1>2. \A p \in some : own[o] # own[p]
  BY DEF Once
<1> QED BY <1>1, <1>2

LEMMA NamesUntouched ==
  ASSUME NEW h, NEW pc, NEW ft, NEW dt, WF(h, pc, ft, dt), NEW g,
         NEW some, Untouched(h, g, Own(h, pc, ft, dt), some),
         OfPc \notin some, \A i \in 1..pc.size : OfString(i) \notin some
  PROVE  PcOK(g, pc) /\ KeptNames(h, g, pc)
<1> DEFINE own == Own(h, pc, ft, dt)
<1>1. /\ OfPc \in DOMAIN own /\ own[OfPc] = pc.data /\ Null \notin DOMAIN h.live
      /\ \A i \in 1..pc.size : OfString(i) \in DOMAIN own /\ own[OfString(i)] = Cell(h, pc, i).data
  BY OwnInOrder
<1>2. PcOK(h, pc)
  BY DEF WF
<1> HIDE DEF own
<1>3. pc.data # Null => Same(h, g, pc.data)
  BY <1>1 DEF Untouched, own
<1>4. \A i \in 1..pc.size : Same(h, g, Cell(h, pc, i).data)
  <2> TAKE i \in 1..pc.size
  <2>1. Cell(h, pc, i).data \in DOMAIN h.live
    BY <1>2 DEF PcOK
  <2>2. own[OfString(i)] # Null /\ OfString(i) \in DOMAIN own \ some
    BY <2>1, <1>1
  <2> QED BY <2>2, <1>1 DEF Untouched, own
<1> QED BY <1>2, <1>3, <1>4, PcKept DEF KeptNames

LEMMA VerbsUntouched ==
  ASSUME NEW h, NEW pc, NEW ft, NEW dt, WF(h, pc, ft, dt), NEW g,
         NEW some, Untouched(h, g, Own(h, pc, ft, dt), some), NEW i \in 1..ft.size,
         OfByVerb(i) \notin some, \A j \in 1..Verbs(h, ft, i).size : OfVerb(i, j) \notin some
  PROVE  VerbsOK(g, Verbs(h, ft, i)) /\ KeptVerbs(h, g, Verbs(h, ft, i))
<1> DEFINE own == Own(h, pc, ft, dt)
           v == Verbs(h, ft, i)
<1>1. /\ OfByVerb(i) \in DOMAIN own /\ own[OfByVerb(i)] = v.data /\ Null \notin DOMAIN h.live
      /\ \A j \in 1..v.size : OfVerb(i, j) \in DOMAIN own /\ own[OfVerb(i, j)] = Cell(h, v, j).m_verb.data
  BY OwnInOrder
<1>2. VerbsOK(h, v)
  BY DEF WF, FtOK, FightOK, Verbs
<1> HIDE DEF own
<1>3. v.data # Null => Same(h, g, v.data)
  BY <1>1 DEF Untouched, own
<1>4. \A j \in 1..v.size : Same(h, g, Cell(h, v, j).m_verb.data)
  <2> TAKE j \in 1..v.size
  <2>1. Cell(h, v, j).m_verb.data \in DOMAIN h.live
    BY <1>2 DEF VerbsOK, VerbOK
  <2>2. own[OfVerb(i, j)] # Null /\ OfVerb(i, j) \in DOMAIN own \ some
    BY <2>1, <1>1
  <2> QED BY <2>2, <1>1 DEF Untouched, own
<1> HIDE DEF v
<1>5. VerbsOK(g, v) /\ KeptVerbs(h, g, v)
  BY <1>2, <1>3, <1>4, VerbsKept DEF KeptVerbs
<1> QED BY <1>5 DEF v

LEMMA FightsUntouched ==
  ASSUME NEW h, NEW pc, NEW ft, NEW dt, WF(h, pc, ft, dt), NEW g,
         NEW some, Untouched(h, g, Own(h, pc, ft, dt), some),
         OfFight \notin some, NEW m \in Nat, pc.size <= m,
         \A i \in 1..ft.size : OfByVerb(i) \notin some,
         \A i \in 1..ft.size : \A j \in 1..Verbs(h, ft, i).size : OfVerb(i, j) \notin some
  PROVE  FtOK(g, m, ft) /\ KeptFights(h, g, ft)
<1>1. FtOK(h, pc.size, ft) /\ pc.size \in Nat /\ ArrayOK(h, ft)
  BY DEF WF, PcOK, ArrayOK, FtOK
<1>2. ft.data # Null => Same(h, g, ft.data)
  <2>1. OfFight \in DOMAIN Own(h, pc, ft, dt) /\ Own(h, pc, ft, dt)[OfFight] = ft.data
    BY OwnInOrder
  <2> QED BY <2>1 DEF Untouched
<1>3. ArrayOK(g, ft) /\ \A i \in 1..ft.size : Cell(g, ft, i) = Cell(h, ft, i)
  BY <1>1, <1>2, ArrayKept
<1>4. \A i \in 1..ft.size : VerbsOK(g, Verbs(h, ft, i)) /\ KeptVerbs(h, g, Verbs(h, ft, i))
  BY VerbsUntouched
<1>5. \A i \in 1..ft.size : FightOK(g, m, Cell(g, ft, i))
  <2> TAKE i \in 1..ft.size
  <2>1. FightOK(h, pc.size, Cell(h, ft, i)) /\ Cell(g, ft, i) = Cell(h, ft, i)
    BY <1>1, <1>3 DEF FtOK
  <2>2. VerbsOK(g, Cell(h, ft, i).m_byVerb)
    BY <1>4 DEF Verbs
  <2> QED BY <2>1, <2>2, <1>1 DEF FightOK
<1>6. \A i, j \in 1..ft.size : SamePair(g, ft, i, j) => i = j
  BY <1>1, <1>3 DEF SamePair, FtOK
<1>7. KeptFights(h, g, ft)
  BY <1>3, <1>4 DEF KeptFights
<1> QED BY <1>3, <1>5, <1>6, <1>7 DEF FtOK

LEMMA DeathsUntouched ==
  ASSUME NEW h, NEW pc, NEW ft, NEW dt, WF(h, pc, ft, dt), NEW g,
         NEW some, Untouched(h, g, Own(h, pc, ft, dt), some),
         OfDeath \notin some, NEW m \in Nat, pc.size <= m
  PROVE  DtOK(g, m, dt) /\ KeptDeaths(h, g, dt)
<1>1. DtOK(h, pc.size, dt) /\ pc.size \in Nat
  BY DEF WF, PcOK, ArrayOK
<1>2. dt.data # Null => Same(h, g, dt.data)
  <2>1. OfDeath \in DOMAIN Own(h, pc, ft, dt) /\ Own(h, pc, ft, dt)[OfDeath] = dt.data
    BY OwnInOrder
  <2> QED BY <2>1 DEF Untouched
<1> QED BY <1>1, <1>2, DtKept

-----------------------------------------------------------------------------
(* Battle_getPCIndex. *)
LEMMA PCIndexIs ==
  ASSUME NEW h, NEW pc, PcOK(h, pc), NEW name
  PROVE  /\ PCIndex(h, pc, name) \in 0..pc.size
         /\ PCIndex(h, pc, name) # 0 => NameAt(h, pc, PCIndex(h, pc, name)) = name
         /\ PCIndex(h, pc, name) = 0 => \A i \in 1..pc.size : NameAt(h, pc, i) # name
         /\ \A i \in 1..pc.size : NameAt(h, pc, i) = name => PCIndex(h, pc, name) = i
<1>1. ArrayOK(h, pc) /\ pc.size \in Nat
  BY DEF PcOK, ArrayOK
<1>2. \A i \in 1..pc.size : Elements(h, pc)[i] = Cell(h, pc, i)
  BY <1>1, ElementsAre
<1> DEFINE T == {i \in 1..pc.size : Text(h, Elements(h, pc)[i]) = name}
<1>3. \A i : i \in T <=> i \in 1..pc.size /\ NameAt(h, pc, i) = name
  BY <1>2 DEF NameAt
<1>4. PCIndex(h, pc, name) = FirstOf(T)
  BY DEF PCIndex
<1>5. T \in SUBSET (1..pc.size)
  OBVIOUS
<1> HIDE DEF T
<1>6. (T = {} => FirstOf(T) = 0) /\ (T # {} => FirstOf(T) \in T)
  BY <1>1, <1>5, FirstOfIs
<1>7. \A i, j \in 1..pc.size : NameAt(h, pc, i) = NameAt(h, pc, j) => i = j
  BY DEF PcOK
<1>8. CASE T = {}
  <2>1. PCIndex(h, pc, name) = 0
    BY <1>4, <1>6, <1>8
  <2> QED BY <2>1, <1>1, <1>3, <1>8
<1>9. CASE T # {}
  <2>1. PCIndex(h, pc, name) \in T
    BY <1>4, <1>6, <1>9
  <2> QED BY <2>1, <1>1, <1>3, <1>7
<1> QED BY <1>8, <1>9

(* Battle_getPCIndex: the copy of a new name moves into the array. *)
LEMMA NewNameInterned ==
  ASSUME NEW h, NEW pc, NEW ft, NEW dt, WF(h, pc, ft, dt), NEW name \in Name,
         \A i \in 1..pc.size : NameAt(h, pc, i) # name
  PROVE  LET copy == Copy(h, name)
             r == Pushed(copy.heap, pc, copy.string)
         IN  /\ WF(r.heap, r.array, ft, dt)
             /\ r.array.size = pc.size + 1
             /\ NameAt(r.heap, r.array, pc.size + 1) = name
             /\ \A i \in 1..pc.size : NameAt(r.heap, r.array, i) = NameAt(h, pc, i)
             /\ KeptFights(h, r.heap, ft) /\ KeptDeaths(h, r.heap, dt)
<1> DEFINE n == h.next
           h1 == Malloc(h, <<name>>)
           s == [data |-> n]
           r == Pushed(h1, pc, s)
           g == r.heap
           own == Own(h, pc, ft, dt)
           own2 == Own(g, r.array, ft, dt)
<1>1. /\ HeapOK(h) /\ PcOK(h, pc) /\ ArrayOK(h, pc) /\ pc.size \in Nat /\ pc.data \in Nat
      /\ FtOK(h, pc.size, ft) /\ ArrayOK(h, ft)
  BY DEF WF, PcOK, ArrayOK, FtOK
<1>2. /\ HeapOK(h1) /\ h1.live[n] = <<name>> /\ n \notin DOMAIN h.live /\ n # Null
      /\ DOMAIN h1.live = DOMAIN h.live \union {n}
      /\ \A b \in DOMAIN h.live : h1.live[b] = h.live[b]
  <2>1. Memory(<<name>>)
    BY DEF Memory
  <2> QED BY <2>1, <1>1, MallocIs
<1> HIDE DEF h1, n
<1>3. pc.data # Null => pc.data \in DOMAIN h.live
  BY <1>1 DEF ArrayOK
<1>4. ArrayOK(h1, pc) /\ \A i \in 1..pc.size : Cell(h1, pc, i) = Cell(h, pc, i)
  BY <1>1, <1>2, <1>3, ArrayKept DEF Same
<1>5. /\ HeapOK(g) /\ ArrayOK(g, r.array)
      /\ r.array.size = pc.size + 1 /\ r.array.data # Null
      /\ r.array.data = pc.data \/ (r.array.data \notin DOMAIN h1.live)
      /\ DOMAIN g.live = (DOMAIN h1.live \ {pc.data}) \union {r.array.data}
      /\ \A b \in DOMAIN h1.live \ {pc.data} : g.live[b] = h1.live[b]
      /\ \A i \in 1..pc.size : Cell(g, r.array, i) = Cell(h1, pc, i)
      /\ Cell(g, r.array, pc.size + 1) = s
  BY <1>2, <1>4, PushedIs
<1>6. Copy(h, name) = [heap |-> h1, string |-> s]
  BY DEF Copy, h1, n
<1> HIDE DEF r, s
<1>7. /\ Once(own, DOMAIN h.live) /\ Null \notin DOMAIN h.live
      /\ DOMAIN own = Owners(h, pc, ft) /\ {OfPc, OfFight, OfDeath} \subseteq DOMAIN own
      /\ own[OfPc] = pc.data
  BY OwnInOrder
<1>8. n # pc.data /\ n # r.array.data
  BY <1>2, <1>3, <1>5
<1>9. n \in DOMAIN g.live /\ g.live[n] = <<name>>
  BY <1>2, <1>5, <1>8
<1>10. \A b \in DOMAIN h.live : b # pc.data => Same(h, g, b)
  BY <1>2, <1>5 DEF Same
<1>11. Untouched(h, g, own, {OfPc})
  <2>1. {OfPc} \subseteq DOMAIN own
    BY <1>7
  <2>2. \A b \in DOMAIN h.live : (\A o \in {OfPc} : b # own[o]) => Same(h, g, b)
    BY <1>7, <1>10
  <2> HIDE DEF own
  <2> QED BY <1>7, <2>1, <2>2, OthersUntouched
<1>12. pc.size + 1 \in Nat /\ pc.size <= pc.size + 1
  BY <1>1
<1>13. FtOK(g, pc.size + 1, ft) /\ KeptFights(h, g, ft)
  <2>1. OfFight \notin {OfPc} /\ (\A i : OfByVerb(i) \notin {OfPc}) /\ \A i, j : OfVerb(i, j) \notin {OfPc}
    BY OwnersApart
  <2> HIDE DEF own, g
  <2> QED BY <1>11, <1>12, <2>1, FightsUntouched DEF own
<1>14. DtOK(g, pc.size + 1, dt) /\ KeptDeaths(h, g, dt)
  <2>1. OfDeath \notin {OfPc}
    BY OwnersApart
  <2> HIDE DEF own, g
  <2> QED BY <1>11, <1>12, <2>1, DeathsUntouched DEF own
<1>15. \A i \in 1..pc.size : /\ Cell(g, r.array, i) = Cell(h, pc, i)
                             /\ Cell(g, r.array, i).data \in DOMAIN g.live
                             /\ NameAt(g, r.array, i) = NameAt(h, pc, i)
  <2> TAKE i \in 1..pc.size
  <2>1. Cell(g, r.array, i) = Cell(h, pc, i)
    BY <1>4, <1>5
  <2>2. Cell(h, pc, i).data \in DOMAIN h.live
    BY <1>1 DEF PcOK
  <2>3. Cell(h, pc, i).data # pc.data
    <3>1. own[OfString(i)] = Cell(h, pc, i).data /\ OfString(i) \in DOMAIN own
      BY OwnInOrder
    <3>2. OfString(i) # OfPc
      BY OwnersApart
    <3> HIDE DEF own
    <3> QED BY <3>1, <3>2, <1>7, <2>2 DEF Once
  <2>4. Same(h, g, Cell(h, pc, i).data)
    BY <2>2, <2>3, <1>10
  <2> QED BY <2>1, <2>4 DEF NameAt, Text, Same
<1>16. NameAt(g, r.array, pc.size + 1) = name
  BY <1>5, <1>9 DEF NameAt, Text, s
<1>17. PcOK(g, r.array)
  <2>1. \A i \in 1..(pc.size + 1) : i \in 1..pc.size \/ i = pc.size + 1
    BY <1>1
  <2>2. \A i \in 1..(pc.size + 1) : Cell(g, r.array, i).data \in DOMAIN g.live /\ NameAt(g, r.array, i) \in Name
    <3> TAKE i \in 1..(pc.size + 1)
    <3>1. CASE i \in 1..pc.size
      BY <3>1, <1>15, <1>1 DEF PcOK
    <3>2. CASE i = pc.size + 1
      BY <3>2, <1>5, <1>9, <1>16 DEF s
    <3> QED BY <3>1, <3>2, <2>1
  <2>3. \A i, j \in 1..(pc.size + 1) : NameAt(g, r.array, i) = NameAt(g, r.array, j) => i = j
    <3>1. \A i, j \in 1..pc.size : NameAt(h, pc, i) = NameAt(h, pc, j) => i = j
      BY <1>1 DEF PcOK
    <3> QED BY <2>1, <3>1, <1>15, <1>16
  <2> QED BY <2>2, <2>3, <1>5 DEF PcOK
<1>18. Once(own2, DOMAIN g.live)
  <2> DEFINE p == OfString(pc.size + 1)
  <2>1. ArrayOK(g, ft) /\ \A i \in 1..ft.size : Verbs(g, ft, i) = Verbs(h, ft, i) /\ ArrayOK(g, Verbs(g, ft, i))
    BY <1>13 DEF FtOK, FightOK, VerbsOK, Verbs, KeptFights
  <2>2. /\ DOMAIN own2 = Owners(g, r.array, ft)
        /\ own2[OfPc] = r.array.data /\ own2[OfFight] = ft.data /\ own2[OfDeath] = dt.data
        /\ \A i \in 1..(pc.size + 1) : own2[OfString(i)] = Cell(g, r.array, i).data
        /\ \A i \in 1..ft.size : own2[OfByVerb(i)] = Verbs(g, ft, i).data
        /\ \A i \in 1..ft.size : \A j \in 1..Verbs(g, ft, i).size :
             own2[OfVerb(i, j)] = Cell(g, Verbs(g, ft, i), j).m_verb.data
    BY <2>1, <1>5, OwnIs
  <2>3. /\ own[OfPc] = pc.data /\ own[OfFight] = ft.data /\ own[OfDeath] = dt.data
        /\ \A i \in 1..pc.size : own[OfString(i)] = Cell(h, pc, i).data
        /\ \A i \in 1..ft.size : own[OfByVerb(i)] = Verbs(h, ft, i).data
        /\ \A i \in 1..ft.size : \A j \in 1..Verbs(h, ft, i).size :
             own[OfVerb(i, j)] = Cell(h, Verbs(h, ft, i), j).m_verb.data
    BY OwnInOrder
  <2> HIDE DEF own, own2, g
  <2>4. \A o : o \in DOMAIN own <=>
           \/ o \in {OfPc, OfFight, OfDeath}
           \/ \E i \in 1..pc.size : o = OfString(i)
           \/ \E i \in 1..ft.size : o = OfByVerb(i)
           \/ \E i \in 1..ft.size : \E j \in 1..Verbs(h, ft, i).size : o = OfVerb(i, j)
    BY <1>1, <1>7, OwnersAre
  <2>5. \A o : o \in DOMAIN own2 <=>
           \/ o \in {OfPc, OfFight, OfDeath}
           \/ \E i \in 1..(pc.size + 1) : o = OfString(i)
           \/ \E i \in 1..ft.size : o = OfByVerb(i)
           \/ \E i \in 1..ft.size : \E j \in 1..Verbs(g, ft, i).size : o = OfVerb(i, j)
    BY <2>1, <2>2, <1>5, OwnersAre
  <2>6. \A i : i \in 1..(pc.size + 1) <=> i \in 1..pc.size \/ i = pc.size + 1
    BY <1>1
  <2>7. pc.size + 1 \notin 1..pc.size
    BY <1>1
  <2>8. \A o : (\E i \in 1..(pc.size + 1) : o = OfString(i)) <=> (o = p \/ \E i \in 1..pc.size : o = OfString(i))
    BY <2>6
  <2>9. \A o : (\E i \in 1..ft.size : \E j \in 1..Verbs(g, ft, i).size : o = OfVerb(i, j))
           <=> \E i \in 1..ft.size : \E j \in 1..Verbs(h, ft, i).size : o = OfVerb(i, j)
    BY <2>1
  <2>10. p \notin DOMAIN own
    BY <2>4, <2>7, OwnersApart
  <2>11. DOMAIN own2 = DOMAIN own \union {p}
    <3> HIDE DEF p
    <3>1. \A o : o \in DOMAIN own2 <=> (o \in DOMAIN own \/ o = p)
      BY <2>4, <2>5, <2>8, <2>9
    <3> QED BY <3>1
  <2>12. \A o \in DOMAIN own \ {OfPc} : own2[o] = own[o]
    <3> TAKE o \in DOMAIN own \ {OfPc}
    <3>1. CASE o \in {OfFight, OfDeath}
      BY <3>1, <2>2, <2>3
    <3>2. CASE \E i \in 1..pc.size : o = OfString(i)
      BY <3>2, <2>2, <2>3, <2>6, <1>15
    <3>3. CASE \E i \in 1..ft.size : o = OfByVerb(i)
      BY <3>3, <2>2, <2>3, <2>1
    <3>4. CASE \E i \in 1..ft.size : \E j \in 1..Verbs(h, ft, i).size : o = OfVerb(i, j)
      <4>1. PICK i \in 1..ft.size : \E j \in 1..Verbs(h, ft, i).size : o = OfVerb(i, j)
        BY <3>4
      <4>2. PICK j \in 1..Verbs(h, ft, i).size : o = OfVerb(i, j)
        BY <4>1
      <4>3. Verbs(g, ft, i) = Verbs(h, ft, i)
        BY <2>1
      <4>4. Cell(g, Verbs(h, ft, i), j) = Cell(h, Verbs(h, ft, i), j)
        BY <1>13 DEF KeptFights, KeptVerbs
      <4>5. own2[o] = Cell(g, Verbs(h, ft, i), j).m_verb.data
        BY <2>2, <4>2, <4>3
      <4>6. own[o] = Cell(h, Verbs(h, ft, i), j).m_verb.data
        BY <2>3, <4>2
      <4> QED BY <4>4, <4>5, <4>6
    <3> QED BY <3>1, <3>2, <3>3, <3>4, <2>4
  <2>13. own2[p] = n
    <3>1. pc.size + 1 \in 1..(pc.size + 1)
      BY <1>1
    <3> QED BY <3>1, <2>2, <1>5 DEF s
  <2> HIDE DEF p
  <2>14. own2[p] \notin DOMAIN h.live /\ own2[p] # Null /\ own2[p] # own[OfPc] /\ own2[OfPc] # Null
    BY <2>13, <2>2, <1>2, <1>5, <1>7, <1>8
  <2>15. own2[OfPc] = own[OfPc] \/ own2[OfPc] \notin DOMAIN h.live \union {own2[p]}
    BY <2>2, <2>13, <1>5, <1>7, <1>2
  <2>16. DOMAIN g.live = ((DOMAIN h.live \union ({own2[p]} \ {Null})) \ {own[OfPc]}) \union {own2[OfPc]}
    BY <2>2, <2>13, <2>14, <1>2, <1>5, <1>7 DEF g
  <2>17. OfPc \in DOMAIN own
    BY <1>7
  <2> QED BY <1>7, <2>10, <2>11, <2>12, <2>14, <2>15, <2>16, <2>17, OnceGrown
<1>19. WF(g, r.array, ft, dt)
  BY <1>5, <1>13, <1>14, <1>17, <1>18 DEF WF
<1> QED BY <1>5, <1>6, <1>13, <1>14, <1>15, <1>16, <1>19 DEF r

KeptNamesIn(h, g, pc, pcs) == /\ pc.size <= pcs.size
                              /\ \A i \in 1..pc.size : NameAt(g, pcs, i) = NameAt(h, pc, i)

LEMMA KeptTrivially ==
  ASSUME NEW h, NEW a, NEW pc, PcOK(h, pc)
  PROVE  KeptFights(h, h, a) /\ KeptDeaths(h, h, a) /\ KeptNamesIn(h, h, pc, pc)
<1>1. pc.size \in Nat
  BY DEF PcOK, ArrayOK
<1> QED BY <1>1 DEF KeptFights, KeptDeaths, KeptVerbs, KeptNamesIn

(* Battle_getPCIndex, of a name that may be in already. *)
LEMMA InternIs ==
  ASSUME NEW h, NEW pc, NEW ft, NEW dt, WF(h, pc, ft, dt), NEW name \in Name
  PROVE  LET r == Intern(h, pc, name)
             k == PCIndex(r.heap, r.array, name)
         IN  /\ WF(r.heap, r.array, ft, dt)
             /\ k \in 1..r.array.size /\ NameAt(r.heap, r.array, k) = name
             /\ KeptNamesIn(h, r.heap, pc, r.array)
             /\ KeptFights(h, r.heap, ft) /\ KeptDeaths(h, r.heap, dt)
<1> DEFINE r == Intern(h, pc, name)
<1>1. PcOK(h, pc) /\ ArrayOK(h, pc) /\ pc.size \in Nat
  BY DEF WF, PcOK, ArrayOK
<1>2. CASE PCIndex(h, pc, name) # 0
  <2>1. r.heap = h /\ r.array = pc
    BY <1>2 DEF Intern, Result
  <2>2. PCIndex(h, pc, name) \in 1..pc.size /\ NameAt(h, pc, PCIndex(h, pc, name)) = name
    BY <1>1, <1>2, PCIndexIs
  <2>3. KeptFights(h, h, ft) /\ KeptDeaths(h, h, dt) /\ KeptNamesIn(h, h, pc, pc)
    BY <1>1, KeptTrivially
  <2> HIDE DEF r
  <2> QED BY <2>1, <2>2, <2>3 DEF r
<1>3. CASE PCIndex(h, pc, name) = 0
  <2> DEFINE copy == Copy(h, name)
             q == Pushed(copy.heap, pc, copy.string)
  <2>1. \A i \in 1..pc.size : NameAt(h, pc, i) # name
    BY <1>1, <1>3, PCIndexIs
  <2>2. /\ WF(q.heap, q.array, ft, dt) /\ q.array.size = pc.size + 1
        /\ NameAt(q.heap, q.array, pc.size + 1) = name
        /\ \A i \in 1..pc.size : NameAt(q.heap, q.array, i) = NameAt(h, pc, i)
        /\ KeptFights(h, q.heap, ft) /\ KeptDeaths(h, q.heap, dt)
    BY <2>1, NewNameInterned
  <2>3. ArrayOK(copy.heap, pc)
    <3>1. /\ \A b \in DOMAIN h.live : b \in DOMAIN copy.heap.live /\ copy.heap.live[b] = h.live[b]
      <4>1. Memory(<<name>>) /\ HeapOK(h)
        BY DEF Memory, WF
      <4> QED BY <4>1, MallocIs DEF Copy
    <3>2. pc.data # Null => pc.data \in DOMAIN h.live
      BY <1>1 DEF ArrayOK
    <3> HIDE DEF copy
    <3> QED BY <3>1, <3>2, <1>1, ArrayKept DEF Same
  <2>4. r = q
    <3>1. r = Push(copy.heap, pc, copy.string, StringDtor)
      BY <1>3 DEF Intern
    <3> HIDE DEF copy
    <3> QED BY <3>1, <2>3, PushString
  <2>5. PcOK(q.heap, q.array) /\ pc.size + 1 \in 1..q.array.size /\ pc.size <= q.array.size
    BY <2>2, <1>1 DEF WF
  <2> HIDE DEF q, r
  <2>6. PCIndex(q.heap, q.array, name) = pc.size + 1
    BY <2>2, <2>5, PCIndexIs
  <2> QED BY <2>2, <2>4, <2>5, <2>6 DEF r, KeptNamesIn
<1> QED BY <1>2, <1>3

LEMMA KeptOnwards ==
  ASSUME NEW h, NEW g, NEW k, NEW ft, NEW dt,
         KeptFights(h, g, ft), KeptFights(g, k, ft), KeptDeaths(h, g, dt), KeptDeaths(g, k, dt)
  PROVE  KeptFights(h, k, ft) /\ KeptDeaths(h, k, dt)
<1>1. \A i \in 1..ft.size : Verbs(g, ft, i) = Verbs(h, ft, i)
  BY DEF KeptFights, Verbs
<1> QED BY <1>1 DEF KeptFights, KeptDeaths, KeptVerbs

(* Both names of a line, after which both are found. *)
LEMMA Intern2Is ==
  ASSUME NEW h, NEW pc, NEW ft, NEW dt, WF(h, pc, ft, dt), NEW source \in Name, NEW target \in Name
  PROVE  LET r == Intern2(h, pc, source, target)
             s == PCIndex(r.heap, r.array, source)
             t == PCIndex(r.heap, r.array, target)
         IN  /\ WF(r.heap, r.array, ft, dt)
             /\ s \in 1..r.array.size /\ NameAt(r.heap, r.array, s) = source
             /\ t \in 1..r.array.size /\ NameAt(r.heap, r.array, t) = target
             /\ KeptNamesIn(h, r.heap, pc, r.array)
             /\ KeptFights(h, r.heap, ft) /\ KeptDeaths(h, r.heap, dt)
<1> DEFINE q == Intern(h, pc, source)
           r == Intern(q.heap, q.array, target)
           k == PCIndex(q.heap, q.array, source)
<1>1. Intern2(h, pc, source, target) = r
  BY DEF Intern2
<1>2. /\ WF(q.heap, q.array, ft, dt) /\ k \in 1..q.array.size /\ NameAt(q.heap, q.array, k) = source
      /\ KeptNamesIn(h, q.heap, pc, q.array) /\ KeptFights(h, q.heap, ft) /\ KeptDeaths(h, q.heap, dt)
  BY InternIs
<1> HIDE DEF q, k
<1>3. /\ WF(r.heap, r.array, ft, dt)
      /\ PCIndex(r.heap, r.array, target) \in 1..r.array.size
      /\ NameAt(r.heap, r.array, PCIndex(r.heap, r.array, target)) = target
      /\ KeptNamesIn(q.heap, r.heap, q.array, r.array)
      /\ KeptFights(q.heap, r.heap, ft) /\ KeptDeaths(q.heap, r.heap, dt)
  BY <1>2, InternIs
<1> HIDE DEF r
<1>4. pc.size \in Nat /\ q.array.size \in Nat /\ r.array.size \in Nat /\ PcOK(r.heap, r.array)
  BY <1>2, <1>3 DEF WF, PcOK, ArrayOK
<1>5. k \in 1..r.array.size /\ NameAt(r.heap, r.array, k) = source
  BY <1>2, <1>3, <1>4 DEF KeptNamesIn
<1>6. PCIndex(r.heap, r.array, source) = k
  BY <1>4, <1>5, PCIndexIs
<1>7. KeptNamesIn(h, r.heap, pc, r.array)
  BY <1>2, <1>3, <1>4 DEF KeptNamesIn
<1>8. KeptFights(h, r.heap, ft) /\ KeptDeaths(h, r.heap, dt)
  BY <1>2, <1>3, KeptOnwards
<1> QED BY <1>1, <1>3, <1>5, <1>6, <1>7, <1>8

(* Battle_getFightIndex: where the loop stops. *)
IsFight(h, ft, i, s, t) == Cell(h, ft, i).sourceId = s /\ Cell(h, ft, i).targetId = t
(* A search for a fight finds the only one of the pair. *)
LEMMA FightAtIs ==
  ASSUME NEW h, NEW n, NEW ft, FtOK(h, n, ft), NEW s, NEW t
  PROVE  /\ FightAt(h, ft, s, t) \in 0..ft.size
         /\ FightAt(h, ft, s, t) # 0 => IsFight(h, ft, FightAt(h, ft, s, t), s, t)
         /\ FightAt(h, ft, s, t) = 0 => \A i \in 1..ft.size : ~IsFight(h, ft, i, s, t)
         /\ \A i \in 1..ft.size : IsFight(h, ft, i, s, t) => FightAt(h, ft, s, t) = i
<1>1. ArrayOK(h, ft) /\ ft.size \in Nat
  BY DEF FtOK, ArrayOK
<1>2. \A i \in 1..ft.size : Elements(h, ft)[i] = Cell(h, ft, i)
  BY <1>1, ElementsAre
<1> DEFINE T == {i \in 1..ft.size : Elements(h, ft)[i].sourceId = s /\ Elements(h, ft)[i].targetId = t}
<1>3. \A i : i \in T <=> i \in 1..ft.size /\ IsFight(h, ft, i, s, t)
  BY <1>2 DEF IsFight
<1>4. FightAt(h, ft, s, t) = FirstOf(T)
  BY DEF FightAt
<1>5. T \in SUBSET (1..ft.size)
  OBVIOUS
<1> HIDE DEF T
<1>6. (T = {} => FirstOf(T) = 0) /\ (T # {} => FirstOf(T) \in T)
  BY <1>1, <1>5, FirstOfIs
<1>7. \A i, j \in 1..ft.size : IsFight(h, ft, i, s, t) /\ IsFight(h, ft, j, s, t) => i = j
  BY DEF FtOK, SamePair, IsFight
<1>8. CASE T = {}
  <2>1. FightAt(h, ft, s, t) = 0
    BY <1>4, <1>6, <1>8
  <2> QED BY <2>1, <1>1, <1>3, <1>8
<1>9. CASE T # {}
  <2>1. FightAt(h, ft, s, t) \in T
    BY <1>4, <1>6, <1>9
  <2> QED BY <2>1, <1>1, <1>3, <1>7
<1> QED BY <1>8, <1>9

(* The fights of before, among those of after. *)
KeptFightsIn(h, g, ft, fts) ==
  /\ ft.size <= fts.size
  /\ \A i \in 1..ft.size : Cell(g, fts, i) = Cell(h, ft, i) /\ KeptVerbs(h, g, Verbs(h, ft, i))

(* Battle_getFightIndex: a fight with no verbs is pushed. *)
LEMMA NewFightPushed ==
  ASSUME NEW h, NEW pc, NEW ft, NEW dt, WF(h, pc, ft, dt),
         NEW s \in 1..pc.size, NEW t \in 1..pc.size,
         \A i \in 1..ft.size : ~IsFight(h, ft, i, s, t)
  PROVE  LET fight == [sourceId |-> s, targetId |-> t, m_byVerb |-> NoArray]
             r == Pushed(h, ft, fight)
         IN  /\ WF(r.heap, pc, r.array, dt)
             /\ r.array.size = ft.size + 1 /\ ArrayOK(r.heap, r.array)
             /\ Cell(r.heap, r.array, ft.size + 1) = fight
             /\ KeptNames(h, r.heap, pc)
             /\ KeptFightsIn(h, r.heap, ft, r.array)
             /\ KeptDeaths(h, r.heap, dt)
<1> DEFINE fight == [sourceId |-> s, targetId |-> t, m_byVerb |-> NoArray]
           r == Pushed(h, ft, fight)
           g == r.heap
           own == Own(h, pc, ft, dt)
           own2 == Own(g, pc, r.array, dt)
<1>1. /\ HeapOK(h) /\ PcOK(h, pc) /\ ArrayOK(h, pc) /\ pc.size \in Nat
      /\ FtOK(h, pc.size, ft) /\ ArrayOK(h, ft) /\ ft.size \in Nat
  BY DEF WF, PcOK, ArrayOK, FtOK
<1>2. /\ fight.sourceId = s /\ fight.targetId = t /\ fight.m_byVerb = NoArray
      /\ fight = [sourceId |-> fight.sourceId, targetId |-> fight.targetId, m_byVerb |-> fight.m_byVerb]
  OBVIOUS
<1> HIDE DEF fight
<1>5. /\ HeapOK(g) /\ ArrayOK(g, r.array)
      /\ r.array.size = ft.size + 1 /\ r.array.data # Null
      /\ r.array.data = ft.data \/ (r.array.data \notin DOMAIN h.live)
      /\ DOMAIN g.live = (DOMAIN h.live \ {ft.data}) \union {r.array.data}
      /\ \A b \in DOMAIN h.live \ {ft.data} : g.live[b] = h.live[b]
      /\ \A i \in 1..ft.size : Cell(g, r.array, i) = Cell(h, ft, i)
      /\ Cell(g, r.array, ft.size + 1) = fight
  BY <1>1, PushedIs
<1> HIDE DEF r
<1>7. /\ Once(own, DOMAIN h.live) /\ Null \notin DOMAIN h.live
      /\ DOMAIN own = Owners(h, pc, ft) /\ {OfPc, OfFight, OfDeath} \subseteq DOMAIN own
      /\ own[OfFight] = ft.data
  BY OwnInOrder
<1>10. \A b \in DOMAIN h.live : b # ft.data => Same(h, g, b)
  BY <1>5 DEF Same
<1>11. Untouched(h, g, own, {OfFight})
  <2>1. {OfFight} \subseteq DOMAIN own
    BY <1>7
  <2>2. \A b \in DOMAIN h.live : (\A o \in {OfFight} : b # own[o]) => Same(h, g, b)
    BY <1>7, <1>10
  <2> HIDE DEF own
  <2> QED BY <1>7, <2>1, <2>2, OthersUntouched
<1>12. /\ OfPc \notin {OfFight} /\ OfDeath \notin {OfFight}
       /\ (\A i : OfString(i) \notin {OfFight}) /\ (\A i : OfByVerb(i) \notin {OfFight})
       /\ \A i, j : OfVerb(i, j) \notin {OfFight}
  BY OwnersApart
<1>13. PcOK(g, pc) /\ KeptNames(h, g, pc)
  <2> HIDE DEF own, g
  <2> QED BY <1>11, <1>12, NamesUntouched DEF own
<1>14. DtOK(g, pc.size, dt) /\ KeptDeaths(h, g, dt)
  <2> HIDE DEF own, g
  <2> QED BY <1>1, <1>11, <1>12, DeathsUntouched DEF own
<1>15. \A i \in 1..ft.size : /\ VerbsOK(g, Verbs(h, ft, i)) /\ KeptVerbs(h, g, Verbs(h, ft, i))
                             /\ Verbs(g, r.array, i) = Verbs(h, ft, i)
  <2> TAKE i \in 1..ft.size
  <2>1. VerbsOK(g, Verbs(h, ft, i)) /\ KeptVerbs(h, g, Verbs(h, ft, i))
    <3> HIDE DEF own, g
    <3> QED BY <1>11, <1>12, VerbsUntouched DEF own
  <2>2. Verbs(g, r.array, i) = Verbs(h, ft, i)
    BY <1>5 DEF Verbs
  <2> QED BY <2>1, <2>2
<1>16. Verbs(g, r.array, ft.size + 1) = NoArray /\ NoArray.size = 0 /\ NoArray.data = Null
  BY <1>2, <1>5 DEF Verbs, NoArray
<1>17. VerbsOK(g, NoArray)
  BY DEF VerbsOK, ArrayOK, NoArray, Null
<1>18. \A i \in 1..(ft.size + 1) : i \in 1..ft.size \/ i = ft.size + 1
  BY <1>1
<1>19. FtOK(g, pc.size, r.array)
  <2>1. \A i \in 1..(ft.size + 1) : FightOK(g, pc.size, Cell(g, r.array, i))
    <3> TAKE i \in 1..(ft.size + 1)
    <3>1. CASE i \in 1..ft.size
      <4>1. FightOK(h, pc.size, Cell(h, ft, i)) /\ Cell(g, r.array, i) = Cell(h, ft, i)
        BY <1>1, <1>5, <3>1 DEF FtOK
      <4>2. VerbsOK(g, Cell(h, ft, i).m_byVerb)
        BY <1>15, <3>1 DEF Verbs
      <4> QED BY <4>1, <4>2 DEF FightOK
    <3>2. CASE i = ft.size + 1
      BY <3>2, <1>2, <1>5, <1>17 DEF FightOK
    <3> QED BY <3>1, <3>2, <1>18
  <2>2. \A i, j \in 1..(ft.size + 1) : SamePair(g, r.array, i, j) => i = j
    <3>1. \A i, j \in 1..ft.size : SamePair(h, ft, i, j) => i = j
      BY <1>1 DEF FtOK
    <3>2. \A i \in 1..ft.size : ~SamePair(g, r.array, i, ft.size + 1) /\ ~SamePair(g, r.array, ft.size + 1, i)
      BY <1>2, <1>5 DEF SamePair, IsFight
    <3>3. \A i, j \in 1..ft.size : SamePair(g, r.array, i, j) => SamePair(h, ft, i, j)
      BY <1>5 DEF SamePair
    <3> QED BY <1>18, <3>1, <3>2, <3>3
  <2> QED BY <1>5, <2>1, <2>2 DEF FtOK
<1>20. Once(own2, DOMAIN g.live)
  <2> DEFINE p == OfByVerb(ft.size + 1)
  <2>1. /\ ArrayOK(g, pc)
        /\ \A i \in 1..r.array.size : ArrayOK(g, Verbs(g, r.array, i))
    BY <1>13, <1>19 DEF PcOK, FtOK, FightOK, VerbsOK, Verbs
  <2>2. /\ DOMAIN own2 = Owners(g, pc, r.array)
        /\ own2[OfPc] = pc.data /\ own2[OfFight] = r.array.data /\ own2[OfDeath] = dt.data
        /\ \A i \in 1..pc.size : own2[OfString(i)] = Cell(g, pc, i).data
        /\ \A i \in 1..(ft.size + 1) : own2[OfByVerb(i)] = Verbs(g, r.array, i).data
        /\ \A i \in 1..(ft.size + 1) : \A j \in 1..Verbs(g, r.array, i).size :
             own2[OfVerb(i, j)] = Cell(g, Verbs(g, r.array, i), j).m_verb.data
    BY <2>1, <1>5, OwnIs
  <2>3. /\ own[OfPc] = pc.data /\ own[OfFight] = ft.data /\ own[OfDeath] = dt.data
        /\ \A i \in 1..pc.size : own[OfString(i)] = Cell(h, pc, i).data
        /\ \A i \in 1..ft.size : own[OfByVerb(i)] = Verbs(h, ft, i).data
        /\ \A i \in 1..ft.size : \A j \in 1..Verbs(h, ft, i).size :
             own[OfVerb(i, j)] = Cell(h, Verbs(h, ft, i), j).m_verb.data
    BY OwnInOrder
  <2> HIDE DEF own, own2, g
  <2>4. \A o : o \in DOMAIN own <=>
           \/ o \in {OfPc, OfFight, OfDeath}
           \/ \E i \in 1..pc.size : o = OfString(i)
           \/ \E i \in 1..ft.size : o = OfByVerb(i)
           \/ \E i \in 1..ft.size : \E j \in 1..Verbs(h, ft, i).size : o = OfVerb(i, j)
    BY <1>1, <1>7, OwnersAre
  <2>5. \A o : o \in DOMAIN own2 <=>
           \/ o \in {OfPc, OfFight, OfDeath}
           \/ \E i \in 1..pc.size : o = OfString(i)
           \/ \E i \in 1..(ft.size + 1) : o = OfByVerb(i)
           \/ \E i \in 1..(ft.size + 1) : \E j \in 1..Verbs(g, r.array, i).size : o = OfVerb(i, j)
    BY <2>2, <1>5, OwnersAre
  <2>6. \A i : i \in 1..(ft.size + 1) <=> i \in 1..ft.size \/ i = ft.size + 1
    BY <1>1
  <2>7. ft.size + 1 \notin 1..ft.size
    BY <1>1
  <2>8. \A o : (\E i \in 1..(ft.size + 1) : o = OfByVerb(i)) <=> (o = p \/ \E i \in 1..ft.size : o = OfByVerb(i))
    BY <2>6
  <2>9. \A o : (\E i \in 1..(ft.size + 1) : \E j \in 1..Verbs(g, r.array, i).size : o = OfVerb(i, j))
           <=> \E i \in 1..ft.size : \E j \in 1..Verbs(h, ft, i).size : o = OfVerb(i, j)
    <3>1. \A j : j \notin 1..Verbs(g, r.array, ft.size + 1).size
      BY <1>16
    <3>2. \A i \in 1..ft.size : Verbs(g, r.array, i) = Verbs(h, ft, i)
      BY <1>15
    <3> QED BY <3>1, <3>2, <2>6
  <2>10. p \notin DOMAIN own
    BY <2>4, <2>7, OwnersApart
  <2>11. DOMAIN own2 = DOMAIN own \union {p}
    <3> HIDE DEF p
    <3>1. \A o : o \in DOMAIN own2 <=> (o \in DOMAIN own \/ o = p)
      BY <2>4, <2>5, <2>8, <2>9
    <3> QED BY <3>1
  <2>12. \A o \in DOMAIN own \ {OfFight} : own2[o] = own[o]
    <3> TAKE o \in DOMAIN own \ {OfFight}
    <3>1. CASE o \in {OfPc, OfDeath}
      BY <3>1, <2>2, <2>3
    <3>2. CASE \E i \in 1..pc.size : o = OfString(i)
      BY <3>2, <2>2, <2>3, <1>13 DEF KeptNames
    <3>3. CASE \E i \in 1..ft.size : o = OfByVerb(i)
      BY <3>3, <2>2, <2>3, <2>6, <1>15
    <3>4. CASE \E i \in 1..ft.size : \E j \in 1..Verbs(h, ft, i).size : o = OfVerb(i, j)
      <4>1. PICK i \in 1..ft.size : \E j \in 1..Verbs(h, ft, i).size : o = OfVerb(i, j)
        BY <3>4
      <4>2. PICK j \in 1..Verbs(h, ft, i).size : o = OfVerb(i, j)
        BY <4>1
      <4>3. Verbs(g, r.array, i) = Verbs(h, ft, i) /\ i \in 1..(ft.size + 1)
        BY <1>15, <2>6
      <4>4. Cell(g, Verbs(h, ft, i), j) = Cell(h, Verbs(h, ft, i), j)
        BY <1>15 DEF KeptVerbs
      <4>5. own2[o] = Cell(g, Verbs(h, ft, i), j).m_verb.data
        BY <2>2, <4>2, <4>3
      <4>6. own[o] = Cell(h, Verbs(h, ft, i), j).m_verb.data
        BY <2>3, <4>2
      <4> QED BY <4>4, <4>5, <4>6
    <3> QED BY <3>1, <3>2, <3>3, <3>4, <2>4
  <2>13. own2[p] = Null
    <3>1. ft.size + 1 \in 1..(ft.size + 1)
      BY <1>1
    <3> QED BY <3>1, <2>2, <1>16
  <2> HIDE DEF p
  <2>14. own2[OfFight] # Null /\ (own2[OfFight] = own[OfFight] \/ own2[OfFight] \notin DOMAIN h.live \union {own2[p]})
    BY <2>2, <2>13, <1>5, <1>7
  <2>15. DOMAIN g.live = ((DOMAIN h.live \union ({own2[p]} \ {Null})) \ {own[OfFight]}) \union {own2[OfFight]}
    BY <2>2, <2>13, <1>5, <1>7 DEF g
  <2>16. OfFight \in DOMAIN own
    BY <1>7
  <2> QED BY <1>7, <2>10, <2>11, <2>12, <2>13, <2>14, <2>15, <2>16, OnceGrown
<1>21. WF(g, pc, r.array, dt)
  BY <1>5, <1>13, <1>14, <1>19, <1>20 DEF WF
<1>22. KeptFightsIn(h, g, ft, r.array)
  BY <1>1, <1>5, <1>15 DEF KeptFightsIn
<1> QED BY <1>5, <1>13, <1>14, <1>21, <1>22 DEF r, fight

(* Array_at gives a valid pointer to the element. *)
LEMMA AtIs ==
  ASSUME NEW h, NEW a, ArrayOK(h, a), NEW i \in 1..a.size
  PROVE  At(a, i) = [block |-> a.data, pos |-> i] /\ a.data # Null /\ a.data \in DOMAIN h.live
         /\ Valid(h, At(a, i)) /\ Read(h, At(a, i)) = Cell(h, a, i)
<1>1. a.size \in Nat /\ a.capacity \in Nat /\ a.size <= a.capacity /\ i \in 1..a.capacity
  BY DEF ArrayOK
<1>2. At(a, i) = [block |-> a.data, pos |-> i]
  BY <1>1 DEF At
<1>3. a.data # Null /\ a.data \in DOMAIN h.live /\ Block(h.live[a.data], a.capacity)
  BY <1>1 DEF ArrayOK
<1>4. DOMAIN h.live[a.data] = 1..a.capacity
  BY <1>3 DEF Block
<1> QED BY <1>1, <1>2, <1>3, <1>4 DEF Valid, Read, Cell

(* A write through a pointer into an array. *)
LEMMA CellWritten ==
  ASSUME NEW h, HeapOK(h), NEW a, ArrayOK(h, a), NEW i \in 1..a.size, NEW e
  PROVE  LET g == Write(h, At(a, i), e)
         IN  /\ HeapOK(g) /\ ArrayOK(g, a) /\ g.next = h.next
             /\ DOMAIN g.live = DOMAIN h.live
             /\ \A b \in DOMAIN h.live : b # a.data => Same(h, g, b)
             /\ Cell(g, a, i) = e
             /\ \A j \in 1..a.size : j # i => Cell(g, a, j) = Cell(h, a, j)
<1> DEFINE p == At(a, i)
           g == Write(h, p, e)
<1>1. p = [block |-> a.data, pos |-> i] /\ a.data # Null /\ a.data \in DOMAIN h.live /\ Valid(h, p)
  BY AtIs
<1> HIDE DEF p
<1>2. p.block = a.data /\ p.pos = i
  BY <1>1
<1>3. /\ HeapOK(g) /\ g.next = h.next /\ DOMAIN g.live = DOMAIN h.live
      /\ \A b \in DOMAIN h.live \ {p.block} : g.live[b] = h.live[b]
      /\ g.live[p.block] =
           [j \in DOMAIN h.live[p.block] |-> IF j = p.pos THEN e ELSE h.live[p.block][j]]
  BY <1>1, WriteIs
<1> HIDE DEF g
<1> DEFINE old == h.live[a.data]
           new == g.live[a.data]
<1>4. Block(old, a.capacity) /\ a \in [data : Nat, size : Nat, capacity : Nat] /\ a.size <= a.capacity
  BY <1>1 DEF ArrayOK
<1>5. DOMAIN old = 1..a.capacity
  BY <1>4 DEF Block
<1>6. new = [j \in DOMAIN old |-> IF j = i THEN e ELSE old[j]]
  BY <1>2, <1>3
<1> HIDE DEF old, new
<1>7. Block(new, a.capacity) /\ \A j \in 1..a.capacity : new[j] = IF j = i THEN e ELSE old[j]
  BY <1>5, <1>6 DEF Block
<1>8. ArrayOK(g, a)
  <2>1. a.data \in DOMAIN g.live
    BY <1>1, <1>3
  <2> QED BY <2>1, <1>7, <1>4, <1>1 DEF ArrayOK, new
<1>9. \A j \in 1..a.size : j \in 1..a.capacity
  BY <1>4
<1>10. Cell(g, a, i) = e /\ \A j \in 1..a.size : j # i => Cell(g, a, j) = Cell(h, a, j)
  BY <1>7, <1>9 DEF Cell, old, new
<1>11. \A b \in DOMAIN h.live : b # a.data => Same(h, g, b)
  BY <1>2, <1>3 DEF Same
<1> QED BY <1>3, <1>8, <1>10, <1>11 DEF g, p

(* Battle_getFightIndex returns a valid pointer to the fight of the pair. *)
LEMMA GetFightIs ==
  ASSUME NEW h, NEW pc, NEW ft, NEW dt, WF(h, pc, ft, dt),
         NEW s \in 1..pc.size, NEW t \in 1..pc.size
  PROVE  LET r == GetFight(h, ft, s, t)
         IN  /\ WF(r.heap, pc, r.array, dt)
             /\ \E p \in 1..r.array.size : /\ r.pointer = At(r.array, p)
                                           /\ IsFight(r.heap, r.array, p, s, t)
             /\ KeptNames(h, r.heap, pc) /\ KeptDeaths(h, r.heap, dt)
             /\ KeptFightsIn(h, r.heap, ft, r.array)
             /\ \A i \in 1..r.array.size : i \in 1..ft.size \/ Verbs(r.heap, r.array, i).size = 0
<1> DEFINE r == GetFight(h, ft, s, t)
           pos == FightAt(h, ft, s, t)
<1>1. /\ FtOK(h, pc.size, ft) /\ ArrayOK(h, ft) /\ ft.size \in Nat
  BY DEF WF, FtOK, ArrayOK
<1>2. /\ pos \in 0..ft.size
      /\ pos # 0 => IsFight(h, ft, pos, s, t)
      /\ pos = 0 => \A i \in 1..ft.size : ~IsFight(h, ft, i, s, t)
  BY <1>1, FightAtIs
<1>3. CASE pos # 0
  <2>1. r.heap = h /\ r.array = ft /\ r.pointer = At(ft, pos)
    BY <1>3 DEF GetFight
  <2>2. pos \in 1..ft.size /\ IsFight(h, ft, pos, s, t)
    BY <1>1, <1>2, <1>3
  <2>3. KeptNames(h, h, pc) /\ KeptDeaths(h, h, dt) /\ KeptFightsIn(h, h, ft, ft)
    BY <1>1 DEF KeptNames, KeptDeaths, KeptFightsIn, KeptVerbs
  <2> HIDE DEF r, pos
  <2> QED BY <2>1, <2>2, <2>3 DEF r
<1>4. CASE pos = 0
  <2> DEFINE fight == [sourceId |-> s, targetId |-> t, m_byVerb |-> NoArray]
             q == Pushed(h, ft, fight)
  <2>1. \A i \in 1..ft.size : ~IsFight(h, ft, i, s, t)
    BY <1>2, <1>4
  <2>2. /\ WF(q.heap, pc, q.array, dt)
        /\ q.array.size = ft.size + 1 /\ ArrayOK(q.heap, q.array)
        /\ Cell(q.heap, q.array, ft.size + 1) = fight
        /\ KeptNames(h, q.heap, pc) /\ KeptFightsIn(h, q.heap, ft, q.array) /\ KeptDeaths(h, q.heap, dt)
    BY <2>1, NewFightPushed
  <2>3. Push(h, ft, fight, FightDtor) = q
    BY <1>1, PushFight
  <2>4. r = [heap |-> q.heap, array |-> q.array, pointer |-> At(q.array, q.array.size)]
    BY <2>3, <1>4 DEF GetFight, PointedAfterPush
  <2>5. fight.sourceId = s /\ fight.targetId = t /\ fight.m_byVerb.size = 0
    BY DEF NoArray
  <2> HIDE DEF q, r, fight
  <2>6. r.heap = q.heap /\ r.array = q.array /\ r.pointer = At(q.array, ft.size + 1)
    BY <2>2, <2>4
  <2>7. ft.size + 1 \in 1..q.array.size /\ IsFight(q.heap, q.array, ft.size + 1, s, t)
    BY <2>2, <2>5, <1>1 DEF IsFight
  <2>8. \A i \in 1..q.array.size : i \in 1..ft.size \/ i = ft.size + 1
    BY <2>2, <1>1
  <2>9. Verbs(q.heap, q.array, ft.size + 1).size = 0
    BY <2>2, <2>5 DEF Verbs
  <2> QED BY <2>2, <2>6, <2>7, <2>8, <2>9 DEF r
<1> QED BY <1>3, <1>4

(* Fight_getMeleeDamage: the verb's place, found or new. *)
LEMMA ByVerbAtIs ==
  ASSUME NEW h, NEW v, VerbsOK(h, v), NEW verb
  PROVE  /\ ByVerbAt(h, v, verb) \in 0..v.size
         /\ ByVerbAt(h, v, verb) # 0 => VerbAt(h, v, ByVerbAt(h, v, verb)) = verb
         /\ ByVerbAt(h, v, verb) = 0 => \A i \in 1..v.size : VerbAt(h, v, i) # verb
         /\ \A i \in 1..v.size : VerbAt(h, v, i) = verb => ByVerbAt(h, v, verb) = i
<1>1. ArrayOK(h, v) /\ v.size \in Nat
  BY DEF VerbsOK, ArrayOK
<1>2. \A i \in 1..v.size : Elements(h, v)[i] = Cell(h, v, i)
  BY <1>1, ElementsAre
<1> DEFINE T == {i \in 1..v.size : Text(h, Elements(h, v)[i].m_verb) = verb}
<1>3. \A i : i \in T <=> i \in 1..v.size /\ VerbAt(h, v, i) = verb
  BY <1>2 DEF VerbAt
<1>4. ByVerbAt(h, v, verb) = FirstOf(T)
  BY DEF ByVerbAt
<1>5. T \in SUBSET (1..v.size)
  OBVIOUS
<1> HIDE DEF T
<1>6. (T = {} => FirstOf(T) = 0) /\ (T # {} => FirstOf(T) \in T)
  BY <1>1, <1>5, FirstOfIs
<1>7. \A i, j \in 1..v.size : VerbAt(h, v, i) = VerbAt(h, v, j) => i = j
  BY DEF VerbsOK
<1>8. CASE T = {}
  <2>1. ByVerbAt(h, v, verb) = 0
    BY <1>4, <1>6, <1>8
  <2> QED BY <2>1, <1>1, <1>3, <1>8
<1>9. CASE T # {}
  <2>1. ByVerbAt(h, v, verb) \in T
    BY <1>4, <1>6, <1>9
  <2> QED BY <2>1, <1>1, <1>3, <1>7
<1> QED BY <1>8, <1>9

NewPlace(h, k, v, w, q, verb, n) ==
  /\ n \notin DOMAIN h.live /\ n # Null /\ n # w.data
  /\ w.size = v.size + 1 /\ q = v.size + 1
  /\ Cell(k, w, q) = [m_verb |-> [data |-> n], hits |-> 0]
  /\ n \in DOMAIN k.live /\ k.live[n] = <<verb>>
  /\ DOMAIN k.live = ((DOMAIN h.live \union {n}) \ {v.data}) \union {w.data}
  /\ \A j \in 1..v.size : VerbAt(h, v, j) # verb
Place(h, k, v, w, q, verb) ==
  /\ HeapOK(k) /\ ArrayOK(k, w) /\ w.data # Null
  /\ \A b \in DOMAIN h.live : b # v.data => Same(h, k, b)
  /\ \A j \in 1..v.size : Cell(k, w, j) = Cell(h, v, j)
  /\ w.data = v.data \/ w.data \notin DOMAIN h.live
  /\ \/ k = h /\ w = v /\ q \in 1..v.size /\ VerbAt(h, v, q) = verb
     \/ \E n : NewPlace(h, k, v, w, q, verb, n)

(* The two steps of CountHit: the place, then the count. *)
PlacedHeap(h, v, verb)  == IF ByVerbAt(h, v, verb) # 0 THEN h
                           ELSE Pushed(Copy(h, verb).heap, v, [m_verb |-> Copy(h, verb).string, hits |-> 0]).heap
PlacedArray(h, v, verb) == IF ByVerbAt(h, v, verb) # 0 THEN v
                           ELSE Pushed(Copy(h, verb).heap, v, [m_verb |-> Copy(h, verb).string, hits |-> 0]).array
PlacedAt(h, v, verb)    == IF ByVerbAt(h, v, verb) # 0 THEN ByVerbAt(h, v, verb)
                           ELSE PlacedArray(h, v, verb).size

(* Fight_getMeleeDamage finds or makes the place of a verb. *)
LEMMA PlaceIs ==
  ASSUME NEW h, HeapOK(h), NEW v, VerbsOK(h, v), NEW verb
  PROVE  Place(h, PlacedHeap(h, v, verb), v, PlacedArray(h, v, verb), PlacedAt(h, v, verb), verb)
<1>1. ArrayOK(h, v) /\ v.size \in Nat
  BY DEF VerbsOK, ArrayOK
<1>2. CASE ByVerbAt(h, v, verb) # 0
  <2>1. /\ PlacedHeap(h, v, verb) = h /\ PlacedArray(h, v, verb) = v
        /\ PlacedAt(h, v, verb) = ByVerbAt(h, v, verb)
    BY <1>2 DEF PlacedHeap, PlacedArray, PlacedAt
  <2>2. ByVerbAt(h, v, verb) \in 1..v.size /\ VerbAt(h, v, ByVerbAt(h, v, verb)) = verb
    BY <1>1, <1>2, ByVerbAtIs
  <2>3. v.data # Null
    BY <2>2, <1>1 DEF ArrayOK
  <2> QED BY <2>1, <2>2, <2>3, <1>1 DEF Place, Same
<1>3. CASE ByVerbAt(h, v, verb) = 0
  <2> DEFINE n == h.next
             h1 == Malloc(h, <<verb>>)
             e == [m_verb |-> [data |-> n], hits |-> 0]
             r == Pushed(h1, v, e)
  <2>1. /\ PlacedHeap(h, v, verb) = r.heap /\ PlacedArray(h, v, verb) = r.array
        /\ PlacedAt(h, v, verb) = r.array.size
    BY <1>3 DEF PlacedHeap, PlacedArray, PlacedAt, Copy
  <2>2. \A i \in 1..v.size : VerbAt(h, v, i) # verb
    BY <1>3, ByVerbAtIs
  <2>3. /\ HeapOK(h1) /\ h1.live[n] = <<verb>> /\ n \notin DOMAIN h.live /\ n # Null
        /\ DOMAIN h1.live = DOMAIN h.live \union {n}
        /\ \A b \in DOMAIN h.live : h1.live[b] = h.live[b]
    <3>1. Memory(<<verb>>)
      BY DEF Memory
    <3> QED BY <3>1, MallocIs
  <2> HIDE DEF h1, n, e
  <2>4. v.data # Null => v.data \in DOMAIN h.live
    BY <1>1 DEF ArrayOK
  <2>5. ArrayOK(h1, v) /\ \A i \in 1..v.size : Cell(h1, v, i) = Cell(h, v, i)
    BY <1>1, <2>3, <2>4, ArrayKept DEF Same
  <2>6. /\ HeapOK(r.heap) /\ ArrayOK(r.heap, r.array)
        /\ r.array.size = v.size + 1 /\ r.array.data # Null
        /\ r.array.data = v.data \/ (r.array.data \notin DOMAIN h1.live)
        /\ DOMAIN r.heap.live = (DOMAIN h1.live \ {v.data}) \union {r.array.data}
        /\ \A b \in DOMAIN h1.live \ {v.data} : r.heap.live[b] = h1.live[b]
        /\ \A i \in 1..v.size : Cell(r.heap, r.array, i) = Cell(h1, v, i)
        /\ Cell(r.heap, r.array, v.size + 1) = e
    BY <2>3, <2>5, PushedIs
  <2> HIDE DEF r
  <2>7. n # v.data /\ n # r.array.data
    BY <2>3, <2>4, <2>6
  <2>8. NewPlace(h, r.heap, v, r.array, v.size + 1, verb, n)
    <3>1. n \in DOMAIN r.heap.live /\ r.heap.live[n] = <<verb>>
      BY <2>3, <2>6, <2>7
    <3> QED BY <2>2, <2>3, <2>6, <2>7, <3>1 DEF NewPlace, e
  <2>9. \A b \in DOMAIN h.live : b # v.data => Same(h, r.heap, b)
    BY <2>3, <2>6 DEF Same
  <2>10. \A j \in 1..v.size : Cell(r.heap, r.array, j) = Cell(h, v, j)
    BY <2>5, <2>6
  <2>11. r.array.data = v.data \/ r.array.data \notin DOMAIN h.live
    BY <2>3, <2>6
  <2>12. Place(h, r.heap, v, r.array, v.size + 1, verb)
    BY <2>6, <2>8, <2>9, <2>10, <2>11 DEF Place
  <2> QED BY <2>1, <2>6, <2>12
<1> QED BY <1>2, <1>3

(* What is left after a hit was counted in fight p, in place q of its verbs. *)
Counted(h, g, ft, p, w, q, k) ==
  /\ HeapOK(g) /\ DOMAIN g.live = DOMAIN k.live
  /\ ArrayOK(g, ft) /\ ArrayOK(g, w)
  /\ Cell(g, ft, p) = [sourceId |-> Cell(h, ft, p).sourceId, targetId |-> Cell(h, ft, p).targetId,
                       m_byVerb |-> w]
  /\ \A i \in 1..ft.size : i # p => Cell(g, ft, i) = Cell(h, ft, i)
  /\ Cell(g, w, q) = [m_verb |-> Cell(k, w, q).m_verb, hits |-> Cell(k, w, q).hits + 1]
  /\ \A j \in 1..w.size : j # q => Cell(g, w, j) = Cell(k, w, j)
  /\ \A b \in DOMAIN k.live : b # ft.data /\ b # w.data => Same(k, g, b)

(* What the count of a hit writes, and where. *)
LEMMA CountHitWrites ==
  ASSUME NEW h, NEW pc, NEW ft, NEW dt, WF(h, pc, ft, dt), NEW p \in 1..ft.size, NEW verb
  PROVE  LET v == Verbs(h, ft, p)
             k == PlacedHeap(h, v, verb)
             w == PlacedArray(h, v, verb)
             q == PlacedAt(h, v, verb)
         IN  /\ Place(h, k, v, w, q, verb) /\ q \in 1..w.size
             /\ Counted(h, CountHit(h, At(ft, p), verb), ft, p, w, q, k)
<1> DEFINE v == Verbs(h, ft, p)
           k == PlacedHeap(h, v, verb)
           w == PlacedArray(h, v, verb)
           q == PlacedAt(h, v, verb)
           this == Cell(h, ft, p)
           own == Own(h, pc, ft, dt)
           stored == Write(k, At(ft, p), [this EXCEPT !.m_byVerb = w])
           melee == At(w, q)
           g == Write(stored, melee, [Read(stored, melee) EXCEPT !.hits = Read(stored, melee).hits + 1])
<1>1. HeapOK(h) /\ FtOK(h, pc.size, ft) /\ ArrayOK(h, ft)
  BY DEF WF, FtOK
<1>2. FightOK(h, pc.size, this)
  BY <1>1 DEF FtOK
<1>3. VerbsOK(h, v) /\ ArrayOK(h, v) /\ v.size \in Nat
  BY <1>2 DEF FightOK, Verbs, VerbsOK, ArrayOK
<1>4. Read(h, At(ft, p)) = this /\ ft.data # Null /\ ft.data \in DOMAIN h.live
  BY <1>1, AtIs
<1>5. this.m_byVerb = v
  BY DEF Verbs
<1>6. CountHit(h, At(ft, p), verb) = g
  <2>1. CASE ByVerbAt(h, v, verb) # 0
    <3>1. k = h /\ w = v /\ q = ByVerbAt(h, v, verb)
      BY <2>1 DEF PlacedHeap, PlacedArray, PlacedAt
    <3> HIDE DEF k, w, q, v
    <3> QED BY <3>1, <2>1, <1>4, <1>5 DEF CountHit, Result
  <2>2. CASE ByVerbAt(h, v, verb) = 0
    <3> DEFINE copy == Copy(h, verb)
               e == [m_verb |-> copy.string, hits |-> 0]
               r == Pushed(copy.heap, v, e)
    <3>1. k = r.heap /\ w = r.array /\ q = w.size
      BY <2>2 DEF PlacedHeap, PlacedArray, PlacedAt
    <3>2. ArrayOK(copy.heap, v)
      <4>1. \A b \in DOMAIN h.live : b \in DOMAIN copy.heap.live /\ copy.heap.live[b] = h.live[b]
        <5>1. Memory(<<verb>>)
          BY DEF Memory
        <5> QED BY <5>1, <1>1, MallocIs DEF Copy
      <4>2. v.data # Null => v.data \in DOMAIN h.live
        BY <1>3 DEF ArrayOK
      <4> HIDE DEF copy, v
      <4> QED BY <4>1, <4>2, <1>3, ArrayKept DEF Same
    <3> HIDE DEF k, w, q, v, copy, e
    <3>3. Push(copy.heap, v, e, ByVerbDtor) = r
      BY <3>2, PushVerb
    <3> HIDE DEF r
    <3>4. Push(Copy(h, verb).heap, v, [m_verb |-> Copy(h, verb).string, hits |-> 0], ByVerbDtor) = r
      BY <3>3 DEF copy, e
    <3> QED BY <3>1, <3>4, <2>2, <1>4, <1>5 DEF CountHit
  <2> QED BY <2>1, <2>2
<1>7. Place(h, k, v, w, q, verb)
  BY <1>1, <1>3, PlaceIs
<1> HIDE DEF k, w, q, v
<1>8. HeapOK(k) /\ ArrayOK(k, w) /\ w.data # Null /\ (w.data = v.data \/ w.data \notin DOMAIN h.live)
  BY <1>7 DEF Place
<1>9. q \in 1..w.size
  <2>1. w.size \in Nat
    BY <1>8 DEF ArrayOK
  <2>2. CASE w = v /\ q \in 1..v.size
    BY <2>2
  <2>3. CASE \E n : NewPlace(h, k, v, w, q, verb, n)
    BY <2>3, <2>1, <1>3 DEF NewPlace
  <2> QED BY <2>2, <2>3, <1>7 DEF Place
<1>10. ft.data # v.data
  <2>1. OfFight \in DOMAIN own /\ OfByVerb(p) \in DOMAIN own /\ own[OfFight] = ft.data
        /\ own[OfByVerb(p)] = v.data /\ Once(own, DOMAIN h.live)
    BY OwnInOrder DEF v
  <2>2. OfFight # OfByVerb(p)
    BY OwnersApart
  <2> HIDE DEF own
  <2> QED BY <2>1, <2>2, <1>4 DEF Once
<1>11. Same(h, k, ft.data) /\ ft.data # w.data
  BY <1>4, <1>7, <1>8, <1>10 DEF Place
<1>12. ArrayOK(k, ft) /\ \A i \in 1..ft.size : Cell(k, ft, i) = Cell(h, ft, i)
  BY <1>1, <1>11, ArrayKept
<1>13. /\ HeapOK(stored) /\ ArrayOK(stored, ft)
       /\ DOMAIN stored.live = DOMAIN k.live
       /\ \A b \in DOMAIN k.live : b # ft.data => Same(k, stored, b)
       /\ Cell(stored, ft, p) = [this EXCEPT !.m_byVerb = w]
       /\ \A i \in 1..ft.size : i # p => Cell(stored, ft, i) = Cell(k, ft, i)
  <2> HIDE DEF this
  <2> QED BY <1>8, <1>12, CellWritten
<1> HIDE DEF stored
<1>14. w.data \in DOMAIN k.live
  BY <1>8 DEF ArrayOK
<1>15. ArrayOK(stored, w) /\ \A j \in 1..w.size : Cell(stored, w, j) = Cell(k, w, j)
  BY <1>8, <1>11, <1>13, <1>14, ArrayKept
<1>16. Read(stored, melee) = Cell(stored, w, q)
  BY <1>9, <1>15, AtIs
<1> DEFINE e == [Cell(k, w, q) EXCEPT !.hits = Cell(k, w, q).hits + 1]
<1>17. g = Write(stored, melee, e)
  BY <1>9, <1>15, <1>16
<1>18. Cell(k, w, q) = [m_verb |-> Cell(k, w, q).m_verb, hits |-> Cell(k, w, q).hits]
  <2>1. CASE k = h /\ w = v /\ q \in 1..v.size
    BY <2>1, <1>3 DEF VerbsOK, VerbOK
  <2>2. CASE \E n : NewPlace(h, k, v, w, q, verb, n)
    BY <2>2 DEF NewPlace
  <2> QED BY <2>1, <2>2, <1>7 DEF Place
<1>19. e = [m_verb |-> Cell(k, w, q).m_verb, hits |-> Cell(k, w, q).hits + 1]
  <2> DEFINE c == Cell(k, w, q)
             mv == c.m_verb
             hi == c.hits
  <2>1. c = [m_verb |-> mv, hits |-> hi] /\ e = [c EXCEPT !.hits = hi + 1]
    BY <1>18
  <2> HIDE DEF mv, hi, c, e
  <2>2. e = [m_verb |-> mv, hits |-> hi + 1]
    BY <2>1
  <2> QED BY <2>2 DEF mv, hi, c
<1> HIDE DEF e, melee
<1>20. /\ HeapOK(g) /\ ArrayOK(g, w) /\ DOMAIN g.live = DOMAIN stored.live
       /\ \A b \in DOMAIN stored.live : b # w.data => Same(stored, g, b)
       /\ Cell(g, w, q) = e
       /\ \A j \in 1..w.size : j # q => Cell(g, w, j) = Cell(stored, w, j)
  <2> HIDE DEF g
  <2> QED BY <1>9, <1>13, <1>15, <1>17, CellWritten DEF melee
<1> HIDE DEF g
<1>21. \A b \in DOMAIN k.live : b # ft.data /\ b # w.data => Same(k, g, b)
  BY <1>13, <1>20 DEF Same
<1>22. ft.data # Null => Same(stored, g, ft.data)
  BY <1>11, <1>13, <1>20 DEF Same
<1>23. ArrayOK(g, ft) /\ \A i \in 1..ft.size : Cell(g, ft, i) = Cell(stored, ft, i)
  BY <1>13, <1>22, ArrayKept
<1>24. [this EXCEPT !.m_byVerb = w] =
         [sourceId |-> this.sourceId, targetId |-> this.targetId, m_byVerb |-> w]
  <2> DEFINE si == this.sourceId
             ti == this.targetId
             mv == this.m_byVerb
  <2>1. this = [sourceId |-> si, targetId |-> ti, m_byVerb |-> mv]
    BY <1>2 DEF FightOK
  <2> HIDE DEF si, ti, mv, this
  <2>2. [this EXCEPT !.m_byVerb = w] = [sourceId |-> si, targetId |-> ti, m_byVerb |-> w]
    BY <2>1
  <2> QED BY <2>2 DEF si, ti
<1>25. Cell(g, ft, p) = [sourceId |-> this.sourceId, targetId |-> this.targetId, m_byVerb |-> w]
  BY <1>13, <1>23, <1>24
<1>26. \A i \in 1..ft.size : i # p => Cell(g, ft, i) = Cell(h, ft, i)
  BY <1>12, <1>13, <1>23
<1>27. \A j \in 1..w.size : j # q => Cell(g, w, j) = Cell(k, w, j)
  BY <1>15, <1>20
<1>28. Counted(h, g, ft, p, w, q, k)
  BY <1>13, <1>19, <1>20, <1>21, <1>23, <1>25, <1>26, <1>27 DEF Counted
<1> QED BY <1>6, <1>7, <1>9, <1>28 DEF k, w, q, v

(* The verbs of the fight, of which one is new or has one hit more. *)
VerbCounted(h, v, g, w, q, verb) ==
  /\ q \in 1..w.size /\ VerbAt(g, w, q) = verb /\ v.size <= w.size
  /\ \A j \in 1..w.size : j \in 1..v.size \/ j = q
  /\ \A j \in 1..v.size : VerbAt(g, w, j) = VerbAt(h, v, j)
  /\ \A j \in 1..v.size : j # q => Cell(g, w, j).hits = Cell(h, v, j).hits
  /\ \/ q \in 1..v.size /\ Cell(g, w, q).hits = Cell(h, v, q).hits + 1
     \/ Cell(g, w, q).hits = 1 /\ q \notin 1..v.size /\ \A j \in 1..v.size : VerbAt(h, v, j) # verb

(* One counter is one more; the battle stays in order. *)
LEMMA CountHitIs ==
  ASSUME NEW h, NEW pc, NEW ft, NEW dt, WF(h, pc, ft, dt), NEW p \in 1..ft.size, NEW verb \in Verb
  PROVE  LET g == CountHit(h, At(ft, p), verb)
         IN  /\ WF(g, pc, ft, dt)
             /\ KeptNames(h, g, pc) /\ KeptDeaths(h, g, dt)
             /\ \A i \in 1..ft.size : /\ Cell(g, ft, i).sourceId = Cell(h, ft, i).sourceId
                                      /\ Cell(g, ft, i).targetId = Cell(h, ft, i).targetId
             /\ \A i \in 1..ft.size : i # p => /\ Cell(g, ft, i) = Cell(h, ft, i)
                                               /\ KeptVerbs(h, g, Verbs(h, ft, i))
             /\ \E q : VerbCounted(h, Verbs(h, ft, p), g, Verbs(g, ft, p), q, verb)
<1> DEFINE v == Verbs(h, ft, p)
           k == PlacedHeap(h, v, verb)
           w == PlacedArray(h, v, verb)
           q == PlacedAt(h, v, verb)
           this == Cell(h, ft, p)
           own == Own(h, pc, ft, dt)
           g == CountHit(h, At(ft, p), verb)
           own2 == Own(g, pc, ft, dt)
<1>1. Place(h, k, v, w, q, verb) /\ q \in 1..w.size /\ Counted(h, g, ft, p, w, q, k)
  BY CountHitWrites
<1> HIDE DEF k, w, q, g
<1>2. /\ HeapOK(h) /\ PcOK(h, pc) /\ FtOK(h, pc.size, ft) /\ ArrayOK(h, ft) /\ ft.size \in Nat
      /\ pc.size \in Nat
  BY DEF WF, FtOK, ArrayOK, PcOK
<1>3. FightOK(h, pc.size, this) /\ VerbsOK(h, v) /\ ArrayOK(h, v) /\ v.size \in Nat
  BY <1>2 DEF FtOK, FightOK, Verbs, VerbsOK, ArrayOK
<1>4. /\ HeapOK(k) /\ ArrayOK(k, w) /\ w.data # Null /\ w.size \in Nat
      /\ w.data = v.data \/ w.data \notin DOMAIN h.live
      /\ \A b \in DOMAIN h.live : b # v.data => Same(h, k, b)
      /\ \A j \in 1..v.size : Cell(k, w, j) = Cell(h, v, j)
  BY <1>1 DEF Place, ArrayOK
<1>5. /\ HeapOK(g) /\ DOMAIN g.live = DOMAIN k.live
      /\ ArrayOK(g, ft) /\ ArrayOK(g, w)
      /\ Cell(g, ft, p) = [sourceId |-> this.sourceId, targetId |-> this.targetId, m_byVerb |-> w]
      /\ \A i \in 1..ft.size : i # p => Cell(g, ft, i) = Cell(h, ft, i)
      /\ Cell(g, w, q) = [m_verb |-> Cell(k, w, q).m_verb, hits |-> Cell(k, w, q).hits + 1]
      /\ \A j \in 1..w.size : j # q => Cell(g, w, j) = Cell(k, w, j)
      /\ \A b \in DOMAIN k.live : b # ft.data /\ b # w.data => Same(k, g, b)
  BY <1>1 DEF Counted
<1>6. /\ Once(own, DOMAIN h.live) /\ Null \notin DOMAIN h.live
      /\ DOMAIN own = Owners(h, pc, ft) /\ {OfPc, OfFight, OfDeath} \subseteq DOMAIN own
      /\ own[OfPc] = pc.data /\ own[OfFight] = ft.data /\ own[OfDeath] = dt.data
      /\ \A i \in 1..pc.size : OfString(i) \in DOMAIN own /\ own[OfString(i)] = Cell(h, pc, i).data
      /\ \A i \in 1..ft.size : OfByVerb(i) \in DOMAIN own /\ own[OfByVerb(i)] = Verbs(h, ft, i).data
      /\ \A i \in 1..ft.size : \A j \in 1..Verbs(h, ft, i).size :
           /\ OfVerb(i, j) \in DOMAIN own
           /\ own[OfVerb(i, j)] = Cell(h, Verbs(h, ft, i), j).m_verb.data
  BY OwnInOrder
<1>7. own[OfByVerb(p)] = v.data /\ OfByVerb(p) \in DOMAIN own
      /\ \A j \in 1..v.size : OfVerb(p, j) \in DOMAIN own /\ own[OfVerb(p, j)] = Cell(h, v, j).m_verb.data
  BY <1>6
<1>8. w.data \in DOMAIN k.live
  BY <1>4 DEF ArrayOK
<1>9. \A b \in DOMAIN h.live : b # ft.data /\ b # v.data => Same(h, g, b)
  <2> TAKE b \in DOMAIN h.live
  <2>1. CASE b # ft.data /\ b # v.data
    <3>1. Same(h, k, b) /\ b # w.data
      BY <2>1, <1>4
    <3>2. Same(k, g, b)
      BY <3>1, <2>1, <1>5 DEF Same
    <3> QED BY <3>1, <3>2 DEF Same
  <2> QED BY <2>1
<1> DEFINE some == {OfFight, OfByVerb(p)}
<1>10. Untouched(h, g, own, some)
  <2>1. some \subseteq DOMAIN own
    BY <1>6, <1>7
  <2>2. \A b \in DOMAIN h.live : (\A o \in some : b # own[o]) => Same(h, g, b)
    BY <1>6, <1>7, <1>9
  <2> HIDE DEF own, some
  <2> QED BY <1>6, <2>1, <2>2, OthersUntouched
<1>11. /\ OfPc \notin some /\ OfDeath \notin some
       /\ \A i : OfString(i) \notin some
       /\ \A i : i # p => OfByVerb(i) \notin some
       /\ \A i, j : OfVerb(i, j) \notin some
  BY OwnersApart
<1> HIDE DEF some
<1>12. PcOK(g, pc) /\ KeptNames(h, g, pc)
  <2> HIDE DEF own
  <2> QED BY <1>10, <1>11, NamesUntouched DEF own
<1>13. DtOK(g, pc.size, dt) /\ KeptDeaths(h, g, dt)
  <2> HIDE DEF own
  <2> QED BY <1>2, <1>10, <1>11, DeathsUntouched DEF own
<1>14. \A i \in 1..ft.size : i # p => VerbsOK(g, Verbs(h, ft, i)) /\ KeptVerbs(h, g, Verbs(h, ft, i))
  <2> HIDE DEF own
  <2> QED BY <1>10, <1>11, VerbsUntouched DEF own
<1>15. Verbs(g, ft, p) = w /\ \A i \in 1..ft.size : i # p => Verbs(g, ft, i) = Verbs(h, ft, i)
  BY <1>5 DEF Verbs
(* The Strings of the verbs that were there. *)
<1>16. \A j \in 1..v.size : Same(h, g, Cell(h, v, j).m_verb.data)
  <2> TAKE j \in 1..v.size
  <2>1. Cell(h, v, j).m_verb.data \in DOMAIN h.live
    BY <1>3 DEF VerbsOK, VerbOK
  <2>2. OfVerb(p, j) # OfFight /\ OfVerb(p, j) # OfByVerb(p)
    BY OwnersApart
  <2>3. Cell(h, v, j).m_verb.data # ft.data /\ Cell(h, v, j).m_verb.data # v.data
    <3> HIDE DEF own, v
    <3> QED BY <2>1, <2>2, <1>6, <1>7 DEF Once
  <2> QED BY <2>1, <2>3, <1>9
<1>17. \A j \in 1..v.size : j \in 1..w.size
  <2>1. w.size = v.size \/ w.size = v.size + 1
    BY <1>1 DEF Place, NewPlace
  <2> QED BY <2>1, <1>3
<1>18. \A j \in 1..v.size : /\ Cell(g, w, j).m_verb = Cell(h, v, j).m_verb
                            /\ j # q => Cell(g, w, j) = Cell(h, v, j)
  <2> TAKE j \in 1..v.size
  <2>1. CASE j = q
    BY <2>1, <1>4, <1>5
  <2>2. CASE j # q
    BY <2>2, <1>4, <1>5, <1>17
  <2> QED BY <2>1, <2>2
<1>19. \A j \in 1..v.size : VerbAt(g, w, j) = VerbAt(h, v, j)
  BY <1>16, <1>18 DEF VerbAt, Text, Same
<1>20. \A j \in 1..w.size : j \in 1..v.size \/ j = q
  <2>1. CASE w = v
    BY <2>1
  <2>2. CASE \E n : NewPlace(h, k, v, w, q, verb, n)
    <3>1. w.size = v.size + 1 /\ q = v.size + 1
      BY <2>2 DEF NewPlace
    <3> QED BY <3>1, <1>3
  <2> QED BY <2>1, <2>2, <1>1 DEF Place
(* Of the place q: the verb, a String that is there, and its hits. *)
<1>21. /\ VerbAt(g, w, q) = verb /\ Cell(g, w, q).m_verb.data \in DOMAIN g.live
       /\ \/ q \in 1..v.size /\ Cell(g, w, q).hits = Cell(h, v, q).hits + 1
          \/ Cell(g, w, q).hits = 1 /\ q \notin 1..v.size /\ \A j \in 1..v.size : VerbAt(h, v, j) # verb
  <2>1. CASE k = h /\ w = v /\ q \in 1..v.size /\ VerbAt(h, v, q) = verb
    <3>1. VerbAt(g, w, q) = verb
      BY <2>1, <1>19
    <3>2. Cell(g, w, q).hits = Cell(h, v, q).hits + 1
      BY <2>1, <1>5
    <3>3. Cell(g, w, q).m_verb.data \in DOMAIN g.live
      BY <2>1, <1>16, <1>18 DEF Same
    <3> QED BY <3>1, <3>2, <3>3, <2>1
  <2>2. CASE \E n : NewPlace(h, k, v, w, q, verb, n)
    <3>1. PICK n : NewPlace(h, k, v, w, q, verb, n)
      BY <2>2
    <3>2. Cell(k, w, q) = [m_verb |-> [data |-> n], hits |-> 0] /\ n \in DOMAIN k.live
          /\ k.live[n] = <<verb>> /\ n # w.data /\ n \notin DOMAIN h.live /\ q = v.size + 1
          /\ \A j \in 1..v.size : VerbAt(h, v, j) # verb
      BY <3>1 DEF NewPlace
    <3>3. n # ft.data
      <4>1. ft.data \in DOMAIN h.live
        BY <1>2, AtIs
      <4> QED BY <4>1, <3>2
    <3>4. Same(k, g, n)
      BY <3>2, <3>3, <1>5
    <3>5. Cell(g, w, q).m_verb.data = n /\ Cell(g, w, q).hits = 1
      BY <3>2, <1>5
    <3>6. VerbAt(g, w, q) = verb
      BY <3>2, <3>4, <3>5 DEF VerbAt, Text, Same
    <3>7. q \notin 1..v.size
      BY <3>2, <1>3
    <3> QED BY <3>2, <3>4, <3>5, <3>6, <3>7 DEF Same
  <2> QED BY <2>1, <2>2, <1>1 DEF Place
<1>22. VerbCounted(h, v, g, w, q, verb)
  <2>1. v.size <= w.size
    <3>1. w.size = v.size \/ w.size = v.size + 1
      BY <1>1 DEF Place, NewPlace
    <3> QED BY <3>1, <1>3
  <2>2. \A j \in 1..v.size : j # q => Cell(g, w, j).hits = Cell(h, v, j).hits
    BY <1>18
  <2> QED BY <2>1, <2>2, <1>1, <1>19, <1>20, <1>21 DEF VerbCounted
<1>23. VerbsOK(g, w)
  <2>1. \A j \in 1..w.size : VerbOK(g, Cell(g, w, j))
    <3> TAKE j \in 1..w.size
    <3>1. CASE j = q
      <4>1. Cell(g, w, q) = [m_verb |-> Cell(g, w, q).m_verb, hits |-> Cell(g, w, q).hits]
        BY <1>5
      <4>2. Cell(g, w, q).hits \in Nat
        <5>1. CASE q \in 1..v.size /\ Cell(g, w, q).hits = Cell(h, v, q).hits + 1
          <6>1. Cell(h, v, q).hits \in Nat
            BY <5>1, <1>3 DEF VerbsOK, VerbOK
          <6> QED BY <5>1, <6>1
        <5>2. CASE Cell(g, w, q).hits = 1
          BY <5>2
        <5> QED BY <5>1, <5>2, <1>21
      <4>3. Text(g, Cell(g, w, q).m_verb) \in Verb
        BY <1>21 DEF VerbAt
      <4> QED BY <3>1, <4>1, <4>2, <4>3, <1>21 DEF VerbOK
    <3>2. CASE j # q
      <4>1. j \in 1..v.size /\ Cell(g, w, j) = Cell(h, v, j)
        BY <3>2, <1>18, <1>20
      <4>2. VerbOK(h, Cell(h, v, j)) /\ Same(h, g, Cell(h, v, j).m_verb.data)
        BY <4>1, <1>3, <1>16 DEF VerbsOK
      <4> QED BY <4>1, <4>2 DEF VerbOK, Same, Text
    <3> QED BY <3>1, <3>2
  <2>2. \A i, j \in 1..w.size : VerbAt(g, w, i) = VerbAt(g, w, j) => i = j
    <3>1. \A i, j \in 1..v.size : VerbAt(g, w, i) = VerbAt(g, w, j) => i = j
      BY <1>3, <1>19 DEF VerbsOK
    <3>2. \A j \in 1..v.size : VerbAt(g, w, j) = verb => j = q
      <4>1. CASE q \in 1..v.size
        BY <4>1, <3>1, <1>21
      <4>2. CASE q \notin 1..v.size
        BY <4>2, <1>19, <1>21
      <4> QED BY <4>1, <4>2
    <3> QED BY <3>1, <3>2, <1>20, <1>21
  <2> QED BY <2>1, <2>2, <1>5 DEF VerbsOK
<1>24. FtOK(g, pc.size, ft)
  <2>1. \A i \in 1..ft.size : FightOK(g, pc.size, Cell(g, ft, i))
    <3> TAKE i \in 1..ft.size
    <3>1. CASE i = p
      BY <3>1, <1>3, <1>5, <1>23 DEF FightOK
    <3>2. CASE i # p
      <4>1. FightOK(h, pc.size, Cell(h, ft, i)) /\ Cell(g, ft, i) = Cell(h, ft, i)
        BY <3>2, <1>2, <1>5 DEF FtOK
      <4>2. VerbsOK(g, Cell(h, ft, i).m_byVerb)
        BY <3>2, <1>14 DEF Verbs
      <4> QED BY <4>1, <4>2 DEF FightOK
    <3> QED BY <3>1, <3>2
  <2>2. \A i, j \in 1..ft.size : SamePair(g, ft, i, j) => SamePair(h, ft, i, j)
    BY <1>5 DEF SamePair
  <2> QED BY <2>1, <2>2, <1>2, <1>5 DEF FtOK
<1>25. Once(own2, DOMAIN g.live)
  <2>1. ArrayOK(g, pc) /\ \A i \in 1..ft.size : ArrayOK(g, Verbs(g, ft, i))
    BY <1>12, <1>24 DEF PcOK, FtOK, FightOK, VerbsOK, Verbs
  <2>2. /\ DOMAIN own2 = Owners(g, pc, ft)
        /\ own2[OfPc] = pc.data /\ own2[OfFight] = ft.data /\ own2[OfDeath] = dt.data
        /\ \A i \in 1..pc.size : own2[OfString(i)] = Cell(g, pc, i).data
        /\ \A i \in 1..ft.size : own2[OfByVerb(i)] = Verbs(g, ft, i).data
        /\ \A i \in 1..ft.size : \A j \in 1..Verbs(g, ft, i).size :
             own2[OfVerb(i, j)] = Cell(g, Verbs(g, ft, i), j).m_verb.data
    BY <2>1, <1>5, OwnIs
  <2> HIDE DEF own, own2, v
  <2>4. \A o : o \in DOMAIN own <=>
           \/ o \in {OfPc, OfFight, OfDeath}
           \/ \E i \in 1..pc.size : o = OfString(i)
           \/ \E i \in 1..ft.size : o = OfByVerb(i)
           \/ \E i \in 1..ft.size : \E j \in 1..Verbs(h, ft, i).size : o = OfVerb(i, j)
    BY <1>2, <1>6, OwnersAre
  <2>5. \A o : o \in DOMAIN own2 <=>
           \/ o \in {OfPc, OfFight, OfDeath}
           \/ \E i \in 1..pc.size : o = OfString(i)
           \/ \E i \in 1..ft.size : o = OfByVerb(i)
           \/ \E i \in 1..ft.size : \E j \in 1..Verbs(g, ft, i).size : o = OfVerb(i, j)
    BY <2>2, <1>5, OwnersAre
  <2>6. \A o \in DOMAIN own : o # OfByVerb(p) => own2[o] = own[o]
    <3> TAKE o \in DOMAIN own
    <3> HAVE o # OfByVerb(p)
    <3>1. CASE o \in {OfPc, OfFight, OfDeath}
      BY <3>1, <2>2, <1>6
    <3>2. CASE \E i \in 1..pc.size : o = OfString(i)
      BY <3>2, <2>2, <1>6, <1>12 DEF KeptNames
    <3>3. CASE \E i \in 1..ft.size : o = OfByVerb(i)
      BY <3>3, <2>2, <1>6, <1>15
    <3>4. CASE \E i \in 1..ft.size : \E j \in 1..Verbs(h, ft, i).size : o = OfVerb(i, j)
      <4>1. PICK i \in 1..ft.size : \E j \in 1..Verbs(h, ft, i).size : o = OfVerb(i, j)
        BY <3>4
      <4>2. PICK j \in 1..Verbs(h, ft, i).size : o = OfVerb(i, j)
        BY <4>1
      <4>3. own[o] = Cell(h, Verbs(h, ft, i), j).m_verb.data
        BY <1>6, <4>2
      <4>4. CASE i = p
        <5>1. j \in 1..v.size /\ j \in 1..w.size
          BY <4>4, <1>17 DEF v
        <5>2. own2[o] = Cell(g, w, j).m_verb.data
          BY <5>1, <4>4, <4>2, <2>2, <1>15
        <5> QED BY <5>1, <5>2, <4>3, <4>4, <1>18 DEF v
      <4>5. CASE i # p
        <5>1. Verbs(g, ft, i) = Verbs(h, ft, i)
          BY <4>5, <1>15
        <5>2. own2[o] = Cell(g, Verbs(h, ft, i), j).m_verb.data
          BY <5>1, <4>2, <2>2
        <5>3. Cell(g, Verbs(h, ft, i), j) = Cell(h, Verbs(h, ft, i), j)
          BY <4>5, <1>14 DEF KeptVerbs
        <5> QED BY <5>2, <5>3, <4>3
      <4> QED BY <4>4, <4>5
    <3> QED BY <3>1, <3>2, <3>3, <3>4, <2>4
  <2>7. own2[OfByVerb(p)] = w.data
    BY <2>2, <1>15
  <2>8. CASE k = h /\ w = v
    <3>1. \A i \in 1..ft.size : Verbs(g, ft, i) = Verbs(h, ft, i)
      BY <2>8, <1>15 DEF v
    <3>2. \A o : (\E i \in 1..ft.size : \E j \in 1..Verbs(g, ft, i).size : o = OfVerb(i, j))
             <=> \E i \in 1..ft.size : \E j \in 1..Verbs(h, ft, i).size : o = OfVerb(i, j)
      BY <3>1
    <3>3. DOMAIN own2 = DOMAIN own
      <4>1. \A o : o \in DOMAIN own2 <=> o \in DOMAIN own
        BY <2>4, <2>5, <3>2
      <4> QED BY <4>1
    <3>4. own2[OfByVerb(p)] = own[OfByVerb(p)] /\ own2[OfByVerb(p)] # Null
      BY <2>7, <2>8, <1>4, <1>7
    <3>5. own[OfByVerb(p)] \in DOMAIN h.live
      BY <3>4, <1>6, <1>7 DEF Once
    <3>6. DOMAIN g.live = (DOMAIN h.live \ {own[OfByVerb(p)]}) \union {own2[OfByVerb(p)]}
      BY <3>4, <3>5, <2>8, <1>5
    <3>7. \A o \in DOMAIN own \ {OfByVerb(p)} : own2[o] = own[o]
      BY <2>6
    <3> QED BY <3>3, <3>4, <3>6, <3>7, <1>6, <1>7, OnceMoved
  <2>9. CASE \E n : NewPlace(h, k, v, w, q, verb, n)
    <3> DEFINE new == OfVerb(p, v.size + 1)
    <3>1. PICK n : NewPlace(h, k, v, w, q, verb, n)
      BY <2>9
    <3>2. /\ n \notin DOMAIN h.live /\ n # Null /\ n # w.data
          /\ w.size = v.size + 1 /\ q = v.size + 1
          /\ Cell(k, w, q) = [m_verb |-> [data |-> n], hits |-> 0]
          /\ DOMAIN k.live = ((DOMAIN h.live \union {n}) \ {v.data}) \union {w.data}
      BY <3>1 DEF NewPlace
    <3>3. v.size + 1 \notin 1..v.size /\ \A j : j \in 1..w.size <=> j \in 1..v.size \/ j = v.size + 1
      BY <3>2, <1>3
    <3>4. \A i \in 1..ft.size : \A o : (\E j \in 1..Verbs(g, ft, i).size : o = OfVerb(i, j))
             <=> (\E j \in 1..Verbs(h, ft, i).size : o = OfVerb(i, j)) \/ (i = p /\ o = new)
      <4> TAKE i \in 1..ft.size
      <4>1. CASE i = p
        BY <4>1, <3>3, <1>15 DEF v
      <4>2. CASE i # p
        BY <4>2, <1>15
      <4> QED BY <4>1, <4>2
    <3>5. new \notin DOMAIN own
      <4>1. ASSUME NEW i \in 1..ft.size, NEW j \in 1..Verbs(h, ft, i).size, new = OfVerb(i, j)
            PROVE  FALSE
        <5>1. i = p /\ j = v.size + 1
          BY <4>1, OwnersApart
        <5> QED BY <5>1, <3>3 DEF v
      <4>2. new \notin {OfPc, OfFight, OfDeath} /\ (\A i : new # OfString(i)) /\ \A i : new # OfByVerb(i)
        BY OwnersApart
      <4> HIDE DEF new
      <4> QED BY <4>1, <4>2, <2>4
    <3>6. DOMAIN own2 = DOMAIN own \union {new}
      <4> HIDE DEF new
      <4>1. \A o : (\E i \in 1..ft.size : \E j \in 1..Verbs(g, ft, i).size : o = OfVerb(i, j))
             <=> (\E i \in 1..ft.size : \E j \in 1..Verbs(h, ft, i).size : o = OfVerb(i, j)) \/ o = new
        BY <3>4
      <4>2. \A o : o \in DOMAIN own2 <=> (o \in DOMAIN own \/ o = new)
        BY <2>4, <2>5, <4>1
      <4> QED BY <4>2
    <3>7. own2[new] = n
      <4>1. v.size + 1 \in 1..Verbs(g, ft, p).size
        BY <3>2, <3>3, <1>15
      <4>2. own2[new] = Cell(g, w, q).m_verb.data
        BY <4>1, <2>2, <3>2, <1>15
      <4> QED BY <4>2, <3>2, <1>5
    <3> HIDE DEF new
    <3>8. own2[new] \notin DOMAIN h.live /\ own2[new] # own[OfByVerb(p)] /\ own2[new] # Null
      <4>1. v.data # Null => v.data \in DOMAIN h.live
        BY <1>3 DEF ArrayOK
      <4> QED BY <4>1, <3>2, <3>7, <1>7
    <3>9. own2[OfByVerb(p)] # Null /\ (own2[OfByVerb(p)] = own[OfByVerb(p)]
            \/ own2[OfByVerb(p)] \notin DOMAIN h.live \union {own2[new]})
      BY <2>7, <3>2, <3>7, <1>4, <1>7
    <3>10. DOMAIN g.live = ((DOMAIN h.live \union ({own2[new]} \ {Null})) \ {own[OfByVerb(p)]}) \union {own2[OfByVerb(p)]}
      BY <2>7, <3>2, <3>7, <3>8, <1>5, <1>7
    <3>11. \A o \in DOMAIN own \ {OfByVerb(p)} : own2[o] = own[o]
      BY <2>6
    <3> QED BY <3>5, <3>6, <3>8, <3>9, <3>10, <3>11, <1>6, <1>7, OnceGrown
  <2> QED BY <2>8, <2>9, <1>1 DEF Place
<1>26. WF(g, pc, ft, dt)
  BY <1>5, <1>12, <1>13, <1>24, <1>25 DEF WF
<1>27. \A i \in 1..ft.size : /\ Cell(g, ft, i).sourceId = Cell(h, ft, i).sourceId
                             /\ Cell(g, ft, i).targetId = Cell(h, ft, i).targetId
  BY <1>5
<1>28. \E r : VerbCounted(h, v, g, w, r, verb)
  BY <1>22
<1> QED BY <1>5, <1>12, <1>13, <1>14, <1>15, <1>26, <1>27, <1>28 DEF g

(* Battle_die: one death more, and the block may have moved. *)
LEMMA DeathPushed ==
  ASSUME NEW h, NEW pc, NEW ft, NEW dt, WF(h, pc, ft, dt), NEW s \in 1..pc.size, NEW t \in 1..pc.size
  PROVE  LET death == [sourceId |-> s, targetId |-> t]
             r == Push(h, dt, death, NoDtor)
         IN  /\ WF(r.heap, pc, ft, r.array)
             /\ r.array.size = dt.size + 1
             /\ Cell(r.heap, r.array, dt.size + 1) = death
             /\ \A i \in 1..dt.size : Cell(r.heap, r.array, i) = Cell(h, dt, i)
             /\ KeptNames(h, r.heap, pc) /\ KeptFights(h, r.heap, ft)
<1> DEFINE death == [sourceId |-> s, targetId |-> t]
           r == Pushed(h, dt, death)
           g == r.heap
           own == Own(h, pc, ft, dt)
           own2 == Own(g, pc, ft, r.array)
<1>1. /\ HeapOK(h) /\ PcOK(h, pc) /\ pc.size \in Nat /\ FtOK(h, pc.size, ft) /\ ArrayOK(h, ft)
      /\ DtOK(h, pc.size, dt) /\ ArrayOK(h, dt) /\ dt.size \in Nat
  BY DEF WF, PcOK, ArrayOK, FtOK, DtOK
<1>2. Push(h, dt, death, NoDtor) = r
  BY <1>1, PushDeath
<1>3. death.sourceId = s /\ death.targetId = t
  OBVIOUS
<1> HIDE DEF death
<1>5. /\ HeapOK(g) /\ ArrayOK(g, r.array)
      /\ r.array.size = dt.size + 1 /\ r.array.data # Null
      /\ r.array.data = dt.data \/ (r.array.data \notin DOMAIN h.live)
      /\ DOMAIN g.live = (DOMAIN h.live \ {dt.data}) \union {r.array.data}
      /\ \A b \in DOMAIN h.live \ {dt.data} : g.live[b] = h.live[b]
      /\ \A i \in 1..dt.size : Cell(g, r.array, i) = Cell(h, dt, i)
      /\ Cell(g, r.array, dt.size + 1) = death
  BY <1>1, PushedIs
<1> HIDE DEF r
<1>6. /\ Once(own, DOMAIN h.live) /\ Null \notin DOMAIN h.live
      /\ DOMAIN own = Owners(h, pc, ft) /\ {OfPc, OfFight, OfDeath} \subseteq DOMAIN own
      /\ own[OfPc] = pc.data /\ own[OfFight] = ft.data /\ own[OfDeath] = dt.data
      /\ \A i \in 1..pc.size : OfString(i) \in DOMAIN own /\ own[OfString(i)] = Cell(h, pc, i).data
      /\ \A i \in 1..ft.size : OfByVerb(i) \in DOMAIN own /\ own[OfByVerb(i)] = Verbs(h, ft, i).data
      /\ \A i \in 1..ft.size : \A j \in 1..Verbs(h, ft, i).size :
           /\ OfVerb(i, j) \in DOMAIN own
           /\ own[OfVerb(i, j)] = Cell(h, Verbs(h, ft, i), j).m_verb.data
  BY OwnInOrder
<1>10. \A b \in DOMAIN h.live : b # dt.data => Same(h, g, b)
  BY <1>5 DEF Same
<1>11. Untouched(h, g, own, {OfDeath})
  <2>1. {OfDeath} \subseteq DOMAIN own
    BY <1>6
  <2>2. \A b \in DOMAIN h.live : (\A o \in {OfDeath} : b # own[o]) => Same(h, g, b)
    BY <1>6, <1>10
  <2> HIDE DEF own
  <2> QED BY <1>6, <2>1, <2>2, OthersUntouched
<1>12. /\ OfPc \notin {OfDeath} /\ OfFight \notin {OfDeath}
       /\ (\A i : OfString(i) \notin {OfDeath}) /\ (\A i : OfByVerb(i) \notin {OfDeath})
       /\ \A i, j : OfVerb(i, j) \notin {OfDeath}
  BY OwnersApart
<1>13. PcOK(g, pc) /\ KeptNames(h, g, pc)
  <2> HIDE DEF own, g
  <2> QED BY <1>11, <1>12, NamesUntouched DEF own
<1>14. FtOK(g, pc.size, ft) /\ KeptFights(h, g, ft)
  <2> HIDE DEF own, g
  <2> QED BY <1>1, <1>11, <1>12, FightsUntouched DEF own
<1>15. DtOK(g, pc.size, r.array)
  <2>1. \A i \in 1..(dt.size + 1) : i \in 1..dt.size \/ i = dt.size + 1
    BY <1>1
  <2> QED BY <2>1, <1>1, <1>3, <1>5 DEF DtOK
<1>16. Once(own2, DOMAIN g.live)
  <2>1. /\ ArrayOK(g, pc) /\ ArrayOK(g, ft)
        /\ \A i \in 1..ft.size : Verbs(g, ft, i) = Verbs(h, ft, i) /\ ArrayOK(g, Verbs(g, ft, i))
    BY <1>13, <1>14 DEF PcOK, FtOK, FightOK, VerbsOK, Verbs, KeptFights
  <2>2. /\ DOMAIN own2 = Owners(g, pc, ft)
        /\ own2[OfPc] = pc.data /\ own2[OfFight] = ft.data /\ own2[OfDeath] = r.array.data
        /\ \A i \in 1..pc.size : own2[OfString(i)] = Cell(g, pc, i).data
        /\ \A i \in 1..ft.size : own2[OfByVerb(i)] = Verbs(g, ft, i).data
        /\ \A i \in 1..ft.size : \A j \in 1..Verbs(g, ft, i).size :
             own2[OfVerb(i, j)] = Cell(g, Verbs(g, ft, i), j).m_verb.data
    BY <2>1, OwnIs
  <2> HIDE DEF own, own2, g
  <2>4. \A o : o \in DOMAIN own <=>
           \/ o \in {OfPc, OfFight, OfDeath}
           \/ \E i \in 1..pc.size : o = OfString(i)
           \/ \E i \in 1..ft.size : o = OfByVerb(i)
           \/ \E i \in 1..ft.size : \E j \in 1..Verbs(h, ft, i).size : o = OfVerb(i, j)
    BY <1>1, <1>6, OwnersAre
  <2>5. \A o : o \in DOMAIN own2 <=>
           \/ o \in {OfPc, OfFight, OfDeath}
           \/ \E i \in 1..pc.size : o = OfString(i)
           \/ \E i \in 1..ft.size : o = OfByVerb(i)
           \/ \E i \in 1..ft.size : \E j \in 1..Verbs(g, ft, i).size : o = OfVerb(i, j)
    BY <2>1, <2>2, OwnersAre
  <2>6. DOMAIN own2 = DOMAIN own
    <3>1. \A o : (\E i \in 1..ft.size : \E j \in 1..Verbs(g, ft, i).size : o = OfVerb(i, j))
             <=> \E i \in 1..ft.size : \E j \in 1..Verbs(h, ft, i).size : o = OfVerb(i, j)
      BY <2>1
    <3>2. \A o : o \in DOMAIN own2 <=> o \in DOMAIN own
      BY <2>4, <2>5, <3>1
    <3> QED BY <3>2
  <2>7. \A o \in DOMAIN own \ {OfDeath} : own2[o] = own[o]
    <3> TAKE o \in DOMAIN own \ {OfDeath}
    <3>1. CASE o \in {OfPc, OfFight}
      BY <3>1, <2>2, <1>6
    <3>2. CASE \E i \in 1..pc.size : o = OfString(i)
      BY <3>2, <2>2, <1>6, <1>13 DEF KeptNames
    <3>3. CASE \E i \in 1..ft.size : o = OfByVerb(i)
      BY <3>3, <2>2, <1>6, <2>1
    <3>4. CASE \E i \in 1..ft.size : \E j \in 1..Verbs(h, ft, i).size : o = OfVerb(i, j)
      <4>1. PICK i \in 1..ft.size : \E j \in 1..Verbs(h, ft, i).size : o = OfVerb(i, j)
        BY <3>4
      <4>2. PICK j \in 1..Verbs(h, ft, i).size : o = OfVerb(i, j)
        BY <4>1
      <4>3. Verbs(g, ft, i) = Verbs(h, ft, i)
        BY <2>1
      <4>4. Cell(g, Verbs(h, ft, i), j) = Cell(h, Verbs(h, ft, i), j)
        BY <1>14 DEF KeptFights, KeptVerbs
      <4>5. own2[o] = Cell(g, Verbs(h, ft, i), j).m_verb.data
        BY <2>2, <4>2, <4>3
      <4>6. own[o] = Cell(h, Verbs(h, ft, i), j).m_verb.data
        BY <1>6, <4>2
      <4> QED BY <4>4, <4>5, <4>6
    <3> QED BY <3>1, <3>2, <3>3, <3>4, <2>4
  <2>8. own2[OfDeath] # Null /\ (own2[OfDeath] = own[OfDeath] \/ own2[OfDeath] \notin DOMAIN h.live)
    BY <2>2, <1>5, <1>6
  <2>9. DOMAIN g.live = (DOMAIN h.live \ {own[OfDeath]}) \union {own2[OfDeath]}
    BY <2>2, <1>5, <1>6 DEF g
  <2>10. OfDeath \in DOMAIN own
    BY <1>6
  <2> QED BY <1>6, <2>6, <2>7, <2>8, <2>9, <2>10, OnceMoved
<1>17. WF(g, pc, ft, r.array)
  BY <1>5, <1>13, <1>14, <1>15, <1>16 DEF WF
<1> QED BY <1>2, <1>5, <1>13, <1>14, <1>17 DEF death

(* Battle_report swaps two fights, and what they own with them. *)
LEMMA OncePermuted ==
  ASSUME NEW own, NEW own2, NEW live, Once(own, live), NEW f,
         \A o \in DOMAIN own2 : f[o] \in DOMAIN own /\ own2[o] = own[f[o]],
         \A o, p \in DOMAIN own2 : f[o] = f[p] => o = p,
         \A o \in DOMAIN own : \E p \in DOMAIN own2 : f[p] = o
  PROVE  Once(own2, live)
<1>1. ASSUME NEW b PROVE b \in live <=> (b # Null /\ \E o \in DOMAIN own2 : own2[o] = b)
  <2>1. ASSUME NEW o \in DOMAIN own, own[o] = b PROVE \E p \in DOMAIN own2 : own2[p] = b
    <3>1. PICK p \in DOMAIN own2 : f[p] = o
      OBVIOUS
    <3>2. own2[p] = b
      BY <2>1, <3>1
    <3> QED BY <3>2
  <2>2. ASSUME NEW o \in DOMAIN own2, own2[o] = b PROVE \E p \in DOMAIN own : own[p] = b
    BY <2>2
  <2> QED BY <2>1, <2>2 DEF Once
<1>2. \A o, p \in DOMAIN own2 : own2[o] = own2[p] /\ own2[o] # Null => o = p
  BY DEF Once
<1> QED BY <1>1, <1>2 DEF Once

(* Array_swap exchanges two elements. *)
LEMMA SwapIs ==
  ASSUME NEW h, HeapOK(h), NEW a, ArrayOK(h, a), NEW l \in 1..a.size, NEW r \in 1..a.size, l # r
  PROVE  LET g == Swap(h, a, l, r)
         IN  /\ HeapOK(g) /\ ArrayOK(g, a)
             /\ DOMAIN g.live = DOMAIN h.live
             /\ \A b \in DOMAIN h.live : b # a.data => Same(h, g, b)
             /\ Cell(g, a, l) = Cell(h, a, r) /\ Cell(g, a, r) = Cell(h, a, l)
             /\ \A i \in 1..a.size : i # l /\ i # r => Cell(g, a, i) = Cell(h, a, i)
<1> DEFINE el == Read(h, At(a, l))
           er == Read(h, At(a, r))
           k == Write(h, At(a, l), er)
           g == Write(k, At(a, r), el)
<1>1. el = Cell(h, a, l) /\ er = Cell(h, a, r)
  BY AtIs
<1> HIDE DEF el, er
<1>2. /\ HeapOK(k) /\ ArrayOK(k, a) /\ DOMAIN k.live = DOMAIN h.live
      /\ \A b \in DOMAIN h.live : b # a.data => Same(h, k, b)
      /\ Cell(k, a, l) = er
      /\ \A j \in 1..a.size : j # l => Cell(k, a, j) = Cell(h, a, j)
  BY CellWritten
<1> HIDE DEF k
<1>3. /\ HeapOK(g) /\ ArrayOK(g, a) /\ DOMAIN g.live = DOMAIN k.live
      /\ \A b \in DOMAIN k.live : b # a.data => Same(k, g, b)
      /\ Cell(g, a, r) = el
      /\ \A j \in 1..a.size : j # r => Cell(g, a, j) = Cell(k, a, j)
  BY <1>2, CellWritten
<1>4. Swap(h, a, l, r) = g
  BY DEF Swap, k, el, er
<1> HIDE DEF g
<1>5. \A b \in DOMAIN h.live : b # a.data => Same(h, g, b)
  BY <1>2, <1>3 DEF Same
<1> QED BY <1>1, <1>2, <1>3, <1>4, <1>5

Swapped(l, r, i) == IF i = l THEN r ELSE IF i = r THEN l ELSE i
(* Two neighbouring fights that change places keep what they own. *)
LEMMA SortedIs ==
  ASSUME NEW h, NEW pc, NEW ft, NEW dt, WF(h, pc, ft, dt), NEW l \in 1..(ft.size - 1)
  PROVE  LET g == Swap(h, ft, l, l + 1)
         IN  /\ WF(g, pc, ft, dt)
             /\ KeptNames(h, g, pc) /\ KeptDeaths(h, g, dt)
             /\ \A i \in 1..ft.size : Swapped(l, l + 1, i) \in 1..ft.size
             /\ \A i \in 1..ft.size : Swapped(l, l + 1, Swapped(l, l + 1, i)) = i
             /\ \A i \in 1..ft.size : /\ Cell(g, ft, i) = Cell(h, ft, Swapped(l, l + 1, i))
                                      /\ KeptVerbs(h, g, Verbs(h, ft, i))
<1> DEFINE r == l + 1
           g == Swap(h, ft, l, r)
           sw(i) == Swapped(l, r, i)
           own == Own(h, pc, ft, dt)
           own2 == Own(g, pc, ft, dt)
<1>1. /\ HeapOK(h) /\ PcOK(h, pc) /\ pc.size \in Nat /\ FtOK(h, pc.size, ft) /\ ArrayOK(h, ft) /\ ft.size \in Nat
  BY DEF WF, PcOK, ArrayOK, FtOK
<1>2. l \in 1..ft.size /\ r \in 1..ft.size /\ l # r
  BY <1>1
<1>3. /\ \A i \in 1..ft.size : sw(i) \in 1..ft.size /\ sw(sw(i)) = i
      /\ sw(l) = r /\ sw(r) = l /\ \A i : i # l /\ i # r => sw(i) = i
  <2> HIDE DEF r
  <2> QED BY <1>2 DEF Swapped
<1> HIDE DEF r
<1>4. /\ HeapOK(g) /\ ArrayOK(g, ft) /\ DOMAIN g.live = DOMAIN h.live
      /\ \A b \in DOMAIN h.live : b # ft.data => Same(h, g, b)
      /\ Cell(g, ft, l) = Cell(h, ft, r) /\ Cell(g, ft, r) = Cell(h, ft, l)
      /\ \A i \in 1..ft.size : i # l /\ i # r => Cell(g, ft, i) = Cell(h, ft, i)
  BY <1>1, <1>2, SwapIs
<1> HIDE DEF g, sw
<1>5. \A i \in 1..ft.size : Cell(g, ft, i) = Cell(h, ft, sw(i))
  BY <1>3, <1>4
<1>6. /\ Once(own, DOMAIN h.live) /\ Null \notin DOMAIN h.live
      /\ DOMAIN own = Owners(h, pc, ft) /\ {OfPc, OfFight, OfDeath} \subseteq DOMAIN own
      /\ own[OfPc] = pc.data /\ own[OfFight] = ft.data /\ own[OfDeath] = dt.data
      /\ \A i \in 1..pc.size : OfString(i) \in DOMAIN own /\ own[OfString(i)] = Cell(h, pc, i).data
      /\ \A i \in 1..ft.size : OfByVerb(i) \in DOMAIN own /\ own[OfByVerb(i)] = Verbs(h, ft, i).data
      /\ \A i \in 1..ft.size : \A j \in 1..Verbs(h, ft, i).size :
           /\ OfVerb(i, j) \in DOMAIN own
           /\ own[OfVerb(i, j)] = Cell(h, Verbs(h, ft, i), j).m_verb.data
  BY OwnInOrder
<1>7. Untouched(h, g, own, {OfFight})
  <2>1. {OfFight} \subseteq DOMAIN own
    BY <1>6
  <2>2. \A b \in DOMAIN h.live : (\A o \in {OfFight} : b # own[o]) => Same(h, g, b)
    BY <1>4, <1>6
  <2> HIDE DEF own
  <2> QED BY <1>6, <2>1, <2>2, OthersUntouched
<1>8. /\ OfPc \notin {OfFight} /\ OfDeath \notin {OfFight}
      /\ (\A i : OfString(i) \notin {OfFight}) /\ (\A i : OfByVerb(i) \notin {OfFight})
      /\ \A i, j : OfVerb(i, j) \notin {OfFight}
  BY OwnersApart
<1>9. PcOK(g, pc) /\ KeptNames(h, g, pc)
  <2> HIDE DEF own
  <2> QED BY <1>7, <1>8, NamesUntouched DEF own
<1>10. DtOK(g, pc.size, dt) /\ KeptDeaths(h, g, dt)
  <2> HIDE DEF own
  <2> QED BY <1>1, <1>7, <1>8, DeathsUntouched DEF own
<1>11. \A i \in 1..ft.size : VerbsOK(g, Verbs(h, ft, i)) /\ KeptVerbs(h, g, Verbs(h, ft, i))
  <2> HIDE DEF own
  <2> QED BY <1>7, <1>8, VerbsUntouched DEF own
<1>12. \A i \in 1..ft.size : Verbs(g, ft, i) = Verbs(h, ft, sw(i))
  BY <1>5 DEF Verbs
<1>13. FtOK(g, pc.size, ft)
  <2>1. \A i \in 1..ft.size : FightOK(g, pc.size, Cell(g, ft, i))
    <3> TAKE i \in 1..ft.size
    <3>1. FightOK(h, pc.size, Cell(h, ft, sw(i))) /\ Cell(g, ft, i) = Cell(h, ft, sw(i))
      BY <1>1, <1>3, <1>5 DEF FtOK
    <3>2. VerbsOK(g, Cell(h, ft, sw(i)).m_byVerb)
      BY <1>3, <1>11 DEF Verbs
    <3> QED BY <3>1, <3>2 DEF FightOK
  <2>2. \A i, j \in 1..ft.size : SamePair(g, ft, i, j) => i = j
    <3> TAKE i, j \in 1..ft.size
    <3> HAVE SamePair(g, ft, i, j)
    <3>1. SamePair(h, ft, sw(i), sw(j))
      BY <1>5 DEF SamePair
    <3>2. sw(i) = sw(j)
      BY <3>1, <1>1, <1>3 DEF FtOK
    <3> QED BY <3>2, <1>3
  <2> QED BY <2>1, <2>2, <1>4 DEF FtOK
<1>14. Once(own2, DOMAIN g.live)
  <2>1. ArrayOK(g, pc) /\ \A i \in 1..ft.size : ArrayOK(g, Verbs(g, ft, i))
    BY <1>9, <1>13 DEF PcOK, FtOK, FightOK, VerbsOK, Verbs
  <2>2. /\ DOMAIN own2 = Owners(g, pc, ft)
        /\ own2[OfPc] = pc.data /\ own2[OfFight] = ft.data /\ own2[OfDeath] = dt.data
        /\ \A i \in 1..pc.size : own2[OfString(i)] = Cell(g, pc, i).data
        /\ \A i \in 1..ft.size : own2[OfByVerb(i)] = Verbs(g, ft, i).data
        /\ \A i \in 1..ft.size : \A j \in 1..Verbs(g, ft, i).size :
             own2[OfVerb(i, j)] = Cell(g, Verbs(g, ft, i), j).m_verb.data
    BY <2>1, <1>4, OwnIs
  <2> HIDE DEF own, own2
  <2>4. \A o : o \in DOMAIN own <=>
           \/ o \in {OfPc, OfFight, OfDeath}
           \/ \E i \in 1..pc.size : o = OfString(i)
           \/ \E i \in 1..ft.size : o = OfByVerb(i)
           \/ \E i \in 1..ft.size : \E j \in 1..Verbs(h, ft, i).size : o = OfVerb(i, j)
    BY <1>1, <1>6, OwnersAre
  <2>5. \A o : o \in DOMAIN own2 <=>
           \/ o \in {OfPc, OfFight, OfDeath}
           \/ \E i \in 1..pc.size : o = OfString(i)
           \/ \E i \in 1..ft.size : o = OfByVerb(i)
           \/ \E i \in 1..ft.size : \E j \in 1..Verbs(g, ft, i).size : o = OfVerb(i, j)
    BY <2>2, <1>4, OwnersAre
  <2> DEFINE F(o) == IF o[1] \in {"byVerb", "verb"} THEN <<o[1], sw(o[2]), o[3]>> ELSE o
             f == [o \in DOMAIN own2 |-> F(o)]
  <2>6. /\ F(OfPc) = OfPc /\ F(OfFight) = OfFight /\ F(OfDeath) = OfDeath
        /\ \A i : F(OfString(i)) = OfString(i)
        /\ \A i : F(OfByVerb(i)) = OfByVerb(sw(i))
        /\ \A i, j : F(OfVerb(i, j)) = OfVerb(sw(i), j)
    BY DEF OfPc, OfFight, OfDeath, OfString, OfByVerb, OfVerb
  <2> HIDE DEF F
  <2>7. \A o \in DOMAIN own2 : f[o] = F(o)
    OBVIOUS
  <2> HIDE DEF f
  <2>8. \A o \in DOMAIN own2 : f[o] \in DOMAIN own /\ own2[o] = own[f[o]]
    <3> TAKE o \in DOMAIN own2
    <3>1. CASE o \in {OfPc, OfFight, OfDeath}
      BY <3>1, <2>2, <2>6, <2>7, <1>6
    <3>2. CASE \E i \in 1..pc.size : o = OfString(i)
      BY <3>2, <2>2, <2>6, <2>7, <1>6, <1>9 DEF KeptNames
    <3>3. CASE \E i \in 1..ft.size : o = OfByVerb(i)
      <4>1. PICK i \in 1..ft.size : o = OfByVerb(i)
        BY <3>3
      <4>2. f[o] = OfByVerb(sw(i)) /\ sw(i) \in 1..ft.size
        BY <4>1, <2>6, <2>7, <1>3
      <4>3. own2[o] = Verbs(h, ft, sw(i)).data
        BY <4>1, <2>2, <1>12
      <4> QED BY <4>2, <4>3, <1>6
    <3>4. CASE \E i \in 1..ft.size : \E j \in 1..Verbs(g, ft, i).size : o = OfVerb(i, j)
      <4>1. PICK i \in 1..ft.size : \E j \in 1..Verbs(g, ft, i).size : o = OfVerb(i, j)
        BY <3>4
      <4>2. PICK j \in 1..Verbs(g, ft, i).size : o = OfVerb(i, j)
        BY <4>1
      <4>3. f[o] = OfVerb(sw(i), j) /\ sw(i) \in 1..ft.size /\ j \in 1..Verbs(h, ft, sw(i)).size
        BY <4>2, <2>6, <2>7, <1>3, <1>12
      <4>4. own2[o] = Cell(g, Verbs(h, ft, sw(i)), j).m_verb.data
        BY <4>2, <2>2, <1>12
      <4>5. Cell(g, Verbs(h, ft, sw(i)), j) = Cell(h, Verbs(h, ft, sw(i)), j)
        BY <4>3, <1>11 DEF KeptVerbs
      <4> QED BY <4>3, <4>4, <4>5, <1>6
    <3> QED BY <3>1, <3>2, <3>3, <3>4, <2>5
  <2>9. \A o \in DOMAIN own2 : F(F(o)) = o
    <3> TAKE o \in DOMAIN own2
    <3>1. CASE o \in {OfPc, OfFight, OfDeath}
      BY <3>1, <2>6
    <3>2. CASE \E i \in 1..pc.size : o = OfString(i)
      BY <3>2, <2>6
    <3>3. CASE \E i \in 1..ft.size : o = OfByVerb(i)
      BY <3>3, <2>6, <1>3
    <3>4. CASE \E i \in 1..ft.size : \E j \in 1..Verbs(g, ft, i).size : o = OfVerb(i, j)
      BY <3>4, <2>6, <1>3
    <3> QED BY <3>1, <3>2, <3>3, <3>4, <2>5
  <2>10. \A o, p \in DOMAIN own2 : f[o] = f[p] => o = p
    BY <2>7, <2>9
  <2>11. \A o \in DOMAIN own : \E p \in DOMAIN own2 : f[p] = o
    <3> SUFFICES ASSUME NEW o \in DOMAIN own
                 PROVE  F(o) \in DOMAIN own2 /\ F(F(o)) = o
      BY <2>7
    <3>1. CASE o \in {OfPc, OfFight, OfDeath}
      BY <3>1, <2>5, <2>6
    <3>2. CASE \E i \in 1..pc.size : o = OfString(i)
      BY <3>2, <2>5, <2>6
    <3>3. CASE \E i \in 1..ft.size : o = OfByVerb(i)
      <4>1. PICK i \in 1..ft.size : o = OfByVerb(i)
        BY <3>3
      <4>2. F(o) = OfByVerb(sw(i)) /\ sw(i) \in 1..ft.size
        BY <4>1, <2>6, <1>3
      <4> QED BY <4>1, <4>2, <2>5, <2>6, <1>3
    <3>4. CASE \E i \in 1..ft.size : \E j \in 1..Verbs(h, ft, i).size : o = OfVerb(i, j)
      <4>1. PICK i \in 1..ft.size : \E j \in 1..Verbs(h, ft, i).size : o = OfVerb(i, j)
        BY <3>4
      <4>2. PICK j \in 1..Verbs(h, ft, i).size : o = OfVerb(i, j)
        BY <4>1
      <4>3. F(o) = OfVerb(sw(i), j) /\ sw(i) \in 1..ft.size /\ sw(sw(i)) = i
        BY <4>2, <2>6, <1>3
      <4>4. j \in 1..Verbs(g, ft, sw(i)).size
        BY <4>3, <1>12
      <4>5. F(o) \in DOMAIN own2
        BY <4>3, <4>4, <2>5
      <4>6. F(F(o)) = o
        BY <4>2, <4>3, <2>6
      <4> QED BY <4>5, <4>6
    <3> QED BY <3>1, <3>2, <3>3, <3>4, <2>4
  <2>12. Once(own2, DOMAIN h.live)
    BY <2>8, <2>10, <2>11, <1>6, OncePermuted
  <2> QED BY <2>12, <1>4
<1>15. WF(g, pc, ft, dt)
  BY <1>4, <1>9, <1>10, <1>13, <1>14 DEF WF
<1> QED BY <1>3, <1>5, <1>9, <1>10, <1>11, <1>15 DEF g, r, sw

(* Induction over the subsets of 1..n, the greatest member last. *)
LEMMA SubsetsReached ==
  ASSUME NEW S, IsFiniteSet(S), NEW P \in SUBSET SUBSET S,
         \A T \in SUBSET S : (\A x \in T : T \ {x} \in P) => T \in P
  PROVE  P = SUBSET S
<1> DEFINE R == StrictSubsetOrdering(S)
           D == (SUBSET S) \ P
<1> SUFFICES ASSUME D # {} PROVE FALSE
  OBVIOUS
<1>1. IsWellFoundedOn(R, SUBSET S)
  <2>1. IsWellFoundedOn(R, FiniteSubsetsOf(S))
    BY FS_StrictSubsetOrderingWellFounded
  <2>2. FiniteSubsetsOf(S) = SUBSET S
    BY FS_FiniteSubsetsOfFinite
  <2> QED BY <2>1, <2>2
<1>2. \E T \in D : \A U \in D : <<U, T>> \notin R
  <2> HIDE DEF R
  <2> QED BY <1>1, WFMin
<1>3. PICK T \in D : \A U \in D : <<U, T>> \notin R
  BY <1>2
<1>4. ASSUME NEW x \in T
      PROVE  T \ {x} \in P
  <2>1. <<T \ {x}, T>> \in R
    BY DEF StrictSubsetOrdering
  <2>2. T \ {x} \notin D
    BY <1>3, <2>1, Zenon
  <2> QED BY <2>2
<1> QED BY <1>4
LEMMA MaxIs ==
  ASSUME NEW n \in Nat, NEW T \in SUBSET (1..n), T # {}
  PROVE  Max(T) \in T
<1> DEFINE U == {n + 1 - x : x \in T}
<1>1. U \in SUBSET (1..n) /\ U # {}
  <2>1. \A x \in T : n + 1 - x \in 1..n
    OBVIOUS
  <2>2. \E x \in T : TRUE
    OBVIOUS
  <2> QED BY <2>1, <2>2
<1>2. PICK u \in U : \A y \in U : u <= y
  <2> HIDE DEF U
  <2> QED BY <1>1, LeastPosition
<1>3. PICK x \in T : u = n + 1 - x
  BY <1>2
<1>4. \A y \in T : x >= y
  <2> TAKE y \in T
  <2>1. u <= n + 1 - y
    BY <1>2
  <2> QED BY <2>1, <1>3
<1> QED BY <1>3, <1>4 DEF Max

(* A fold over an array is known by what it makes of each beginning of it. *)
LEMMA StringFold ==
  ASSUME NEW n \in Nat, NEW s, DOMAIN s = 1..n, NEW f, f = [t \in SUBSET (1..n) |-> f[t]],
         \A t \in SUBSET (1..n) : t # {} => f[t] = StringDtor(f[t \ {Max(t)}], s[Max(t)])
  PROVE  FoldLeft(StringDtor, f[{}], s) = f[1..n]
<1> DEFINE base == f[{}]
           Solves(g) == g = [t \in SUBSET (1..n) |-> IF t = {} THEN base ELSE StringDtor(g[t \ {Max(t)}], s[Max(t)])]
<1>1. FoldLeft(StringDtor, base, s) = (CHOOSE g : Solves(g))[1..n]
  BY DEF FoldLeft, MapThenFoldSet
<1> HIDE DEF base
<1>2. Solves(f)
  <2>1. \A t \in SUBSET (1..n) : f[t] = IF t = {} THEN base ELSE StringDtor(f[t \ {Max(t)}], s[Max(t)])
    BY DEF base
  <2> QED BY <2>1
<1>3. ASSUME NEW g, Solves(g) PROVE g[1..n] = f[1..n]
  <2> DEFINE P == {t \in SUBSET (1..n) : g[t] = f[t]}
  <2>1. ASSUME NEW t \in SUBSET (1..n), \A x \in t : t \ {x} \in P PROVE t \in P
    <3>1. CASE t = {}
      BY <3>1, <1>3, <1>2
    <3>2. CASE t # {}
      <4>1. Max(t) \in t
        BY <3>2, MaxIs
      <4>2. g[t \ {Max(t)}] = f[t \ {Max(t)}]
        BY <4>1, <2>1
      <4>3. f[t] = StringDtor(f[t \ {Max(t)}], s[Max(t)])
        BY <3>2
      <4>4. \A u \in SUBSET (1..n) : g[u] = IF u = {} THEN base ELSE StringDtor(g[u \ {Max(u)}], s[Max(u)])
        <5> HIDE DEF P
        <5> QED BY <1>3
      <4>5. g[t] = StringDtor(g[t \ {Max(t)}], s[Max(t)])
        BY <3>2, <4>4
      <4>6. g[t] = f[t]
        BY <4>2, <4>3, <4>5
      <4> QED BY <4>6
    <3> QED BY <3>1, <3>2
  <2>2. P = SUBSET (1..n)
    <3> DEFINE S == 1..n
    <3>1. IsFiniteSet(S)
      <4>1. n \in Int /\ 1 \in Int
        OBVIOUS
      <4> QED BY ONLY <4>1, FS_Interval
    <3>2. P \in SUBSET SUBSET S
      OBVIOUS
    <3> HIDE DEF P, S
    <3>3. \A t \in SUBSET S : (\A x \in t : t \ {x} \in P) => t \in P
      BY <2>1 DEF S
    <3>4. P = SUBSET S
      BY ONLY <3>1, <3>2, <3>3, SubsetsReached
    <3> QED BY <3>4 DEF S
  <2> QED BY <2>2
<1> HIDE DEF Solves
<1>4. Solves(CHOOSE g : Solves(g))
  BY <1>2
<1> QED BY <1>1, <1>3, <1>4 DEF base

LEMMA VerbFold ==
  ASSUME NEW n \in Nat, NEW s, DOMAIN s = 1..n, NEW f, f = [t \in SUBSET (1..n) |-> f[t]],
         \A t \in SUBSET (1..n) : t # {} => f[t] = ByVerbDtor(f[t \ {Max(t)}], s[Max(t)])
  PROVE  FoldLeft(ByVerbDtor, f[{}], s) = f[1..n]
<1> DEFINE base == f[{}]
           Solves(g) == g = [t \in SUBSET (1..n) |-> IF t = {} THEN base ELSE ByVerbDtor(g[t \ {Max(t)}], s[Max(t)])]
<1>1. FoldLeft(ByVerbDtor, base, s) = (CHOOSE g : Solves(g))[1..n]
  BY DEF FoldLeft, MapThenFoldSet
<1> HIDE DEF base
<1>2. Solves(f)
  <2>1. \A t \in SUBSET (1..n) : f[t] = IF t = {} THEN base ELSE ByVerbDtor(f[t \ {Max(t)}], s[Max(t)])
    BY DEF base
  <2> QED BY <2>1
<1>3. ASSUME NEW g, Solves(g) PROVE g[1..n] = f[1..n]
  <2> DEFINE P == {t \in SUBSET (1..n) : g[t] = f[t]}
  <2>1. ASSUME NEW t \in SUBSET (1..n), \A x \in t : t \ {x} \in P PROVE t \in P
    <3>1. CASE t = {}
      BY <3>1, <1>3, <1>2
    <3>2. CASE t # {}
      <4>1. Max(t) \in t
        BY <3>2, MaxIs
      <4>2. g[t \ {Max(t)}] = f[t \ {Max(t)}]
        BY <4>1, <2>1
      <4>3. f[t] = ByVerbDtor(f[t \ {Max(t)}], s[Max(t)])
        BY <3>2
      <4>4. \A u \in SUBSET (1..n) : g[u] = IF u = {} THEN base ELSE ByVerbDtor(g[u \ {Max(u)}], s[Max(u)])
        <5> HIDE DEF P
        <5> QED BY <1>3
      <4>5. g[t] = ByVerbDtor(g[t \ {Max(t)}], s[Max(t)])
        BY <3>2, <4>4
      <4>6. g[t] = f[t]
        BY <4>2, <4>3, <4>5
      <4> QED BY <4>6
    <3> QED BY <3>1, <3>2
  <2>2. P = SUBSET (1..n)
    <3> DEFINE S == 1..n
    <3>1. IsFiniteSet(S)
      <4>1. n \in Int /\ 1 \in Int
        OBVIOUS
      <4> QED BY ONLY <4>1, FS_Interval
    <3>2. P \in SUBSET SUBSET S
      OBVIOUS
    <3> HIDE DEF P, S
    <3>3. \A t \in SUBSET S : (\A x \in t : t \ {x} \in P) => t \in P
      BY <2>1 DEF S
    <3>4. P = SUBSET S
      BY ONLY <3>1, <3>2, <3>3, SubsetsReached
    <3> QED BY <3>4 DEF S
  <2> QED BY <2>2
<1> HIDE DEF Solves
<1>4. Solves(CHOOSE g : Solves(g))
  BY <1>2
<1> QED BY <1>1, <1>3, <1>4 DEF base

LEMMA FightFold ==
  ASSUME NEW n \in Nat, NEW s, DOMAIN s = 1..n, NEW f, f = [t \in SUBSET (1..n) |-> f[t]],
         \A t \in SUBSET (1..n) : t # {} => f[t] = FightDtor(f[t \ {Max(t)}], s[Max(t)])
  PROVE  FoldLeft(FightDtor, f[{}], s) = f[1..n]
<1> DEFINE base == f[{}]
           Solves(g) == g = [t \in SUBSET (1..n) |-> IF t = {} THEN base ELSE FightDtor(g[t \ {Max(t)}], s[Max(t)])]
<1>1. FoldLeft(FightDtor, base, s) = (CHOOSE g : Solves(g))[1..n]
  BY DEF FoldLeft, MapThenFoldSet
<1> HIDE DEF base
<1>2. Solves(f)
  <2>1. \A t \in SUBSET (1..n) : f[t] = IF t = {} THEN base ELSE FightDtor(f[t \ {Max(t)}], s[Max(t)])
    BY DEF base
  <2> QED BY <2>1
<1>3. ASSUME NEW g, Solves(g) PROVE g[1..n] = f[1..n]
  <2> DEFINE P == {t \in SUBSET (1..n) : g[t] = f[t]}
  <2>1. ASSUME NEW t \in SUBSET (1..n), \A x \in t : t \ {x} \in P PROVE t \in P
    <3>1. CASE t = {}
      BY <3>1, <1>3, <1>2
    <3>2. CASE t # {}
      <4>1. Max(t) \in t
        BY <3>2, MaxIs
      <4>2. g[t \ {Max(t)}] = f[t \ {Max(t)}]
        BY <4>1, <2>1
      <4>3. f[t] = FightDtor(f[t \ {Max(t)}], s[Max(t)])
        BY <3>2
      <4>4. \A u \in SUBSET (1..n) : g[u] = IF u = {} THEN base ELSE FightDtor(g[u \ {Max(u)}], s[Max(u)])
        <5> HIDE DEF P
        <5> QED BY <1>3
      <4>5. g[t] = FightDtor(g[t \ {Max(t)}], s[Max(t)])
        BY <3>2, <4>4
      <4>6. g[t] = f[t]
        BY <4>2, <4>3, <4>5
      <4> QED BY <4>6
    <3> QED BY <3>1, <3>2
  <2>2. P = SUBSET (1..n)
    <3> DEFINE S == 1..n
    <3>1. IsFiniteSet(S)
      <4>1. n \in Int /\ 1 \in Int
        OBVIOUS
      <4> QED BY ONLY <4>1, FS_Interval
    <3>2. P \in SUBSET SUBSET S
      OBVIOUS
    <3> HIDE DEF P, S
    <3>3. \A t \in SUBSET S : (\A x \in t : t \ {x} \in P) => t \in P
      BY <2>1 DEF S
    <3>4. P = SUBSET S
      BY ONLY <3>1, <3>2, <3>3, SubsetsReached
    <3> QED BY <3>4 DEF S
  <2> QED BY <2>2
<1> HIDE DEF Solves
<1>4. Solves(CHOOSE g : Solves(g))
  BY <1>2
<1> QED BY <1>1, <1>3, <1>4 DEF base

LEMMA DeathFold ==
  ASSUME NEW n \in Nat, NEW s, DOMAIN s = 1..n, NEW f, f = [t \in SUBSET (1..n) |-> f[t]],
         \A t \in SUBSET (1..n) : t # {} => f[t] = NoDtor(f[t \ {Max(t)}], s[Max(t)])
  PROVE  FoldLeft(NoDtor, f[{}], s) = f[1..n]
<1> DEFINE base == f[{}]
           Solves(g) == g = [t \in SUBSET (1..n) |-> IF t = {} THEN base ELSE NoDtor(g[t \ {Max(t)}], s[Max(t)])]
<1>1. FoldLeft(NoDtor, base, s) = (CHOOSE g : Solves(g))[1..n]
  BY DEF FoldLeft, MapThenFoldSet
<1> HIDE DEF base
<1>2. Solves(f)
  <2>1. \A t \in SUBSET (1..n) : f[t] = IF t = {} THEN base ELSE NoDtor(f[t \ {Max(t)}], s[Max(t)])
    BY DEF base
  <2> QED BY <2>1
<1>3. ASSUME NEW g, Solves(g) PROVE g[1..n] = f[1..n]
  <2> DEFINE P == {t \in SUBSET (1..n) : g[t] = f[t]}
  <2>1. ASSUME NEW t \in SUBSET (1..n), \A x \in t : t \ {x} \in P PROVE t \in P
    <3>1. CASE t = {}
      BY <3>1, <1>3, <1>2
    <3>2. CASE t # {}
      <4>1. Max(t) \in t
        BY <3>2, MaxIs
      <4>2. g[t \ {Max(t)}] = f[t \ {Max(t)}]
        BY <4>1, <2>1
      <4>3. f[t] = NoDtor(f[t \ {Max(t)}], s[Max(t)])
        BY <3>2
      <4>4. \A u \in SUBSET (1..n) : g[u] = IF u = {} THEN base ELSE NoDtor(g[u \ {Max(u)}], s[Max(u)])
        <5> HIDE DEF P
        <5> QED BY <1>3
      <4>5. g[t] = NoDtor(g[t \ {Max(t)}], s[Max(t)])
        BY <3>2, <4>4
      <4>6. g[t] = f[t]
        BY <4>2, <4>3, <4>5
      <4> QED BY <4>6
    <3> QED BY <3>1, <3>2
  <2>2. P = SUBSET (1..n)
    <3> DEFINE S == 1..n
    <3>1. IsFiniteSet(S)
      <4>1. n \in Int /\ 1 \in Int
        OBVIOUS
      <4> QED BY ONLY <4>1, FS_Interval
    <3>2. P \in SUBSET SUBSET S
      OBVIOUS
    <3> HIDE DEF P, S
    <3>3. \A t \in SUBSET S : (\A x \in t : t \ {x} \in P) => t \in P
      BY <2>1 DEF S
    <3>4. P = SUBSET S
      BY ONLY <3>1, <3>2, <3>3, SubsetsReached
    <3> QED BY <3>4 DEF S
  <2> QED BY <2>2
<1> HIDE DEF Solves
<1>4. Solves(CHOOSE g : Solves(g))
  BY <1>2
<1> QED BY <1>1, <1>3, <1>4 DEF base

(* A heap without some of its blocks. *)
Without(h, B) == [live |-> [b \in DOMAIN h.live \ B |-> h.live[b]], next |-> h.next, fault |-> FALSE]

(* A heap without the blocks of B. *)
LEMMA WithoutIs ==
  ASSUME NEW h, NEW B
  PROVE  /\ DOMAIN Without(h, B).live = DOMAIN h.live \ B
         /\ \A b \in DOMAIN h.live \ B : Same(h, Without(h, B), b)
         /\ Without(h, B).next = h.next /\ Without(h, B).fault = FALSE
BY DEF Without, Same

LEMMA WithoutNone ==
  ASSUME NEW h, HeapOK(h), NEW B, B \intersect DOMAIN h.live = {}
  PROVE  Without(h, B) = h
<1> DEFINE was == h.live
           next == h.next
<1>1. h = [live |-> was, next |-> next, fault |-> FALSE] /\ was = [b \in DOMAIN was |-> was[b]]
  BY DEF HeapOK
<1>2. DOMAIN was \ B = DOMAIN was
  OBVIOUS
<1>3. Without(h, B) = [live |-> [b \in DOMAIN was \ B |-> was[b]], next |-> next, fault |-> FALSE]
  BY DEF Without
<1> HIDE DEF was, next
<1> QED BY <1>1, <1>2, <1>3

(* One block more is freed. *)
LEMMA FreeWithout ==
  ASSUME NEW h, HeapOK(h), NEW B, NEW a \in DOMAIN h.live, a \notin B
  PROVE  Free(Without(h, B), a) = Without(h, B \union {a})
<1> DEFINE k == Without(h, B)
           live == [b \in DOMAIN h.live \ (B \union {a}) |-> h.live[b]]
<1>1. a # Null
  BY DEF HeapOK, Null
<1>2. k = [live |-> k.live, next |-> h.next, fault |-> FALSE] /\ DOMAIN k.live = DOMAIN h.live \ B
      /\ \A b \in DOMAIN h.live \ B : k.live[b] = h.live[b]
  BY DEF Without
<1>3. Restrict(k.live, DOMAIN k.live \ {a}) = live
  <2>1. DOMAIN k.live \ {a} = DOMAIN h.live \ (B \union {a})
    BY <1>2
  <2> HIDE DEF k
  <2> QED BY <1>2, <2>1 DEF Restrict
<1>4. (k.fault \/ a \notin DOMAIN k.live) = FALSE
  BY <1>2
<1>5. Free(k, a) = [k EXCEPT !.live = Restrict(k.live, DOMAIN k.live \ {a}),
                             !.fault = k.fault \/ a \notin DOMAIN k.live]
  BY <1>1 DEF Free
<1>6. Without(h, B \union {a}) = [live |-> live, next |-> h.next, fault |-> FALSE]
  BY DEF Without
<1> HIDE DEF live
<1> DEFINE was == k.live
<1>7. k = [live |-> was, next |-> h.next, fault |-> FALSE]
  BY <1>2
<1>8. Free(k, a) = [k EXCEPT !.live = live, !.fault = FALSE]
  BY <1>3, <1>4, <1>5
<1> HIDE DEF k, was
<1>9. Free(k, a) = [live |-> live, next |-> h.next, fault |-> FALSE]
  BY <1>7, <1>8
<1> QED BY <1>6, <1>9 DEF k

(* Array_clear: what its elements own, then the array. *)
Cells(h, a) == [i \in 1..a.size |-> Cell(h, a, i)]
LEMMA KickedAll ==
  ASSUME NEW h, NEW a, ArrayOK(h, a)
  PROVE  Kicked(h, a, 0) = Cells(h, a)
<1>1. a.size \in Nat
  BY DEF ArrayOK
<1>2. Elements(h, a) = Cells(h, a)
  BY ElementsAre DEF Cells
<1>3. SubSeq(Cells(h, a), 1, a.size) = Cells(h, a)
  BY <1>1 DEF SubSeq, Cells
<1> QED BY <1>2, <1>3 DEF Kicked

LEMMA StringsCleared ==
  ASSUME NEW h, NEW a, ArrayOK(h, a)
  PROVE  Clear(h, a, StringDtor) = Result(Free(FoldLeft(StringDtor, h, Cells(h, a)), a.data), NoArray)
BY KickedAll DEF Clear, Resize, Freed
LEMMA VerbsCleared ==
  ASSUME NEW h, NEW a, ArrayOK(h, a)
  PROVE  Clear(h, a, ByVerbDtor) = Result(Free(FoldLeft(ByVerbDtor, h, Cells(h, a)), a.data), NoArray)
BY KickedAll DEF Clear, Resize, Freed
LEMMA FightsCleared ==
  ASSUME NEW h, NEW a, ArrayOK(h, a)
  PROVE  Clear(h, a, FightDtor) = Result(Free(FoldLeft(FightDtor, h, Cells(h, a)), a.data), NoArray)
BY KickedAll DEF Clear, Resize, Freed
LEMMA DeathsCleared ==
  ASSUME NEW h, NEW a, ArrayOK(h, a)
  PROVE  Clear(h, a, NoDtor) = Result(Free(FoldLeft(NoDtor, h, Cells(h, a)), a.data), NoArray)
BY KickedAll DEF Clear, Resize, Freed

LEMMA FreeArray ==
  ASSUME NEW h, HeapOK(h), NEW B, NEW a, ArrayOK(h, a), a.data \notin B
  PROVE  Free(Without(h, B), a.data) = Without(h, B \union ({a.data} \ {Null}))
<1>1. CASE a.data = Null
  <2>1. B \union ({a.data} \ {Null}) = B
    BY <1>1
  <2> QED BY <1>1, <2>1 DEF Free
<1>2. CASE a.data # Null
  <2>1. a.data \in DOMAIN h.live
    BY <1>2 DEF ArrayOK
  <2>2. {a.data} \ {Null} = {a.data}
    BY <1>2
  <2> QED BY <2>1, <2>2, FreeWithout
<1> QED BY <1>1, <1>2

(* The Strings of an array and the array. *)
StringBlocks(h, a) == {Cell(h, a, i).data : i \in 1..a.size} \union ({a.data} \ {Null})
VerbBlocks(h, v)   == {Cell(h, v, j).m_verb.data : j \in 1..v.size} \union ({v.data} \ {Null})

(* Array_clear frees each name, and the array of them. *)
LEMMA ClearStrings ==
  ASSUME NEW h, HeapOK(h), NEW B, NEW a, ArrayOK(h, a), StringBlocks(h, a) \intersect B = {}, a.data \notin B,
         \A i \in 1..a.size : Cell(h, a, i).data \in DOMAIN h.live /\ Cell(h, a, i).data # a.data,
         \A i, j \in 1..a.size : Cell(h, a, i).data = Cell(h, a, j).data => i = j
  PROVE  Clear(Without(h, B), a, StringDtor) = Result(Without(h, B \union StringBlocks(h, a)), NoArray)
<1> DEFINE k == Without(h, B)
           n == a.size
           addr(i) == Cell(h, a, i).data
           Gone(t) == B \union {addr(i) : i \in t}
           f == [t \in SUBSET (1..n) |-> Without(h, Gone(t))]
           s == Cells(k, a)
<1>1. n \in Nat
  BY DEF ArrayOK
<1>2. a.data # Null => Same(h, k, a.data)
  <2>1. a.data # Null => a.data \in DOMAIN h.live \ B
    BY DEF ArrayOK
  <2> QED BY <2>1, WithoutIs
<1>3. ArrayOK(k, a) /\ \A i \in 1..n : Cell(k, a, i) = Cell(h, a, i)
  BY <1>2, ArrayKept
<1>4. DOMAIN s = 1..n /\ \A i \in 1..n : s[i].data = addr(i)
  BY <1>3 DEF Cells
<1>5. \A i \in 1..n : addr(i) \in DOMAIN h.live /\ addr(i) \notin B /\ addr(i) # a.data
  BY DEF StringBlocks
<1>6. \A i, j \in 1..n : addr(i) = addr(j) => i = j
  OBVIOUS
<1> HIDE DEF k, s, addr
<1>7. ASSUME NEW t \in SUBSET (1..n), t # {}
      PROVE  f[t] = StringDtor(f[t \ {Max(t)}], s[Max(t)])
  <2> DEFINE m == Max(t)
             u == t \ {m}
  <2>1. m \in t
    BY <1>1, <1>7, MaxIs
  <2> HIDE DEF m
  <2>2. addr(m) \in DOMAIN h.live /\ addr(m) \notin Gone(u)
    BY <2>1, <1>5, <1>6
  <2>3. Free(Without(h, Gone(u)), addr(m)) = Without(h, Gone(u) \union {addr(m)})
    <3> HIDE DEF Gone
    <3> QED BY <2>2, FreeWithout
  <2>4. Gone(u) \union {addr(m)} = Gone(t)
    BY <2>1
  <2>5. s[m].data = addr(m)
    BY <2>1, <1>4
  <2>6. f[u] = Without(h, Gone(u)) /\ f[t] = Without(h, Gone(t))
    OBVIOUS
  <2>7. StringDtor(f[u], s[m]) = Free(f[u], s[m].data)
    BY DEF StringDtor, ByVerbDtor
  <2> HIDE DEF f, Gone, u
  <2>8. StringDtor(f[u], s[m]) = f[t]
    BY <2>3, <2>4, <2>5, <2>6, <2>7
  <2> QED BY <2>8 DEF u, m
<1>8. FoldLeft(StringDtor, f[{}], s) = f[1..n]
  <2>1. f = [t \in SUBSET (1..n) |-> f[t]]
    OBVIOUS
  <2> HIDE DEF f
  <2> QED BY <1>1, <1>4, <1>7, <2>1, StringFold
<1>9. f[{}] = k
  <2>1. Gone({}) = B
    OBVIOUS
  <2>2. f[{}] = Without(h, Gone({}))
    OBVIOUS
  <2> QED BY <2>1, <2>2 DEF k
<1>10. f[1..n] = Without(h, Gone(1..n))
  OBVIOUS
<1> HIDE DEF f
<1>11. a.data \notin Gone(1..n)
  BY <1>5
<1>12. Free(Without(h, Gone(1..n)), a.data) = Without(h, Gone(1..n) \union ({a.data} \ {Null}))
  <2> HIDE DEF Gone
  <2> QED BY <1>11, FreeArray
<1>13. Gone(1..n) \union ({a.data} \ {Null}) = B \union StringBlocks(h, a)
  BY DEF StringBlocks, addr
<1>14. Clear(k, a, StringDtor) = Result(Free(FoldLeft(StringDtor, k, s), a.data), NoArray)
  BY <1>3, StringsCleared DEF s
<1> HIDE DEF Gone
<1>15. Clear(k, a, StringDtor) = Result(Without(h, B \union StringBlocks(h, a)), NoArray)
  BY <1>8, <1>9, <1>10, <1>12, <1>13, <1>14
<1> QED BY <1>15 DEF k

(* Array_clear of a fight frees each verb, and the array of them. *)
LEMMA ClearVerbs ==
  ASSUME NEW h, HeapOK(h), NEW B, NEW a, ArrayOK(h, a), VerbBlocks(h, a) \intersect B = {}, a.data \notin B,
         \A i \in 1..a.size : Cell(h, a, i).m_verb.data \in DOMAIN h.live /\ Cell(h, a, i).m_verb.data # a.data,
         \A i, j \in 1..a.size : Cell(h, a, i).m_verb.data = Cell(h, a, j).m_verb.data => i = j
  PROVE  Clear(Without(h, B), a, ByVerbDtor) = Result(Without(h, B \union VerbBlocks(h, a)), NoArray)
<1> DEFINE k == Without(h, B)
           n == a.size
           addr(i) == Cell(h, a, i).m_verb.data
           Gone(t) == B \union {addr(i) : i \in t}
           f == [t \in SUBSET (1..n) |-> Without(h, Gone(t))]
           s == Cells(k, a)
<1>1. n \in Nat
  BY DEF ArrayOK
<1>2. a.data # Null => Same(h, k, a.data)
  <2>1. a.data # Null => a.data \in DOMAIN h.live \ B
    BY DEF ArrayOK
  <2> QED BY <2>1, WithoutIs
<1>3. ArrayOK(k, a) /\ \A i \in 1..n : Cell(k, a, i) = Cell(h, a, i)
  BY <1>2, ArrayKept
<1>4. DOMAIN s = 1..n /\ \A i \in 1..n : s[i].m_verb.data = addr(i)
  BY <1>3 DEF Cells
<1>5. \A i \in 1..n : addr(i) \in DOMAIN h.live /\ addr(i) \notin B /\ addr(i) # a.data
  BY DEF VerbBlocks
<1>6. \A i, j \in 1..n : addr(i) = addr(j) => i = j
  OBVIOUS
<1> HIDE DEF k, s, addr
<1>7. ASSUME NEW t \in SUBSET (1..n), t # {}
      PROVE  f[t] = ByVerbDtor(f[t \ {Max(t)}], s[Max(t)])
  <2> DEFINE m == Max(t)
             u == t \ {m}
  <2>1. m \in t
    BY <1>1, <1>7, MaxIs
  <2> HIDE DEF m
  <2>2. addr(m) \in DOMAIN h.live /\ addr(m) \notin Gone(u)
    BY <2>1, <1>5, <1>6
  <2>3. Free(Without(h, Gone(u)), addr(m)) = Without(h, Gone(u) \union {addr(m)})
    <3> HIDE DEF Gone
    <3> QED BY <2>2, FreeWithout
  <2>4. Gone(u) \union {addr(m)} = Gone(t)
    BY <2>1
  <2>5. s[m].m_verb.data = addr(m)
    BY <2>1, <1>4
  <2>6. f[u] = Without(h, Gone(u)) /\ f[t] = Without(h, Gone(t))
    OBVIOUS
  <2>7. ByVerbDtor(f[u], s[m]) = Free(f[u], s[m].m_verb.data)
    BY DEF StringDtor, ByVerbDtor
  <2> HIDE DEF f, Gone, u
  <2>8. ByVerbDtor(f[u], s[m]) = f[t]
    BY <2>3, <2>4, <2>5, <2>6, <2>7
  <2> QED BY <2>8 DEF u, m
<1>8. FoldLeft(ByVerbDtor, f[{}], s) = f[1..n]
  <2>1. f = [t \in SUBSET (1..n) |-> f[t]]
    OBVIOUS
  <2> HIDE DEF f
  <2> QED BY <1>1, <1>4, <1>7, <2>1, VerbFold
<1>9. f[{}] = k
  <2>1. Gone({}) = B
    OBVIOUS
  <2>2. f[{}] = Without(h, Gone({}))
    OBVIOUS
  <2> QED BY <2>1, <2>2 DEF k
<1>10. f[1..n] = Without(h, Gone(1..n))
  OBVIOUS
<1> HIDE DEF f
<1>11. a.data \notin Gone(1..n)
  BY <1>5
<1>12. Free(Without(h, Gone(1..n)), a.data) = Without(h, Gone(1..n) \union ({a.data} \ {Null}))
  <2> HIDE DEF Gone
  <2> QED BY <1>11, FreeArray
<1>13. Gone(1..n) \union ({a.data} \ {Null}) = B \union VerbBlocks(h, a)
  BY DEF VerbBlocks, addr
<1>14. Clear(k, a, ByVerbDtor) = Result(Free(FoldLeft(ByVerbDtor, k, s), a.data), NoArray)
  BY <1>3, VerbsCleared DEF s
<1> HIDE DEF Gone
<1>15. Clear(k, a, ByVerbDtor) = Result(Without(h, B \union VerbBlocks(h, a)), NoArray)
  BY <1>8, <1>9, <1>10, <1>12, <1>13, <1>14
<1> QED BY <1>15 DEF k

FightBlocks(h, ft) == (UNION {VerbBlocks(h, Verbs(h, ft, i)) : i \in 1..ft.size}) \union ({ft.data} \ {Null})

(* The verbs of each fight are freed with it. *)
LEMMA ClearFights ==
  ASSUME NEW h, HeapOK(h), NEW B, NEW a, ArrayOK(h, a), FightBlocks(h, a) \intersect B = {}, a.data \notin B,
         \A i \in 1..a.size : VerbsOK(h, Verbs(h, a, i)),
         \A i \in 1..a.size : a.data \notin VerbBlocks(h, Verbs(h, a, i)),
         \A i \in 1..a.size : Verbs(h, a, i).data \notin B,
         \A i, j \in 1..a.size : i # j =>
           /\ VerbBlocks(h, Verbs(h, a, i)) \intersect VerbBlocks(h, Verbs(h, a, j)) = {},
         \A i \in 1..a.size : \A j, k \in 1..Verbs(h, a, i).size :
           /\ Cell(h, Verbs(h, a, i), j).m_verb.data # Verbs(h, a, i).data
           /\ Cell(h, Verbs(h, a, i), j).m_verb.data = Cell(h, Verbs(h, a, i), k).m_verb.data => j = k,
         Null \notin B
  PROVE  Clear(Without(h, B), a, FightDtor) = Result(Without(h, B \union FightBlocks(h, a)), NoArray)
<1> DEFINE k == Without(h, B)
           n == a.size
           own(i) == VerbBlocks(h, Verbs(h, a, i))
           Gone(t) == B \union UNION {own(i) : i \in t}
           f == [t \in SUBSET (1..n) |-> Without(h, Gone(t))]
           s == Cells(k, a)
<1>1. n \in Nat
  BY DEF ArrayOK
<1>2. a.data # Null => Same(h, k, a.data)
  <2>1. a.data # Null => a.data \in DOMAIN h.live \ B
    BY DEF ArrayOK
  <2> QED BY <2>1, WithoutIs
<1>3. ArrayOK(k, a) /\ \A i \in 1..n : Cell(k, a, i) = Cell(h, a, i)
  BY <1>2, ArrayKept
<1>4. DOMAIN s = 1..n /\ \A i \in 1..n : s[i].m_byVerb = Verbs(h, a, i)
  BY <1>3 DEF Cells, Verbs
<1>5. \A i \in 1..n : own(i) \intersect B = {} /\ a.data \notin own(i)
  BY DEF FightBlocks
<1>6. \A i, j \in 1..n : i # j => own(i) \intersect own(j) = {}
  OBVIOUS
<1>7. \A i \in 1..n : \A C : (own(i) \intersect C = {} /\ Null \notin C) =>
         Clear(Without(h, C), Verbs(h, a, i), ByVerbDtor) = Result(Without(h, C \union own(i)), NoArray)
  <2> TAKE i \in 1..n
  <2> TAKE C
  <2> HAVE own(i) \intersect C = {} /\ Null \notin C
  <2> DEFINE v == Verbs(h, a, i)
  <2>1. VerbsOK(h, v) /\ ArrayOK(h, v)
    BY DEF VerbsOK
  <2>2. \A j \in 1..v.size : Cell(h, v, j).m_verb.data \in DOMAIN h.live /\ Cell(h, v, j).m_verb.data # v.data
    BY <2>1 DEF VerbsOK, VerbOK
  <2>3. \A j, l \in 1..v.size : Cell(h, v, j).m_verb.data = Cell(h, v, l).m_verb.data => j = l
    OBVIOUS
  <2>4. v.data \notin C
    BY DEF VerbBlocks
  <2>5. VerbBlocks(h, v) \intersect C = {}
    OBVIOUS
  <2> HIDE DEF v
  <2>6. Clear(Without(h, C), v, ByVerbDtor) = Result(Without(h, C \union VerbBlocks(h, v)), NoArray)
    BY <2>1, <2>2, <2>3, <2>4, <2>5, ClearVerbs
  <2> QED BY <2>6 DEF v
<1>71. \A i \in 1..n : Null \notin own(i)
  <2> TAKE i \in 1..n
  <2>1. Null \notin DOMAIN h.live
    BY DEF HeapOK, Null
  <2>2. \A j \in 1..Verbs(h, a, i).size : Cell(h, Verbs(h, a, i), j).m_verb.data \in DOMAIN h.live
    BY DEF VerbsOK, VerbOK
  <2> QED BY <2>1, <2>2 DEF VerbBlocks
<1> HIDE DEF k, s, own
<1>8. ASSUME NEW t \in SUBSET (1..n), t # {}
      PROVE  f[t] = FightDtor(f[t \ {Max(t)}], s[Max(t)])
  <2> DEFINE m == Max(t)
             u == t \ {m}
  <2>1. m \in t
    BY <1>1, <1>8, MaxIs
  <2> HIDE DEF m
  <2>2. own(m) \intersect Gone(u) = {} /\ Null \notin Gone(u)
    BY <2>1, <1>5, <1>6, <1>71
  <2>3. Clear(Without(h, Gone(u)), Verbs(h, a, m), ByVerbDtor) = Result(Without(h, Gone(u) \union own(m)), NoArray)
    <3> HIDE DEF Gone
    <3> QED BY <2>1, <2>2, <1>7
  <2>4. Gone(u) \union own(m) = Gone(t)
    BY <2>1
  <2>5. s[m].m_byVerb = Verbs(h, a, m)
    BY <2>1, <1>4
  <2>6. f[u] = Without(h, Gone(u)) /\ f[t] = Without(h, Gone(t))
    OBVIOUS
  <2>7. FightDtor(f[u], s[m]) = Clear(f[u], s[m].m_byVerb, ByVerbDtor).heap
    BY DEF FightDtor
  <2> HIDE DEF f, Gone, u
  <2>70. Clear(Without(h, Gone(u)), Verbs(h, a, m), ByVerbDtor).heap = Without(h, Gone(u) \union own(m))
    BY ONLY <2>3 DEF Result
  <2>8. FightDtor(f[u], s[m]) = f[t]
    BY <2>70, <2>4, <2>5, <2>6, <2>7
  <2> QED BY <2>8 DEF u, m
<1>9. FoldLeft(FightDtor, f[{}], s) = f[1..n]
  <2>1. f = [t \in SUBSET (1..n) |-> f[t]]
    OBVIOUS
  <2> HIDE DEF f
  <2> QED BY <1>1, <1>4, <1>8, <2>1, FightFold
<1>10. f[{}] = k
  <2>1. Gone({}) = B
    OBVIOUS
  <2>2. f[{}] = Without(h, Gone({}))
    OBVIOUS
  <2> QED BY <2>1, <2>2 DEF k
<1>11. f[1..n] = Without(h, Gone(1..n))
  OBVIOUS
<1> HIDE DEF f
<1>12. a.data \notin Gone(1..n)
  BY <1>5
<1>13. Free(Without(h, Gone(1..n)), a.data) = Without(h, Gone(1..n) \union ({a.data} \ {Null}))
  <2> HIDE DEF Gone
  <2> QED BY <1>12, FreeArray
<1>14. Gone(1..n) \union ({a.data} \ {Null}) = B \union FightBlocks(h, a)
  <2>1. FightBlocks(h, a) = (UNION {own(i) : i \in 1..n}) \union ({a.data} \ {Null})
    BY DEF FightBlocks, own
  <2> QED BY <2>1
<1>15. Clear(k, a, FightDtor) = Result(Free(FoldLeft(FightDtor, k, s), a.data), NoArray)
  BY <1>3, FightsCleared DEF s
<1> HIDE DEF Gone
<1>16. Clear(k, a, FightDtor) = Result(Without(h, B \union FightBlocks(h, a)), NoArray)
  BY <1>9, <1>10, <1>11, <1>13, <1>14, <1>15
<1> QED BY <1>16 DEF k

(* Deaths own nothing, so Array_clear frees their array only. *)
LEMMA ClearDeaths ==
  ASSUME NEW h, HeapOK(h), NEW B, NEW a, ArrayOK(h, a), a.data \notin B
  PROVE  Clear(Without(h, B), a, NoDtor) = Result(Without(h, B \union ({a.data} \ {Null})), NoArray)
<1> DEFINE k == Without(h, B)
           n == a.size
           f == [t \in SUBSET (1..n) |-> k]
           s == Cells(k, a)
<1>1. n \in Nat
  BY DEF ArrayOK
<1>2. a.data # Null => Same(h, k, a.data)
  <2>1. a.data # Null => a.data \in DOMAIN h.live \ B
    BY DEF ArrayOK
  <2> QED BY <2>1, WithoutIs
<1>3. ArrayOK(k, a)
  BY <1>2, ArrayKept
<1>4. DOMAIN s = 1..n
  BY DEF Cells
<1> HIDE DEF k, s
<1>5. FoldLeft(NoDtor, f[{}], s) = f[1..n]
  <2>1. f = [t \in SUBSET (1..n) |-> f[t]]
    OBVIOUS
  <2>2. \A t \in SUBSET (1..n) : t # {} => f[t] = NoDtor(f[t \ {Max(t)}], s[Max(t)])
    <3> TAKE t \in SUBSET (1..n)
    <3>1. t \ {Max(t)} \in SUBSET (1..n)
      OBVIOUS
    <3> QED BY <3>1 DEF NoDtor
  <2> HIDE DEF f
  <2> QED BY <1>1, <1>4, <2>1, <2>2, DeathFold
<1>6. f[{}] = k /\ f[1..n] = k
  OBVIOUS
<1>7. Clear(k, a, NoDtor) = Result(Free(FoldLeft(NoDtor, k, s), a.data), NoArray)
  BY <1>3, DeathsCleared DEF s
<1> HIDE DEF f
<1>8. Free(k, a.data) = Without(h, B \union ({a.data} \ {Null}))
  BY FreeArray DEF k
<1> QED BY <1>5, <1>6, <1>7, <1>8 DEF k

(* A battle without arrays is in order when nothing is in use. *)
LEMMA NothingOwned ==
  ASSUME NEW h, HeapOK(h), DOMAIN h.live = {}
  PROVE  WF(h, NoArray, NoArray, NoArray)
<1> DEFINE own == Own(h, NoArray, NoArray, NoArray)
<1>1. ArrayOK(h, NoArray) /\ NoArray.size = 0 /\ NoArray.data = Null
  BY DEF ArrayOK, NoArray, Null
<1>2. \A i : i \notin 1..NoArray.size
  BY <1>1
<1>3. PcOK(h, NoArray) /\ FtOK(h, NoArray.size, NoArray) /\ DtOK(h, NoArray.size, NoArray)
  BY <1>1, <1>2 DEF PcOK, FtOK, DtOK
<1>4. /\ DOMAIN own = Owners(h, NoArray, NoArray)
      /\ own[OfPc] = Null /\ own[OfFight] = Null /\ own[OfDeath] = Null
  BY <1>1, <1>2, OwnIs
<1>5. \A o : o \in DOMAIN own <=> o \in {OfPc, OfFight, OfDeath}
  <2> HIDE DEF own
  <2>1. \A o : o \in DOMAIN own <=>
           \/ o \in {OfPc, OfFight, OfDeath}
           \/ \E i \in 1..NoArray.size : o = OfString(i)
           \/ \E i \in 1..NoArray.size : o = OfByVerb(i)
           \/ \E i \in 1..NoArray.size : \E j \in 1..Verbs(h, NoArray, i).size : o = OfVerb(i, j)
    BY <1>1, <1>4, OwnersAre
  <2> QED BY <1>2, <2>1
<1> HIDE DEF own
<1>6. Once(own, DOMAIN h.live)
  BY <1>4, <1>5 DEF Once
<1> QED BY <1>3, <1>6 DEF WF, own

(* Battle_reset frees everything, and nothing twice. *)
LEMMA ResetIs ==
  ASSUME NEW h, NEW pc, NEW ft, NEW dt, WF(h, pc, ft, dt)
  PROVE  LET p == Clear(h, pc, StringDtor)
             f == Clear(p.heap, ft, FightDtor)
             d == Clear(f.heap, dt, NoDtor)
         IN  /\ WF(d.heap, p.array, f.array, d.array)
             /\ p.array = NoArray /\ f.array = NoArray /\ d.array = NoArray
<1> DEFINE own == Own(h, pc, ft, dt)
           S == StringBlocks(h, pc)
           F == FightBlocks(h, ft)
           D == {dt.data} \ {Null}
           p == Clear(h, pc, StringDtor)
           f == Clear(p.heap, ft, FightDtor)
           d == Clear(f.heap, dt, NoDtor)
<1>1. /\ HeapOK(h) /\ PcOK(h, pc) /\ ArrayOK(h, pc) /\ FtOK(h, pc.size, ft) /\ ArrayOK(h, ft) /\ ArrayOK(h, dt)
  BY DEF WF, PcOK, FtOK, DtOK
<1>2. \A i \in 1..ft.size : VerbsOK(h, Verbs(h, ft, i))
  BY <1>1 DEF FtOK, FightOK, Verbs
<1>3. /\ Once(own, DOMAIN h.live) /\ Null \notin DOMAIN h.live
      /\ DOMAIN own = Owners(h, pc, ft) /\ {OfPc, OfFight, OfDeath} \subseteq DOMAIN own
      /\ own[OfPc] = pc.data /\ own[OfFight] = ft.data /\ own[OfDeath] = dt.data
      /\ \A i \in 1..pc.size : OfString(i) \in DOMAIN own /\ own[OfString(i)] = Cell(h, pc, i).data
      /\ \A i \in 1..ft.size : OfByVerb(i) \in DOMAIN own /\ own[OfByVerb(i)] = Verbs(h, ft, i).data
      /\ \A i \in 1..ft.size : \A j \in 1..Verbs(h, ft, i).size :
           /\ OfVerb(i, j) \in DOMAIN own
           /\ own[OfVerb(i, j)] = Cell(h, Verbs(h, ft, i), j).m_verb.data
  BY OwnInOrder
<1>4. \A i \in 1..pc.size : Cell(h, pc, i).data \in DOMAIN h.live
  BY <1>1 DEF PcOK
<1>5. \A i \in 1..ft.size : \A j \in 1..Verbs(h, ft, i).size : Cell(h, Verbs(h, ft, i), j).m_verb.data \in DOMAIN h.live
  BY <1>2 DEF VerbsOK, VerbOK
<1>6. \A o, q \in DOMAIN own : own[o] = own[q] /\ own[o] # Null => o = q
  BY <1>3 DEF Once
<1> HIDE DEF own
(* Whose a block is. *)
<1>7. \A b : b \in S => b # Null /\ \E o \in DOMAIN own : own[o] = b /\ (o = OfPc \/ \E i : o = OfString(i))
  <2> TAKE b
  <2> HAVE b \in S
  <2>1. CASE b = pc.data /\ b # Null
    BY <2>1, <1>3
  <2>2. CASE \E i \in 1..pc.size : b = Cell(h, pc, i).data
    BY <2>2, <1>3, <1>4
  <2> QED BY <2>1, <2>2 DEF StringBlocks
<1>8. \A i \in 1..ft.size : \A b : b \in VerbBlocks(h, Verbs(h, ft, i)) =>
         b # Null /\ \E o \in DOMAIN own : own[o] = b /\ (o = OfByVerb(i) \/ \E j : o = OfVerb(i, j))
  <2> TAKE i \in 1..ft.size
  <2> TAKE b
  <2> HAVE b \in VerbBlocks(h, Verbs(h, ft, i))
  <2>1. CASE b = Verbs(h, ft, i).data /\ b # Null
    BY <2>1, <1>3
  <2>2. CASE \E j \in 1..Verbs(h, ft, i).size : b = Cell(h, Verbs(h, ft, i), j).m_verb.data
    BY <2>2, <1>3, <1>5
  <2> QED BY <2>1, <2>2 DEF VerbBlocks
<1>9. \A b : b \in F => b # Null /\ \E o \in DOMAIN own : own[o] = b
                          /\ (o = OfFight \/ (\E i : o = OfByVerb(i)) \/ \E i, j : o = OfVerb(i, j))
  <2> TAKE b
  <2> HAVE b \in F
  <2>1. CASE b = ft.data /\ b # Null
    BY <2>1, <1>3
  <2>2. CASE \E i \in 1..ft.size : b \in VerbBlocks(h, Verbs(h, ft, i))
    <3>1. PICK i \in 1..ft.size : b \in VerbBlocks(h, Verbs(h, ft, i))
      BY <2>2
    <3>2. b # Null /\ \E o \in DOMAIN own : own[o] = b /\ (o = OfByVerb(i) \/ \E j : o = OfVerb(i, j))
      BY <3>1, <1>8
    <3> QED BY <3>2
  <2> QED BY <2>1, <2>2 DEF FightBlocks
(* The names. *)
<1>10. p = Result(Without(h, S), NoArray)
  <2>1. h = Without(h, {})
    BY <1>1, WithoutNone
  <2>2. \A i \in 1..pc.size : Cell(h, pc, i).data # pc.data
    BY <1>3, <1>4, <1>6, OwnersApart
  <2>3. \A i, j \in 1..pc.size : Cell(h, pc, i).data = Cell(h, pc, j).data => i = j
    BY <1>3, <1>4, <1>6, OwnersApart
  <2>4. S \intersect {} = {} /\ pc.data \notin {} /\ {} \union S = S
    OBVIOUS
  <2>5. Clear(Without(h, {}), pc, StringDtor) = Result(Without(h, {} \union S), NoArray)
    BY <1>1, <1>4, <2>2, <2>3, <2>4, ClearStrings
  <2> QED BY <2>1, <2>4, <2>5
(* The fights. *)
<1>11. S \intersect F = {}
  <2> SUFFICES ASSUME NEW b, b \in S, b \in F PROVE FALSE
    OBVIOUS
  <2>1. PICK o \in DOMAIN own : own[o] = b /\ b # Null /\ (o = OfPc \/ \E i : o = OfString(i))
    BY <1>7
  <2>2. PICK q \in DOMAIN own : own[q] = b /\ (q = OfFight \/ (\E i : q = OfByVerb(i)) \/ \E i, j : q = OfVerb(i, j))
    BY <1>9
  <2>3. o = q
    BY <2>1, <2>2, <1>6
  <2> QED BY <2>1, <2>2, <2>3, OwnersApart
<1>12. f = Result(Without(h, S \union F), NoArray)
  <2>1. ft.data \notin S
    BY <1>3, <1>6, <1>7, OwnersApart
  <2>2. \A i \in 1..ft.size : ft.data \notin VerbBlocks(h, Verbs(h, ft, i))
    <3> TAKE i \in 1..ft.size
    <3> SUFFICES ASSUME ft.data \in VerbBlocks(h, Verbs(h, ft, i)) PROVE FALSE
      OBVIOUS
    <3>1. PICK o \in DOMAIN own : ft.data # Null /\ own[o] = ft.data /\ (o = OfByVerb(i) \/ \E j : o = OfVerb(i, j))
      BY <1>8
    <3>2. o = OfFight
      BY <3>1, <1>3, <1>6
    <3> QED BY <3>1, <3>2, OwnersApart
  <2>3. \A i \in 1..ft.size : Verbs(h, ft, i).data \notin S
    <3> TAKE i \in 1..ft.size
    <3> SUFFICES ASSUME Verbs(h, ft, i).data \in S PROVE FALSE
      OBVIOUS
    <3>1. PICK o \in DOMAIN own : Verbs(h, ft, i).data # Null /\ own[o] = Verbs(h, ft, i).data /\ (o = OfPc \/ \E j : o = OfString(j))
      BY <1>7
    <3>2. o = OfByVerb(i)
      BY <3>1, <1>3, <1>6
    <3> QED BY <3>1, <3>2, OwnersApart
  <2>4. \A i, j \in 1..ft.size : i # j =>
          VerbBlocks(h, Verbs(h, ft, i)) \intersect VerbBlocks(h, Verbs(h, ft, j)) = {}
    <3> TAKE i, j \in 1..ft.size
    <3> HAVE i # j
    <3> SUFFICES ASSUME NEW b, b \in VerbBlocks(h, Verbs(h, ft, i)), b \in VerbBlocks(h, Verbs(h, ft, j)) PROVE FALSE
      OBVIOUS
    <3>1. PICK o \in DOMAIN own : b # Null /\ own[o] = b /\ (o = OfByVerb(i) \/ \E l : o = OfVerb(i, l))
      BY <1>8
    <3>2. PICK q \in DOMAIN own : own[q] = b /\ (q = OfByVerb(j) \/ \E l : q = OfVerb(j, l))
      BY <1>8
    <3>3. o = q
      BY <3>1, <3>2, <1>6
    <3> QED BY <3>1, <3>2, <3>3, OwnersApart
  <2>5. \A i \in 1..ft.size : \A j, k \in 1..Verbs(h, ft, i).size :
           /\ Cell(h, Verbs(h, ft, i), j).m_verb.data # Verbs(h, ft, i).data
           /\ Cell(h, Verbs(h, ft, i), j).m_verb.data = Cell(h, Verbs(h, ft, i), k).m_verb.data => j = k
    <3> TAKE i \in 1..ft.size
    <3> TAKE j, k \in 1..Verbs(h, ft, i).size
    <3>1. /\ OfVerb(i, j) \in DOMAIN own /\ own[OfVerb(i, j)] = Cell(h, Verbs(h, ft, i), j).m_verb.data
          /\ OfVerb(i, k) \in DOMAIN own /\ own[OfVerb(i, k)] = Cell(h, Verbs(h, ft, i), k).m_verb.data
          /\ OfByVerb(i) \in DOMAIN own /\ own[OfByVerb(i)] = Verbs(h, ft, i).data
      BY <1>3
    <3>2. own[OfVerb(i, j)] # Null
      BY <3>1, <1>3, <1>5
    <3>3. OfVerb(i, j) # OfByVerb(i)
      BY OwnersApart
    <3>4. OfVerb(i, j) = OfVerb(i, k) => j = k
      BY OwnersApart
    <3> QED BY <3>1, <3>2, <3>3, <3>4, <1>6
  <2>6. Null \notin S /\ F \intersect S = {}
    BY <1>7, <1>11
  <2> HIDE DEF S, F
  <2>7. Clear(Without(h, S), ft, FightDtor) = Result(Without(h, S \union F), NoArray)
    <3>1. FightBlocks(h, ft) \intersect S = {}
      BY <2>6 DEF F
    <3> QED BY <1>1, <1>2, <2>1, <2>2, <2>3, <2>4, <2>5, <2>6, <3>1, ClearFights DEF F
  <2> QED BY <2>7, <1>10 DEF Result
(* The deaths. *)
<1>13. d = Result(Without(h, S \union F \union D), NoArray)
  <2>1. dt.data \notin S
    BY <1>3, <1>6, <1>7, OwnersApart
  <2>2. dt.data \notin F
    <3> SUFFICES ASSUME dt.data \in F PROVE FALSE
      OBVIOUS
    <3>1. PICK o \in DOMAIN own : dt.data # Null /\ own[o] = dt.data
                 /\ (o = OfFight \/ (\E i : o = OfByVerb(i)) \/ \E i, j : o = OfVerb(i, j))
      BY <1>9
    <3>2. o = OfDeath
      BY <3>1, <1>3, <1>6
    <3> QED BY <3>1, <3>2, OwnersApart
  <2> HIDE DEF S, F
  <2>3. Clear(Without(h, S \union F), dt, NoDtor) = Result(Without(h, (S \union F) \union D), NoArray)
    BY <1>1, <2>1, <2>2, ClearDeaths
  <2> QED BY <2>3, <1>12 DEF Result
(* So all blocks are free. *)
<1>14. DOMAIN h.live \subseteq S \union F \union D
  <2> SUFFICES ASSUME NEW b \in DOMAIN h.live PROVE b \in S \union F \union D
    OBVIOUS
  <2>1. PICK o \in DOMAIN own : own[o] = b /\ b # Null
    BY <1>3 DEF Once
  <2>2. \/ o \in {OfPc, OfFight, OfDeath}
        \/ \E i \in 1..pc.size : o = OfString(i)
        \/ \E i \in 1..ft.size : o = OfByVerb(i)
        \/ \E i \in 1..ft.size : \E j \in 1..Verbs(h, ft, i).size : o = OfVerb(i, j)
    BY <1>1, <1>3, <2>1, OwnersAre
  <2>3. CASE o = OfPc
    BY <2>1, <2>3, <1>3 DEF StringBlocks
  <2>4. CASE o = OfFight
    BY <2>1, <2>4, <1>3 DEF FightBlocks
  <2>5. CASE o = OfDeath
    BY <2>1, <2>5, <1>3
  <2>6. CASE \E i \in 1..pc.size : o = OfString(i)
    BY <2>1, <2>6, <1>3 DEF StringBlocks
  <2>7. CASE \E i \in 1..ft.size : o = OfByVerb(i)
    <3>1. PICK i \in 1..ft.size : o = OfByVerb(i)
      BY <2>7
    <3>2. b \in VerbBlocks(h, Verbs(h, ft, i))
      BY <3>1, <2>1, <1>3 DEF VerbBlocks
    <3> QED BY <3>1, <3>2 DEF FightBlocks
  <2>8. CASE \E i \in 1..ft.size : \E j \in 1..Verbs(h, ft, i).size : o = OfVerb(i, j)
    <3>1. PICK i \in 1..ft.size : \E j \in 1..Verbs(h, ft, i).size : o = OfVerb(i, j)
      BY <2>8
    <3>2. b \in VerbBlocks(h, Verbs(h, ft, i))
      BY <3>1, <2>1, <1>3 DEF VerbBlocks
    <3> QED BY <3>1, <3>2 DEF FightBlocks
  <2> QED BY <2>2, <2>3, <2>4, <2>5, <2>6, <2>7, <2>8
<1> DEFINE B == S \union F \union D
           k == Without(h, B)
<1>15. HeapOK(k) /\ DOMAIN k.live = {}
  <2>1. DOMAIN h.live \ B = {}
    BY <1>14
  <2>2. DOMAIN k.live = {} /\ h.next \in Nat \ {0}
    BY <2>1, <1>1, WithoutIs DEF HeapOK
  <2>3. k = [live |-> k.live, next |-> k.next, fault |-> FALSE] /\ k.next = h.next
        /\ k.live = [b \in DOMAIN k.live |-> k.live[b]]
    BY DEF Without
  <2> HIDE DEF k
  <2> QED BY <2>2, <2>3 DEF HeapOK
<1>16. p.array = NoArray /\ f.array = NoArray /\ d.array = NoArray /\ d.heap = k
  <2> HIDE DEF S, F, D
  <2> QED BY <1>10, <1>12, <1>13 DEF Result
<1> HIDE DEF B, k, p, f, d, S, F, D
<1>17. WF(d.heap, p.array, f.array, d.array)
  BY <1>15, <1>16, NothingOwned
<1> QED BY <1>16, <1>17 DEF p, f, d

(* What is stored: the hits of a source, a target and a verb. *)
Key(h, pc, ft, i, j) ==
  <<NameAt(h, pc, Cell(h, ft, i).sourceId), NameAt(h, pc, Cell(h, ft, i).targetId),
    VerbAt(h, Verbs(h, ft, i), j)>>
Hits(h, ft, i, j) == Cell(h, Verbs(h, ft, i), j).hits
Stored(h, pc, ft, key, n) ==
  \E i \in 1..ft.size : \E j \in 1..Verbs(h, ft, i).size :
    Key(h, pc, ft, i, j) = key /\ Hits(h, ft, i, j) = n
Dead(h, pc, dt, i) == <<NameAt(h, pc, Cell(h, dt, i).sourceId), NameAt(h, pc, Cell(h, dt, i).targetId)>>

Keys == Name \X Name \X Verb
Told(h, pc, ft, hits) ==
  /\ hits = [key \in Keys |-> hits[key]]
  /\ \A key \in Keys : hits[key] \in Nat
  /\ \A key, n : Stored(h, pc, ft, key, n) => hits[key] = n
  /\ \A key \in Keys : hits[key] # 0 => Stored(h, pc, ft, key, hits[key])
ToldDeaths(h, pc, dt, deaths) == deaths = [i \in 1..dt.size |-> Dead(h, pc, dt, i)]

(* No source, target and verb has two counters. *)
LEMMA KeysOnce ==
  ASSUME NEW h, NEW pc, NEW ft, NEW dt, WF(h, pc, ft, dt),
         NEW i \in 1..ft.size, NEW j \in 1..Verbs(h, ft, i).size,
         NEW k \in 1..ft.size, NEW l \in 1..Verbs(h, ft, k).size,
         Key(h, pc, ft, i, j) = Key(h, pc, ft, k, l)
  PROVE  i = k /\ j = l
<1>1. PcOK(h, pc) /\ FtOK(h, pc.size, ft)
  BY DEF WF
<1>2. FightOK(h, pc.size, Cell(h, ft, i)) /\ FightOK(h, pc.size, Cell(h, ft, k))
  BY <1>1 DEF FtOK
<1>3. /\ Cell(h, ft, i).sourceId \in 1..pc.size /\ Cell(h, ft, i).targetId \in 1..pc.size
      /\ Cell(h, ft, k).sourceId \in 1..pc.size /\ Cell(h, ft, k).targetId \in 1..pc.size
      /\ VerbsOK(h, Verbs(h, ft, i))
  BY <1>2 DEF FightOK, Verbs
<1>4. /\ NameAt(h, pc, Cell(h, ft, i).sourceId) = NameAt(h, pc, Cell(h, ft, k).sourceId)
      /\ NameAt(h, pc, Cell(h, ft, i).targetId) = NameAt(h, pc, Cell(h, ft, k).targetId)
      /\ VerbAt(h, Verbs(h, ft, i), j) = VerbAt(h, Verbs(h, ft, k), l)
  BY DEF Key
<1>5. SamePair(h, ft, i, k)
  BY <1>1, <1>3, <1>4 DEF PcOK, SamePair
<1>6. i = k
  BY <1>1, <1>5 DEF FtOK
<1>7. j = l
  BY <1>3, <1>4, <1>6 DEF VerbsOK
<1> QED BY <1>6, <1>7

LEMMA KeysAre ==
  ASSUME NEW h, NEW pc, NEW ft, NEW dt, WF(h, pc, ft, dt),
         NEW i \in 1..ft.size, NEW j \in 1..Verbs(h, ft, i).size
  PROVE  Key(h, pc, ft, i, j) \in Keys /\ Hits(h, ft, i, j) \in Nat
<1>1. PcOK(h, pc) /\ FightOK(h, pc.size, Cell(h, ft, i))
  BY DEF WF, FtOK
<1>2. VerbOK(h, Cell(h, Verbs(h, ft, i), j))
  BY <1>1 DEF FightOK, Verbs, VerbsOK
<1>3. VerbAt(h, Verbs(h, ft, i), j) \in Verb /\ Hits(h, ft, i, j) \in Nat
  BY <1>2 DEF VerbOK, VerbAt, Hits
<1>4. NameAt(h, pc, Cell(h, ft, i).sourceId) \in Name /\ NameAt(h, pc, Cell(h, ft, i).targetId) \in Name
  BY <1>1 DEF PcOK, FightOK
<1> QED BY <1>3, <1>4 DEF Key, Keys

(* Names, fights and verbs may move, and grow by what says nothing. *)
LEMMA StoredOnwards ==
  ASSUME NEW h, NEW pc, NEW ft, FtOK(h, pc.size, ft), NEW g, NEW pcs, NEW fts,
         KeptNamesIn(h, g, pc, pcs), KeptFightsIn(h, g, ft, fts), ft.size \in Nat, fts.size \in Nat,
         \A i \in 1..fts.size : i \in 1..ft.size \/ Verbs(g, fts, i).size = 0
  PROVE  \A key, n : Stored(g, pcs, fts, key, n) <=> Stored(h, pc, ft, key, n)
<1>1. \A i \in 1..ft.size : i \in 1..fts.size /\ Verbs(g, fts, i) = Verbs(h, ft, i)
  BY DEF KeptFightsIn, Verbs
<1>2. \A i \in 1..ft.size : \A j \in 1..Verbs(h, ft, i).size :
         Key(g, pcs, fts, i, j) = Key(h, pc, ft, i, j) /\ Hits(g, fts, i, j) = Hits(h, ft, i, j)
  <2> TAKE i \in 1..ft.size
  <2> TAKE j \in 1..Verbs(h, ft, i).size
  <2>1. Cell(g, fts, i) = Cell(h, ft, i) /\ KeptVerbs(h, g, Verbs(h, ft, i))
    BY DEF KeptFightsIn
  <2>2. Cell(h, ft, i).sourceId \in 1..pc.size /\ Cell(h, ft, i).targetId \in 1..pc.size
    BY DEF FtOK, FightOK
  <2>3. /\ NameAt(g, pcs, Cell(h, ft, i).sourceId) = NameAt(h, pc, Cell(h, ft, i).sourceId)
        /\ NameAt(g, pcs, Cell(h, ft, i).targetId) = NameAt(h, pc, Cell(h, ft, i).targetId)
    BY <2>2 DEF KeptNamesIn
  <2>4. /\ VerbAt(g, Verbs(h, ft, i), j) = VerbAt(h, Verbs(h, ft, i), j)
        /\ Cell(g, Verbs(h, ft, i), j) = Cell(h, Verbs(h, ft, i), j)
    BY <2>1 DEF KeptVerbs
  <2>5. Verbs(g, fts, i) = Verbs(h, ft, i)
    BY <1>1
  <2> QED BY <2>1, <2>3, <2>4, <2>5 DEF Key, Hits
<1>3. \A i \in 1..fts.size : \A j \in 1..Verbs(g, fts, i).size : i \in 1..ft.size
  OBVIOUS
<1> TAKE key, n
<1>4. Stored(h, pc, ft, key, n) => Stored(g, pcs, fts, key, n)
  BY <1>1, <1>2 DEF Stored
<1>5. Stored(g, pcs, fts, key, n) => Stored(h, pc, ft, key, n)
  BY <1>1, <1>2, <1>3 DEF Stored
<1> QED BY <1>4, <1>5

(* What is stored is what was said, as long as neither changes. *)
LEMMA ToldOnwards ==
  ASSUME NEW h, NEW pc, NEW ft, NEW hits, Told(h, pc, ft, hits), NEW g, NEW pcs, NEW fts,
         \A key, n : Stored(g, pcs, fts, key, n) <=> Stored(h, pc, ft, key, n)
  PROVE  Told(g, pcs, fts, hits)
BY DEF Told

LEMMA DeathsOnwards ==
  ASSUME NEW h, NEW pc, NEW dt, DtOK(h, pc.size, dt), NEW g, NEW pcs,
         KeptNamesIn(h, g, pc, pcs), KeptDeaths(h, g, dt), NEW deaths, ToldDeaths(h, pc, dt, deaths)
  PROVE  ToldDeaths(g, pcs, dt, deaths)
<1>1. \A i \in 1..dt.size : Dead(g, pcs, dt, i) = Dead(h, pc, dt, i)
  BY DEF DtOK, KeptNamesIn, KeptDeaths, Dead
<1> QED BY <1>1 DEF ToldDeaths

(* The order of the fights does not matter. *)
LEMMA StoredSorted ==
  ASSUME NEW h, NEW pc, NEW ft, NEW dt, WF(h, pc, ft, dt), NEW l \in 1..(ft.size - 1)
  PROVE  \A key, n : Stored(Swap(h, ft, l, l + 1), pc, ft, key, n) <=> Stored(h, pc, ft, key, n)
<1> DEFINE g == Swap(h, ft, l, l + 1)
           at(i) == Swapped(l, l + 1, i)
<1>1. /\ KeptNames(h, g, pc)
      /\ \A i \in 1..ft.size : at(i) \in 1..ft.size
      /\ \A i \in 1..ft.size : at(at(i)) = i
      /\ \A i \in 1..ft.size : Cell(g, ft, i) = Cell(h, ft, at(i)) /\ KeptVerbs(h, g, Verbs(h, ft, i))
  BY SortedIs
<1>2. \A i \in 1..ft.size : Cell(h, ft, i).sourceId \in 1..pc.size /\ Cell(h, ft, i).targetId \in 1..pc.size
  BY DEF WF, FtOK, FightOK
<1> HIDE DEF g, at
<1>3. \A i \in 1..ft.size : Verbs(g, ft, i) = Verbs(h, ft, at(i))
  BY <1>1 DEF Verbs
<1>4. \A i \in 1..ft.size : \A j \in 1..Verbs(g, ft, i).size :
         Key(g, pc, ft, i, j) = Key(h, pc, ft, at(i), j) /\ Hits(g, ft, i, j) = Hits(h, ft, at(i), j)
  <2> TAKE i \in 1..ft.size
  <2> TAKE j \in 1..Verbs(g, ft, i).size
  <2>1. at(i) \in 1..ft.size /\ Cell(g, ft, i) = Cell(h, ft, at(i)) /\ Verbs(g, ft, i) = Verbs(h, ft, at(i))
    BY <1>1, <1>3
  <2>2. KeptVerbs(h, g, Verbs(h, ft, at(i))) /\ j \in 1..Verbs(h, ft, at(i)).size
    BY <1>1, <2>1
  <2>3. /\ VerbAt(g, Verbs(h, ft, at(i)), j) = VerbAt(h, Verbs(h, ft, at(i)), j)
        /\ Cell(g, Verbs(h, ft, at(i)), j) = Cell(h, Verbs(h, ft, at(i)), j)
    BY <2>2 DEF KeptVerbs
  <2>4. /\ NameAt(g, pc, Cell(h, ft, at(i)).sourceId) = NameAt(h, pc, Cell(h, ft, at(i)).sourceId)
        /\ NameAt(g, pc, Cell(h, ft, at(i)).targetId) = NameAt(h, pc, Cell(h, ft, at(i)).targetId)
    BY <1>1, <1>2, <2>1 DEF KeptNames
  <2> QED BY <2>1, <2>3, <2>4 DEF Key, Hits
<1>5. ASSUME NEW key, NEW n, Stored(g, pc, ft, key, n) PROVE Stored(h, pc, ft, key, n)
  BY <1>1, <1>3, <1>4, <1>5 DEF Stored
<1>6. ASSUME NEW key, NEW n, Stored(h, pc, ft, key, n) PROVE Stored(g, pc, ft, key, n)
  <2>10. PICK i \in 1..ft.size : \E j \in 1..Verbs(h, ft, i).size : Key(h, pc, ft, i, j) = key /\ Hits(h, ft, i, j) = n
    BY <1>6 DEF Stored
  <2>1. PICK j \in 1..Verbs(h, ft, i).size : Key(h, pc, ft, i, j) = key /\ Hits(h, ft, i, j) = n
    BY <2>10
  <2>2. at(i) \in 1..ft.size /\ at(at(i)) = i /\ Verbs(g, ft, at(i)) = Verbs(h, ft, i)
    BY <1>1, <1>3
  <2>3. Key(g, pc, ft, at(i), j) = key /\ Hits(g, ft, at(i), j) = n
    BY <2>1, <2>2, <1>4
  <2> QED BY <2>2, <2>3 DEF Stored
<1> QED BY <1>5, <1>6 DEF g

(* One hit more, of the fight and the verb. *)
LEMMA ToldCounted ==
  ASSUME NEW h, NEW pc, NEW ft, NEW dt, WF(h, pc, ft, dt), NEW hits, Told(h, pc, ft, hits),
         NEW p \in 1..ft.size, NEW source \in Name, NEW target \in Name, NEW verb \in Verb,
         NameAt(h, pc, Cell(h, ft, p).sourceId) = source, NameAt(h, pc, Cell(h, ft, p).targetId) = target
  PROVE  Told(CountHit(h, At(ft, p), verb), pc, ft, [hits EXCEPT ![<<source, target, verb>>] = @ + 1])
<1> DEFINE g == CountHit(h, At(ft, p), verb)
           this == <<source, target, verb>>
           now == [hits EXCEPT ![this] = @ + 1]
<1>1. /\ WF(g, pc, ft, dt) /\ KeptNames(h, g, pc)
      /\ \A i \in 1..ft.size : /\ Cell(g, ft, i).sourceId = Cell(h, ft, i).sourceId
                               /\ Cell(g, ft, i).targetId = Cell(h, ft, i).targetId
      /\ \A i \in 1..ft.size : i # p => Cell(g, ft, i) = Cell(h, ft, i) /\ KeptVerbs(h, g, Verbs(h, ft, i))
      /\ \E q : VerbCounted(h, Verbs(h, ft, p), g, Verbs(g, ft, p), q, verb)
  BY CountHitIs
<1> HIDE DEF g
<1>2. PICK q : VerbCounted(h, Verbs(h, ft, p), g, Verbs(g, ft, p), q, verb)
  BY <1>1
<1>3. \A i \in 1..ft.size : Cell(h, ft, i).sourceId \in 1..pc.size /\ Cell(h, ft, i).targetId \in 1..pc.size
  BY DEF WF, FtOK, FightOK
<1>4. \A i \in 1..ft.size : /\ NameAt(g, pc, Cell(g, ft, i).sourceId) = NameAt(h, pc, Cell(h, ft, i).sourceId)
                            /\ NameAt(g, pc, Cell(g, ft, i).targetId) = NameAt(h, pc, Cell(h, ft, i).targetId)
  BY <1>1, <1>3 DEF KeptNames
<1>5. \A i \in 1..ft.size : i # p =>
         /\ Verbs(g, ft, i) = Verbs(h, ft, i)
         /\ \A j \in 1..Verbs(h, ft, i).size : /\ Key(g, pc, ft, i, j) = Key(h, pc, ft, i, j)
                                               /\ Hits(g, ft, i, j) = Hits(h, ft, i, j)
  <2> TAKE i \in 1..ft.size
  <2> HAVE i # p
  <2>1. Verbs(g, ft, i) = Verbs(h, ft, i) /\ KeptVerbs(h, g, Verbs(h, ft, i))
    BY <1>1 DEF Verbs
  <2> QED BY <2>1, <1>4 DEF KeptVerbs, Key, Hits
<1>6. \A j \in 1..Verbs(h, ft, p).size :
         /\ Key(g, pc, ft, p, j) = Key(h, pc, ft, p, j)
         /\ j # q => Hits(g, ft, p, j) = Hits(h, ft, p, j)
         /\ j \in 1..Verbs(g, ft, p).size
  <2>1. Verbs(h, ft, p).size \in Nat /\ Verbs(g, ft, p).size \in Nat
    BY <1>1 DEF WF, FtOK, FightOK, Verbs, VerbsOK, ArrayOK
  <2> QED BY <2>1, <1>2, <1>4 DEF VerbCounted, Key, Hits
<1>7. q \in 1..Verbs(g, ft, p).size /\ Key(g, pc, ft, p, q) = this
  BY <1>2, <1>4 DEF VerbCounted, Key
<1>8. this \in Keys
  BY DEF Keys
<1>9. Hits(g, ft, p, q) = hits[this] + 1
  <2>1. CASE q \in 1..Verbs(h, ft, p).size /\ Hits(g, ft, p, q) = Hits(h, ft, p, q) + 1
    <3>1. Key(h, pc, ft, p, q) = this
      BY <2>1, <1>6, <1>7
    <3>2. Stored(h, pc, ft, this, Hits(h, ft, p, q))
      BY <2>1, <3>1 DEF Stored
    <3> QED BY <2>1, <3>2 DEF Told
  <2>2. CASE /\ Hits(g, ft, p, q) = 1 /\ q \notin 1..Verbs(h, ft, p).size
             /\ \A j \in 1..Verbs(h, ft, p).size : VerbAt(h, Verbs(h, ft, p), j) # verb
    <3>1. ASSUME NEW i \in 1..ft.size, NEW j \in 1..Verbs(h, ft, i).size, Key(h, pc, ft, i, j) = this
          PROVE  FALSE
      <4>1. /\ NameAt(h, pc, Cell(h, ft, i).sourceId) = source /\ NameAt(h, pc, Cell(h, ft, i).targetId) = target
            /\ VerbAt(h, Verbs(h, ft, i), j) = verb
        BY <3>1 DEF Key
      <4>2. SamePair(h, ft, i, p)
        BY <4>1, <1>3 DEF WF, PcOK, SamePair
      <4>3. i = p
        BY <4>2 DEF WF, FtOK
      <4> QED BY <2>2, <4>1, <4>3
    <3>2. ~Stored(h, pc, ft, this, hits[this])
      BY <3>1 DEF Stored
    <3>3. hits[this] = 0
      BY <3>2, <1>8 DEF Told
    <3> QED BY <2>2, <3>3
  <2> QED BY <1>2, <2>1, <2>2 DEF VerbCounted, Hits
<1>10. /\ now = [key \in Keys |-> now[key]] /\ now[this] = hits[this] + 1
       /\ \A key \in Keys : key # this => now[key] = hits[key]
       /\ \A key \in Keys : now[key] \in Nat
  BY <1>8 DEF Told
<1> HIDE DEF now, this
<1>11. ASSUME NEW key, NEW n, Stored(g, pc, ft, key, n) PROVE now[key] = n
  <2>10. PICK i \in 1..ft.size : \E j \in 1..Verbs(g, ft, i).size : Key(g, pc, ft, i, j) = key /\ Hits(g, ft, i, j) = n
    BY <1>11 DEF Stored
  <2>1. PICK j \in 1..Verbs(g, ft, i).size : Key(g, pc, ft, i, j) = key /\ Hits(g, ft, i, j) = n
    BY <2>10
  <2>2. CASE i = p /\ j = q
    BY <2>1, <2>2, <1>7, <1>9, <1>10
  <2>3. CASE i # p \/ j # q
    <3>1. key # this
      BY <2>1, <2>3, <1>1, <1>7, KeysOnce
    <3>2. j \in 1..Verbs(h, ft, i).size
      <4>1. CASE i # p
        BY <4>1, <1>5
      <4>2. CASE i = p
        BY <4>2, <2>1, <2>3, <1>2 DEF VerbCounted
      <4> QED BY <4>1, <4>2
    <3>3. Key(h, pc, ft, i, j) = key /\ Hits(h, ft, i, j) = n
      BY <2>1, <2>3, <3>2, <1>5, <1>6
    <3>4. hits[key] = n
      BY <3>2, <3>3 DEF Told, Stored
    <3>5. key \in Keys
      BY <3>2, <3>3, KeysAre
    <3> QED BY <3>1, <3>4, <3>5, <1>10
  <2> QED BY <2>2, <2>3
<1>12. ASSUME NEW key \in Keys, now[key] # 0 PROVE Stored(g, pc, ft, key, now[key])
  <2>1. CASE key = this
    BY <2>1, <1>7, <1>9, <1>10 DEF Stored
  <2>2. CASE key # this
    <3>1. now[key] = hits[key] /\ Stored(h, pc, ft, key, hits[key])
      BY <2>2, <1>10, <1>12 DEF Told
    <3>20. PICK i \in 1..ft.size : \E j \in 1..Verbs(h, ft, i).size : Key(h, pc, ft, i, j) = key /\ Hits(h, ft, i, j) = hits[key]
      BY <3>1 DEF Stored
    <3>2. PICK j \in 1..Verbs(h, ft, i).size : Key(h, pc, ft, i, j) = key /\ Hits(h, ft, i, j) = hits[key]
      BY <3>20
    <3>3. j \in 1..Verbs(g, ft, i).size /\ Key(g, pc, ft, i, j) = key
      BY <3>2, <1>5, <1>6
    <3>4. i = p => j # q
      BY <3>3, <2>2, <1>7
    <3>5. Hits(g, ft, i, j) = now[key]
      BY <3>1, <3>2, <3>4, <1>5, <1>6
    <3> QED BY <3>3, <3>5 DEF Stored
  <2> QED BY <2>1, <2>2
<1>13. Told(g, pc, ft, now)
  BY <1>10, <1>11, <1>12 DEF Told
<1> QED BY <1>13 DEF g, now, this

(* After a reset nothing is stored and nothing was said. *)
LEMMA FreshStory ==
  ASSUME NEW h
  PROVE  /\ NoneSaid = [hits |-> NoneSaid.hits, deaths |-> NoneSaid.deaths]
         /\ Told(h, NoArray, NoArray, NoneSaid.hits) /\ ToldDeaths(h, NoArray, NoArray, NoneSaid.deaths)
<1>1. NoneSaid.hits = [key \in Keys |-> 0]
  BY DEF NoneSaid, Keys
<1>2. NoneSaid = [hits |-> NoneSaid.hits, deaths |-> NoneSaid.deaths] /\ NoneSaid.deaths = << >>
  BY DEF NoneSaid
<1>3. NoArray.size = 0
  BY DEF NoArray
<1>4. \A key, n : ~Stored(h, NoArray, NoArray, key, n)
  BY <1>3 DEF Stored
<1>5. Told(h, NoArray, NoArray, NoneSaid.hits)
  BY <1>1, <1>4 DEF Told
<1>6. << >> = [i \in 1..NoArray.size |-> Dead(h, NoArray, NoArray, i)]
  <2>1. 1..NoArray.size = {}
    BY <1>3
  <2> QED BY <2>1
<1> QED BY <1>2, <1>5, <1>6 DEF ToldDeaths

LEMMA EmptyHeapOK == HeapOK(EmptyHeap) /\ DOMAIN EmptyHeap.live = {}
<1>1. EmptyHeap.live = << >> /\ EmptyHeap.next = 1 /\ EmptyHeap.fault = FALSE
      /\ EmptyHeap = [live |-> EmptyHeap.live, next |-> EmptyHeap.next, fault |-> FALSE]
  BY DEF EmptyHeap
<1>2. << >> = [b \in DOMAIN << >> |-> << >>[b]] /\ DOMAIN << >> = {}
  OBVIOUS
<1> QED BY <1>1, <1>2 DEF HeapOK

(* The inductive invariant: the battle is in order, and says what was said. *)
SInv == /\ WF(heap, m_pc, m_fight, m_death)
        /\ said = [hits |-> said.hits, deaths |-> said.deaths]
        /\ Told(heap, m_pc, m_fight, said.hits)
        /\ ToldDeaths(heap, m_pc, m_death, said.deaths)

LEMMA SInitially == Init => SInv
<1> SUFFICES ASSUME Init PROVE SInv
  OBVIOUS
<1>1. heap = EmptyHeap /\ m_pc = NoArray /\ m_fight = NoArray /\ m_death = NoArray /\ said = NoneSaid
  BY DEF Init
<1>2. WF(heap, m_pc, m_fight, m_death)
  BY <1>1, EmptyHeapOK, NothingOwned
<1> QED BY <1>1, <1>2, FreshStory DEF SInv

(* The sizes of the arrays, and that what is the same is kept. *)
LEMMA Sizes ==
  ASSUME NEW h, NEW pc, NEW ft, NEW dt, WF(h, pc, ft, dt)
  PROVE  /\ pc.size \in Nat /\ ft.size \in Nat /\ dt.size \in Nat
         /\ PcOK(h, pc) /\ FtOK(h, pc.size, ft) /\ DtOK(h, pc.size, dt) /\ HeapOK(h)
BY DEF WF, PcOK, FtOK, DtOK, ArrayOK

LEMMA SameSizeKept ==
  ASSUME NEW h, NEW g, NEW pc, NEW ft, pc.size \in Nat, ft.size \in Nat
  PROVE  /\ KeptNames(h, g, pc) => KeptNamesIn(h, g, pc, pc)
         /\ KeptFights(h, g, ft) => KeptFightsIn(h, g, ft, ft)
BY DEF KeptNames, KeptNamesIn, KeptFights, KeptFightsIn

(* The names of a line are in, and the story goes on. *)
LEMMA Named ==
  ASSUME NEW h, NEW pc, NEW ft, NEW dt, WF(h, pc, ft, dt), NEW hits, NEW deaths,
         Told(h, pc, ft, hits), ToldDeaths(h, pc, dt, deaths),
         NEW source \in Name, NEW target \in Name
  PROVE  LET r == Intern2(h, pc, source, target)
             s == PCIndex(r.heap, r.array, source)
             t == PCIndex(r.heap, r.array, target)
         IN  /\ WF(r.heap, r.array, ft, dt)
             /\ s \in 1..r.array.size /\ NameAt(r.heap, r.array, s) = source
             /\ t \in 1..r.array.size /\ NameAt(r.heap, r.array, t) = target
             /\ Told(r.heap, r.array, ft, hits) /\ ToldDeaths(r.heap, r.array, dt, deaths)
<1> DEFINE r == Intern2(h, pc, source, target)
           s == PCIndex(r.heap, r.array, source)
           t == PCIndex(r.heap, r.array, target)
<1>1. /\ WF(r.heap, r.array, ft, dt)
      /\ s \in 1..r.array.size /\ NameAt(r.heap, r.array, s) = source
      /\ t \in 1..r.array.size /\ NameAt(r.heap, r.array, t) = target
      /\ KeptNamesIn(h, r.heap, pc, r.array)
      /\ KeptFights(h, r.heap, ft) /\ KeptDeaths(h, r.heap, dt)
  BY Intern2Is
<1> HIDE DEF r, s, t
<1>2. /\ pc.size \in Nat /\ ft.size \in Nat /\ FtOK(h, pc.size, ft) /\ DtOK(h, pc.size, dt)
      /\ KeptFightsIn(h, r.heap, ft, ft)
  BY <1>1, Sizes, SameSizeKept
<1>3. \A key, n : Stored(r.heap, r.array, ft, key, n) <=> Stored(h, pc, ft, key, n)
  BY <1>1, <1>2, StoredOnwards
<1>4. Told(r.heap, r.array, ft, hits)
  BY <1>3, ToldOnwards
<1>5. ToldDeaths(r.heap, r.array, dt, deaths)
  BY <1>1, <1>2, DeathsOnwards
<1> QED BY <1>1, <1>4, <1>5 DEF r, s, t

(* Battle_melee and Battle_miss. *)
LEMMA MeleeKeeps ==
  ASSUME SInv, NEW source \in Name, NEW target \in Name, NEW verb \in Verb, Melee(source, target, verb)
  PROVE  SInv'
<1> DEFINE pc == Intern2(heap, m_pc, source, target)
           s == PCIndex(pc.heap, pc.array, source)
           t == PCIndex(pc.heap, pc.array, target)
           fight == GetFight(pc.heap, m_fight, s, t)
           g == CountHit(fight.heap, fight.pointer, verb)
           this == <<source, target, verb>>
           hits == said.hits
           deaths == said.deaths
           now == [hits EXCEPT ![this] = @ + 1]
<1>1. /\ m_pc' = pc.array /\ m_fight' = fight.array /\ m_death' = m_death
      /\ heap' = IF Valid(fight.heap, fight.pointer) THEN g ELSE [fight.heap EXCEPT !.fault = TRUE]
      /\ said' = [said EXCEPT !.hits[this] = @ + 1]
  BY DEF Melee
<1>2. /\ WF(pc.heap, pc.array, m_fight, m_death)
      /\ s \in 1..pc.array.size /\ NameAt(pc.heap, pc.array, s) = source
      /\ t \in 1..pc.array.size /\ NameAt(pc.heap, pc.array, t) = target
      /\ Told(pc.heap, pc.array, m_fight, hits) /\ ToldDeaths(pc.heap, pc.array, m_death, deaths)
  BY Named DEF SInv
<1>3. said' = [hits |-> now, deaths |-> deaths]
  <2>1. said = [hits |-> hits, deaths |-> deaths]
    BY DEF SInv
  <2>2. said' = [said EXCEPT !.hits = [said.hits EXCEPT ![this] = @ + 1]]
    BY <1>1
  <2>3. said' = [said EXCEPT !.hits = now]
    BY <2>2
  <2> HIDE DEF now, hits, deaths
  <2> QED BY <2>1, <2>3
<1> HIDE DEF pc, s, t
<1>40. /\ WF(fight.heap, pc.array, fight.array, m_death)
       /\ KeptNames(pc.heap, fight.heap, pc.array) /\ KeptDeaths(pc.heap, fight.heap, m_death)
       /\ KeptFightsIn(pc.heap, fight.heap, m_fight, fight.array)
  BY <1>2, GetFightIs
<1>41. \E p \in 1..fight.array.size : /\ fight.pointer = At(fight.array, p)
                                      /\ IsFight(fight.heap, fight.array, p, s, t)
  BY <1>2, GetFightIs
<1>42. \A i \in 1..fight.array.size : i \in 1..m_fight.size \/ Verbs(fight.heap, fight.array, i).size = 0
  BY <1>2, GetFightIs
<1> HIDE DEF fight
<1>4. /\ WF(fight.heap, pc.array, fight.array, m_death)
      /\ \E p \in 1..fight.array.size : /\ fight.pointer = At(fight.array, p)
                                        /\ IsFight(fight.heap, fight.array, p, s, t)
      /\ KeptNames(pc.heap, fight.heap, pc.array) /\ KeptDeaths(pc.heap, fight.heap, m_death)
      /\ KeptFightsIn(pc.heap, fight.heap, m_fight, fight.array)
      /\ \A i \in 1..fight.array.size : i \in 1..m_fight.size \/ Verbs(fight.heap, fight.array, i).size = 0
  BY <1>40, <1>41, <1>42
<1>5. /\ pc.array.size \in Nat /\ m_fight.size \in Nat /\ fight.array.size \in Nat
      /\ FtOK(pc.heap, pc.array.size, m_fight) /\ DtOK(pc.heap, pc.array.size, m_death)
      /\ KeptNamesIn(pc.heap, fight.heap, pc.array, pc.array)
      /\ ArrayOK(fight.heap, fight.array)
  BY <1>2, <1>4, Sizes, SameSizeKept DEF FtOK
<1>6. Told(fight.heap, pc.array, fight.array, hits)
  <2>1. \A key, n : Stored(fight.heap, pc.array, fight.array, key, n) <=> Stored(pc.heap, pc.array, m_fight, key, n)
    BY <1>4, <1>5, StoredOnwards
  <2> QED BY <1>2, <2>1, ToldOnwards
<1>7. ToldDeaths(fight.heap, pc.array, m_death, deaths)
  BY <1>2, <1>4, <1>5, DeathsOnwards
<1>8. PICK p \in 1..fight.array.size :
         fight.pointer = At(fight.array, p) /\ IsFight(fight.heap, fight.array, p, s, t)
  BY <1>4
<1>9. Valid(fight.heap, fight.pointer)
  BY <1>5, <1>8, AtIs
<1>10. heap' = g
  BY <1>1, <1>9
<1>11. /\ NameAt(fight.heap, pc.array, Cell(fight.heap, fight.array, p).sourceId) = source
       /\ NameAt(fight.heap, pc.array, Cell(fight.heap, fight.array, p).targetId) = target
  BY <1>2, <1>4, <1>8 DEF IsFight, KeptNames
<1>12. Told(g, pc.array, fight.array, now)
  BY <1>4, <1>6, <1>8, <1>11, ToldCounted
<1>13. /\ WF(g, pc.array, fight.array, m_death)
       /\ KeptNames(fight.heap, g, pc.array) /\ KeptDeaths(fight.heap, g, m_death)
  BY <1>4, <1>8, CountHitIs
<1> HIDE DEF g, now, hits, deaths
<1>14. ToldDeaths(g, pc.array, m_death, deaths)
  <2>1. DtOK(fight.heap, pc.array.size, m_death) /\ KeptNamesIn(fight.heap, g, pc.array, pc.array)
    BY <1>4, <1>5, <1>13, Sizes, SameSizeKept
  <2> QED BY <1>7, <1>13, <2>1, DeathsOnwards
<1>15. said'.hits = now /\ said'.deaths = deaths
  BY <1>3
<1> QED BY <1>1, <1>3, <1>10, <1>12, <1>13, <1>14, <1>15 DEF SInv

(* Battle_death. *)
LEMMA DeathKeeps ==
  ASSUME SInv, NEW source \in Name, NEW target \in Name, Death(source, target)
  PROVE  SInv'
<1> DEFINE pc == Intern2(heap, m_pc, source, target)
           s == PCIndex(pc.heap, pc.array, source)
           t == PCIndex(pc.heap, pc.array, target)
           dead == [sourceId |-> s, targetId |-> t]
           death == Push(pc.heap, m_death, dead, NoDtor)
           hits == said.hits
           deaths == said.deaths
           now == Append(deaths, <<source, target>>)
<1>1. /\ m_pc' = pc.array /\ m_fight' = m_fight /\ m_death' = death.array /\ heap' = death.heap
      /\ said' = [said EXCEPT !.deaths = now]
  BY DEF Death
<1>2. /\ WF(pc.heap, pc.array, m_fight, m_death)
      /\ s \in 1..pc.array.size /\ NameAt(pc.heap, pc.array, s) = source
      /\ t \in 1..pc.array.size /\ NameAt(pc.heap, pc.array, t) = target
      /\ Told(pc.heap, pc.array, m_fight, hits) /\ ToldDeaths(pc.heap, pc.array, m_death, deaths)
  BY Named DEF SInv
<1>3. said' = [hits |-> hits, deaths |-> now]
  <2>1. said = [hits |-> hits, deaths |-> deaths]
    BY DEF SInv
  <2> HIDE DEF now, hits, deaths
  <2> QED BY <1>1, <2>1
<1> HIDE DEF pc, s, t
<1>4. /\ WF(death.heap, pc.array, m_fight, death.array)
      /\ death.array.size = m_death.size + 1
      /\ Cell(death.heap, death.array, m_death.size + 1) = dead
      /\ \A i \in 1..m_death.size : Cell(death.heap, death.array, i) = Cell(pc.heap, m_death, i)
      /\ KeptNames(pc.heap, death.heap, pc.array) /\ KeptFights(pc.heap, death.heap, m_fight)
  BY <1>2, DeathPushed
<1> HIDE DEF death
<1>5. /\ pc.array.size \in Nat /\ m_fight.size \in Nat /\ m_death.size \in Nat
      /\ FtOK(pc.heap, pc.array.size, m_fight) /\ DtOK(pc.heap, pc.array.size, m_death)
      /\ KeptNamesIn(pc.heap, death.heap, pc.array, pc.array)
      /\ KeptFightsIn(pc.heap, death.heap, m_fight, m_fight)
  BY <1>2, <1>4, Sizes, SameSizeKept
<1>6. Told(death.heap, pc.array, m_fight, hits)
  <2>1. \A key, n : Stored(death.heap, pc.array, m_fight, key, n) <=> Stored(pc.heap, pc.array, m_fight, key, n)
    BY <1>5, StoredOnwards
  <2> QED BY <1>2, <2>1, ToldOnwards
<1>7. ToldDeaths(death.heap, pc.array, death.array, now)
  <2> DEFINE n == m_death.size
             was(i) == Dead(pc.heap, pc.array, m_death, i)
             is(i) == Dead(death.heap, pc.array, death.array, i)
  <2>1. deaths = [i \in 1..n |-> was(i)]
    BY <1>2 DEF ToldDeaths
  <2>2. \A i \in 1..n : is(i) = was(i)
    BY <1>4, <1>5 DEF Dead, DtOK, KeptNames
  <2>3. is(n + 1) = <<source, target>>
    BY <1>2, <1>4 DEF Dead, KeptNames
  <2>4. n \in Nat
    BY <1>5
  <2> HIDE DEF n, was, is, deaths
  <2>5. Append(deaths, <<source, target>>) = [i \in 1..(n + 1) |-> is(i)]
    <3>1. Len(deaths) = n /\ deaths \in Seq({was(i) : i \in 1..n})
      BY <2>1, <2>4
    <3>2. Append(deaths, <<source, target>>) =
             [i \in 1..(n + 1) |-> IF i = n + 1 THEN <<source, target>> ELSE deaths[i]]
      BY <3>1, <2>4 DEF Append
    <3>3. \A i \in 1..(n + 1) : (IF i = n + 1 THEN <<source, target>> ELSE deaths[i]) = is(i)
      BY <2>1, <2>2, <2>3, <2>4
    <3> QED BY <3>2, <3>3
  <2>6. death.array.size = n + 1
    BY <1>4 DEF n
  <2> QED BY <2>5, <2>6 DEF ToldDeaths, is
<1> HIDE DEF now, hits, deaths
<1>8. said'.hits = hits /\ said'.deaths = now
  BY <1>3
<1> QED BY <1>1, <1>3, <1>4, <1>6, <1>7, <1>8 DEF SInv

(* Battle_sort. *)
LEMMA SortKeeps == ASSUME SInv, Sort PROVE SInv'
<1>1. PICK l \in 1..(m_fight.size - 1) : heap' = Swap(heap, m_fight, l, l + 1)
  BY DEF Sort
<1>2. m_pc' = m_pc /\ m_fight' = m_fight /\ m_death' = m_death /\ said' = said
  BY DEF Sort
<1>3. WF(heap, m_pc, m_fight, m_death) /\ Told(heap, m_pc, m_fight, said.hits)
      /\ ToldDeaths(heap, m_pc, m_death, said.deaths) /\ said = [hits |-> said.hits, deaths |-> said.deaths]
  BY DEF SInv
<1> DEFINE g == Swap(heap, m_fight, l, l + 1)
<1>4. WF(g, m_pc, m_fight, m_death) /\ KeptNames(heap, g, m_pc) /\ KeptDeaths(heap, g, m_death)
  BY <1>3, SortedIs
<1>5. \A key, n : Stored(g, m_pc, m_fight, key, n) <=> Stored(heap, m_pc, m_fight, key, n)
  BY <1>3, StoredSorted
<1> HIDE DEF g
<1>6. Told(g, m_pc, m_fight, said.hits)
  BY <1>3, <1>5, ToldOnwards
<1>7. ToldDeaths(g, m_pc, m_death, said.deaths)
  <2>1. DtOK(heap, m_pc.size, m_death) /\ KeptNamesIn(heap, g, m_pc, m_pc)
    BY <1>3, <1>4, Sizes, SameSizeKept
  <2> QED BY <1>3, <1>4, <2>1, DeathsOnwards
<1>8. heap' = g
  BY <1>1 DEF g
<1> QED BY <1>2, <1>3, <1>4, <1>6, <1>7, <1>8 DEF SInv

(* Battle_reset. *)
LEMMA ResetKeeps == ASSUME SInv, Reset PROVE SInv'
<1> DEFINE p == Clear(heap, m_pc, StringDtor)
           f == Clear(p.heap, m_fight, FightDtor)
           d == Clear(f.heap, m_death, NoDtor)
<1>1. heap' = d.heap /\ m_pc' = p.array /\ m_fight' = f.array /\ m_death' = d.array /\ said' = NoneSaid
  BY DEF Reset
<1>2. WF(d.heap, p.array, f.array, d.array) /\ p.array = NoArray /\ f.array = NoArray /\ d.array = NoArray
  BY ResetIs DEF SInv
<1> HIDE DEF p, f, d
<1> QED BY <1>1, <1>2, FreshStory DEF SInv

(* The invariant is kept by every step. *)
LEMMA SInductive == SInv /\ [Next]_vars => SInv'
<1> SUFFICES ASSUME SInv, [Next]_vars PROVE SInv'
  OBVIOUS
<1>1. CASE \E source, target \in Name, verb \in Verb : Melee(source, target, verb)
  BY <1>1, MeleeKeeps
<1>2. CASE \E source, target \in Name : Death(source, target)
  BY <1>2, DeathKeeps
<1>3. CASE Sort
  BY <1>3, SortKeeps
<1>4. CASE Reset
  BY <1>4, ResetKeeps
<1>5. CASE UNCHANGED vars
  <2>1. heap' = heap /\ m_pc' = m_pc /\ m_fight' = m_fight /\ m_death' = m_death /\ said' = said
    BY <1>5 DEF vars
  <2> QED BY <2>1 DEF SInv
<1> QED BY <1>1, <1>2, <1>3, <1>4, <1>5 DEF Next

(* It says that every block has one owner. *)
LEMMA SInvOwned == SInv => OwnedOnce
<1> SUFFICES ASSUME SInv PROVE OwnedOnce
  OBVIOUS
<1> DEFINE owners == Owners(heap, m_pc, m_fight)
           Blk(o) == BlockOf(heap, m_pc, m_fight, m_death, o)
           own == Own(heap, m_pc, m_fight, m_death)
<1>1. Once(own, DOMAIN heap.live)
  BY DEF SInv, WF
<1>2. DOMAIN own = owners /\ \A o \in owners : own[o] = Blk(o)
  BY DEF Own
<1> HIDE DEF own, owners, Blk
<1>3. {Blk(o) : o \in owners} \ {Null} = DOMAIN heap.live
  <2>1. \A b : b \in DOMAIN heap.live <=> (b # Null /\ \E o \in owners : Blk(o) = b)
    BY <1>1, <1>2 DEF Once
  <2> QED BY <2>1
<1>4. \A o, q \in owners : Blk(o) = Blk(q) /\ Blk(o) # Null => o = q
  BY <1>1, <1>2 DEF Once
<1> QED BY <1>3, <1>4 DEF OwnedOnce, owners, Blk

(* What is stored of a source, a target and a verb is what is found of them. *)
LEMMA FoundIs ==
  ASSUME WF(heap, m_pc, m_fight, m_death), NEW source, NEW target, NEW verb
  PROVE  LET key == <<source, target, verb>>
             found == HitsStored(source, target, verb)
         IN  /\ \A n : Stored(heap, m_pc, m_fight, key, n) => found = n
             /\ (\A n : ~Stored(heap, m_pc, m_fight, key, n)) => found = 0
<1> DEFINE key == <<source, target, verb>>
           found == HitsStored(source, target, verb)
           s == PCIndex(heap, m_pc, source)
           t == PCIndex(heap, m_pc, target)
           pos == FightAt(heap, m_fight, s, t)
           byVerbs == Elements(heap, m_fight)[pos].m_byVerb
           at == ByVerbAt(heap, byVerbs, verb)
<1>1. PcOK(heap, m_pc) /\ FtOK(heap, m_pc.size, m_fight) /\ ArrayOK(heap, m_fight)
      /\ \A i \in 1..m_fight.size : FightOK(heap, m_pc.size, Cell(heap, m_fight, i))
  BY DEF WF, FtOK
<1>2. \A i \in 1..m_fight.size : VerbsOK(heap, Verbs(heap, m_fight, i)) /\ ArrayOK(heap, Verbs(heap, m_fight, i))
  BY <1>1 DEF FightOK, Verbs, VerbsOK
<1>3. found = IF pos = 0 THEN 0 ELSE IF at = 0 THEN 0 ELSE Elements(heap, byVerbs)[at].hits
  BY DEF HitsStored
<1>4. \A i \in 1..m_fight.size : Elements(heap, m_fight)[i].m_byVerb = Verbs(heap, m_fight, i)
  <2>1. Elements(heap, m_fight) = [i \in 1..m_fight.size |-> Cell(heap, m_fight, i)]
    BY <1>1, ElementsAre
  <2> QED BY <2>1 DEF Verbs
<1>5. \A i \in 1..m_fight.size : \A j \in 1..Verbs(heap, m_fight, i).size :
         Elements(heap, Verbs(heap, m_fight, i))[j].hits = Hits(heap, m_fight, i, j)
  <2> TAKE i \in 1..m_fight.size
  <2> TAKE j \in 1..Verbs(heap, m_fight, i).size
  <2>1. Elements(heap, Verbs(heap, m_fight, i)) = [k \in 1..Verbs(heap, m_fight, i).size |->
                                                     Cell(heap, Verbs(heap, m_fight, i), k)]
    BY <1>2, ElementsAre
  <2> QED BY <2>1 DEF Hits
<1> HIDE DEF found, s, t, pos, byVerbs, at
<1>6. ASSUME NEW n, Stored(heap, m_pc, m_fight, key, n) PROVE found = n
  <2>1. PICK i \in 1..m_fight.size : \E j \in 1..Verbs(heap, m_fight, i).size :
                Key(heap, m_pc, m_fight, i, j) = key /\ Hits(heap, m_fight, i, j) = n
    BY <1>6 DEF Stored
  <2>2. PICK j \in 1..Verbs(heap, m_fight, i).size :
                Key(heap, m_pc, m_fight, i, j) = key /\ Hits(heap, m_fight, i, j) = n
    BY <2>1
  <2>3. /\ NameAt(heap, m_pc, Cell(heap, m_fight, i).sourceId) = source
        /\ NameAt(heap, m_pc, Cell(heap, m_fight, i).targetId) = target
        /\ VerbAt(heap, Verbs(heap, m_fight, i), j) = verb
    BY <2>2 DEF Key
  <2>4. Cell(heap, m_fight, i).sourceId \in 1..m_pc.size /\ Cell(heap, m_fight, i).targetId \in 1..m_pc.size
    BY <1>1 DEF FightOK
  <2>5. s = Cell(heap, m_fight, i).sourceId /\ t = Cell(heap, m_fight, i).targetId
    BY <2>3, <2>4, <1>1, PCIndexIs DEF s, t
  <2>6. pos = i
    BY <2>5, <1>1, FightAtIs DEF pos, IsFight
  <2>7. byVerbs = Verbs(heap, m_fight, i)
    BY <2>6, <1>4 DEF byVerbs
  <2>8. at = j
    BY <2>3, <2>7, <1>2, ByVerbAtIs DEF at
  <2>9. pos # 0 /\ at # 0
    BY <2>6, <2>8
  <2> QED BY <1>3, <1>5, <2>2, <2>7, <2>8, <2>9
<1>7. ASSUME \A n : ~Stored(heap, m_pc, m_fight, key, n) PROVE found = 0
  <2> SUFFICES ASSUME pos # 0, at # 0 PROVE FALSE
    BY <1>3
  <2>1. pos \in 1..m_fight.size /\ IsFight(heap, m_fight, pos, s, t)
    <3>1. FightAt(heap, m_fight, s, t) \in 0..m_fight.size
          /\ (FightAt(heap, m_fight, s, t) # 0 => IsFight(heap, m_fight, FightAt(heap, m_fight, s, t), s, t))
      BY <1>1, FightAtIs
    <3>2. m_fight.size \in Nat
      BY <1>1 DEF ArrayOK
    <3> QED BY <3>1, <3>2 DEF pos
  <2>2. Cell(heap, m_fight, pos).sourceId = s /\ Cell(heap, m_fight, pos).targetId = t
    BY <2>1 DEF IsFight
  <2>3. s \in 1..m_pc.size /\ t \in 1..m_pc.size
    BY <2>1, <2>2, <1>1 DEF FightOK
  <2>4. s # 0 /\ t # 0
    BY <2>3
  <2>5. NameAt(heap, m_pc, s) = source /\ NameAt(heap, m_pc, t) = target
    BY <2>4, <1>1, PCIndexIs DEF s, t
  <2>6. byVerbs = Verbs(heap, m_fight, pos) /\ VerbsOK(heap, byVerbs) /\ byVerbs.size \in Nat
    BY <2>1, <1>2, <1>4 DEF byVerbs, ArrayOK
  <2>7. at \in 1..byVerbs.size /\ VerbAt(heap, byVerbs, at) = verb
    BY <2>6, ByVerbAtIs DEF at
  <2>8. Key(heap, m_pc, m_fight, pos, at) = key
    BY <2>2, <2>5, <2>6, <2>7 DEF Key
  <2> QED BY <1>7, <2>1, <2>6, <2>7, <2>8 DEF Stored
<1> QED BY <1>6, <1>7 DEF key, found

(* And that what was said is found. *)
LEMMA SInvReadBack == SInv => ReadBack
<1> SUFFICES ASSUME SInv PROVE ReadBack
  OBVIOUS
<1>1. /\ WF(heap, m_pc, m_fight, m_death) /\ Told(heap, m_pc, m_fight, said.hits)
      /\ ToldDeaths(heap, m_pc, m_death, said.deaths)
  BY DEF SInv
<1>2. ~heap.fault
  BY <1>1 DEF WF, HeapOK
<1>3. \A source, target \in Name, verb \in Verb :
         HitsStored(source, target, verb) = said.hits[<<source, target, verb>>]
  <2> TAKE source, target \in Name, verb \in Verb
  <2> DEFINE key == <<source, target, verb>>
             found == HitsStored(source, target, verb)
  <2>1. /\ \A n : Stored(heap, m_pc, m_fight, key, n) => found = n
        /\ (\A n : ~Stored(heap, m_pc, m_fight, key, n)) => found = 0
    BY <1>1, FoundIs
  <2>2. key \in Keys
    BY DEF Keys
  <2> HIDE DEF key, found
  <2>3. ASSUME said.hits[key] # 0 PROVE found = said.hits[key]
    BY <2>1, <2>2, <2>3, <1>1 DEF Told
  <2>4. ASSUME said.hits[key] = 0 PROVE found = said.hits[key]
    BY <2>1, <2>2, <2>4, <1>1 DEF Told
  <2>5. found = said.hits[key]
    BY <2>3, <2>4
  <2> QED BY <2>5 DEF key, found
<1>4. [i \in 1..m_death.size |-> LET d == Elements(heap, m_death)[i]
                                 IN  <<NameOf(d.sourceId), NameOf(d.targetId)>>] = said.deaths
  <2>1. DtOK(heap, m_pc.size, m_death) /\ ArrayOK(heap, m_death) /\ ArrayOK(heap, m_pc)
    BY <1>1 DEF WF, DtOK, PcOK
  <2>2. \A i \in 1..m_pc.size : NameOf(i) = NameAt(heap, m_pc, i)
    BY <2>1, ElementsAre DEF NameOf, NameAt
  <2>3. \A i \in 1..m_death.size : Elements(heap, m_death)[i] = Cell(heap, m_death, i)
    BY <2>1, ElementsAre
  <2>4. \A i \in 1..m_death.size :
           <<NameOf(Elements(heap, m_death)[i].sourceId), NameOf(Elements(heap, m_death)[i].targetId)>>
             = Dead(heap, m_pc, m_death, i)
    BY <2>1, <2>2, <2>3 DEF DtOK, Dead
  <2> QED BY <2>4, <1>1 DEF ToldDeaths
<1> QED BY <1>2, <1>3, <1>4 DEF ReadBack

(* Every state of the battle is in order. *)
LEMMA SAlways == Spec => []SInv
BY SInitially, SInductive, PTL DEF Spec

(* Array_push, Array_resize and Array_clear of array.c, and the destructors
   of battle.c, neither lose a block nor give it two owners: the blocks in
   use are those of the arrays, their texts and the arrays in them, each
   once, however often the arrays grew, moved and were reset. *)
THEOREM BlocksOwnedOnce == Spec => []OwnedOnce
BY SAlways, SInvOwned, PTL

(* What Battle_melee and Battle_death stored since the last Battle_reset is
   found again by the searches of battle.c, with the count that was said,
   and no pointer that Array_at gave out was used after the array moved. *)
THEOREM StoredReadBack == Spec => []ReadBack
BY SAlways, SInvReadBack, PTL
=============================================================================
