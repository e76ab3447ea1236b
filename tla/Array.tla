------------------------------- MODULE Array --------------------------------
(***************************************************************************)
(* struct Array of src/dps/array.c on a heap that never uses an address    *)
(* twice, so that one that has been freed can be told.  A block is a       *)
(* sequence of elements; an array is its block, its size and its capacity. *)
(* What frees what an element owns, datum_dtor, is a parameter.            *)
(***************************************************************************)
EXTENDS Integers, SequencesExt

CONSTANTS First,        \* 16, the capacity of the first push
          Half, Large   \* 512 and 1024: doubling ends, and the step from there
ASSUME ArrayAssumption ==
  /\ {First, Half, Large} \subseteq Nat \ {0}
  /\ First <= Large /\ Half < Large /\ Large <= 2 * Half

Null == 0
Zero == "zero"          \* an element of memory set to zero
EmptyHeap == [live |-> << >>, next |-> 1, fault |-> FALSE]
NoArray   == [data |-> Null, size |-> 0, capacity |-> 0]

nextCapacity(c) == IF c = 0 THEN First
                   ELSE IF c >= Large THEN c + Large
                   ELSE IF c > Half THEN Large
                   ELSE c + c
-----------------------------------------------------------------------------
(* malloc, at h.next; free, of a block that is there. *)
Malloc(h, block) ==
  [h EXCEPT !.live = [a \in DOMAIN h.live \union {h.next} |->
                        IF a = h.next THEN block ELSE h.live[a]],
            !.next = h.next + 1]
Free(h, address) ==
  IF address = Null THEN h
  ELSE [h EXCEPT !.live  = Restrict(h.live, DOMAIN h.live \ {address}),
                 !.fault = h.fault \/ address \notin DOMAIN h.live]

(* A pointer to an element. *)
NoPointer == [block |-> Null, pos |-> 0]
Valid(h, p) == p.block \in DOMAIN h.live /\ p.pos \in DOMAIN h.live[p.block]
Read(h, p)  == h.live[p.block][p.pos]
Write(h, p, e) ==
  LET block   == h.live[p.block]
      written == [pos \in DOMAIN block |-> IF pos = p.pos THEN e ELSE block[pos]]
  IN  IF Valid(h, p) THEN [h EXCEPT !.live[p.block] = written]
      ELSE [h EXCEPT !.fault = TRUE]
-----------------------------------------------------------------------------
(* Each operation gives the heap and the array it leaves. *)
Result(h, a) == [heap |-> h, array |-> a]

At(a, pos) == IF pos > a.size THEN NoPointer ELSE [block |-> a.data, pos |-> pos]
Elements(h, a) == IF a.data = Null THEN << >> ELSE SubSeq(h.live[a.data], 1, a.size)

(* The branches of Array_resize: the first allocation, the end of the       *)
(* array, and realloc, which moves the block.                               *)
Allocated(h, a, capacity) ==
  Result(Malloc(h, [i \in 1..capacity |-> Zero]),
         [a EXCEPT !.data = h.next, !.capacity = capacity])
Freed(h, a) == Result(Free(h, a.data), NoArray)
Reallocated(h, a, capacity) ==
  Result(Free(Malloc(h, [i \in 1..capacity |->
                           IF i <= a.capacity THEN h.live[a.data][i] ELSE Zero]), a.data),
         [data |-> h.next, size |-> Min({a.size, capacity}), capacity |-> capacity])

(* What is about to be kicked out, and destroyed before. *)
Kicked(h, a, capacity) == SubSeq(Elements(h, a), capacity + 1, a.size)
Resize(h, a, capacity, DatumDtor(_, _)) ==
  LET destroyed == FoldLeft(DatumDtor, h, Kicked(h, a, capacity))
  IN  IF a.data = Null /\ capacity > 0 THEN Allocated(h, a, capacity)
      ELSE IF capacity = 0 THEN Freed(destroyed, a)
      ELSE Reallocated(destroyed, a, capacity)
Clear(h, a, DatumDtor(_, _)) == Resize(h, a, 0, DatumDtor)

(* The new element is written behind the last, without a look at the       *)
(* capacity, which Push has raised if need be.                             *)
PutBehind(h, a, e) ==
  Result(Write(h, [block |-> a.data, pos |-> a.size + 1], e), [a EXCEPT !.size = @ + 1])
Push(h, a, e, DatumDtor(_, _)) ==
  LET r == IF a.size = a.capacity THEN Resize(h, a, nextCapacity(a.capacity), DatumDtor)
           ELSE Result(h, a)
  IN  PutBehind(r.heap, r.array, e)

Swap(h, a, l, r) ==
  Write(Write(h, At(a, l), Read(h, At(a, r))), At(a, r), Read(h, At(a, l)))
=============================================================================
