------------------------------ MODULE Storage -------------------------------
(***************************************************************************)
(* The arrays of struct Battle (src/dps/battle.c) in memory, with          *)
(* --by-verb: m_pc of Strings, m_fight of fights with an array m_byVerb of *)
(* their own, and m_death.  Of the counters of a fight and verb there is   *)
(* one, of the hits.  The operations follow battle.c pointer by pointer.   *)
(***************************************************************************)
EXTENDS Array

CONSTANTS Name, Verb,
          MaxLines     \* bound on the lines of the log
ASSUME StorageAssumption == MaxLines \in Nat

VARIABLES
  heap, m_pc, m_fight, m_death,
  lines,   \* how many lines came
  said     \* history: the hits since the reset, by source, target and verb,
           \* and the deaths

vars == <<heap, m_pc, m_fight, m_death, lines, said>>

NoneSaid == [hits |-> [h \in Name \X Name \X Verb |-> 0], deaths |-> << >>]

(* What the elements own: the text of a String, that of a ByVerb, and the  *)
(* array of a fight.                                                       *)
StringDtor(h, string) == Free(h, string.data)
ByVerbDtor(h, byVerb) == StringDtor(h, byVerb.m_verb)
FightForgets(h, fight) == h
FightDtor(h, fight)   == Clear(h, fight.m_byVerb, ByVerbDtor).heap
NoDtor(h, death)      == h

Text(h, string) == h.live[string.data][1]
(* String_ctorCopyString. *)
Copy(h, text) == [heap |-> Malloc(h, <<text>>), string |-> [data |-> h.next]]
-----------------------------------------------------------------------------
(* The loops that look for an element leave at the first; 0 is none. *)
FirstOf(positions) == IF positions = {} THEN 0 ELSE Min(positions)

(* Battle_getPCIndex: the copy of a new name moves into the array. *)
PCIndex(h, pcs, name) ==
  FirstOf({i \in 1..pcs.size : Text(h, Elements(h, pcs)[i]) = name})
Intern(h, pcs, name) ==
  LET saveme == Copy(h, name)
  IN  IF PCIndex(h, pcs, name) # 0 THEN Result(h, pcs)
      ELSE Push(saveme.heap, pcs, saveme.string, StringDtor)
Intern2(h, pcs, source, target) ==
  LET r == Intern(h, pcs, source) IN Intern(r.heap, r.array, target)

(* Battle_getFightIndex: a push, and only then the pointer. *)
FightAt(h, fights, s, t) ==
  FirstOf({i \in 1..fights.size : LET f == Elements(h, fights)[i]
                                  IN  f.sourceId = s /\ f.targetId = t})
PointedBeforePush(before, after) == [block |-> before.data, pos |-> after.size]
PointedAfterPush(before, after)  == At(after, after.size)
GetFight(h, fights, s, t) ==
  LET pos    == FightAt(h, fights, s, t)
      fight  == [sourceId |-> s, targetId |-> t, m_byVerb |-> NoArray]
      pushed == Push(h, fights, fight, FightDtor)
  IN  IF pos # 0 THEN [heap |-> h, array |-> fights, pointer |-> At(fights, pos)]
      ELSE [heap |-> pushed.heap, array |-> pushed.array,
            pointer |-> PointedAfterPush(fights, pushed.array)]

ByVerbAt(h, byVerbs, verb) ==
  FirstOf({i \in 1..byVerbs.size : Text(h, Elements(h, byVerbs)[i].m_verb) = verb})

(* Fight_getMeleeDamage through a pointer to the fight, and the count in   *)
(* what it returns, a pointer into m_byVerb.                               *)
CountHit(h, fight, verb) ==
  LET this   == Read(h, fight)
      pos    == ByVerbAt(h, this.m_byVerb, verb)
      copy   == Copy(h, verb)
      pushed == IF pos # 0 THEN Result(h, this.m_byVerb)
                ELSE Push(copy.heap, this.m_byVerb,
                          [m_verb |-> copy.string, hits |-> 0], ByVerbDtor)
      stored == Write(pushed.heap, fight, [this EXCEPT !.m_byVerb = pushed.array])
      melee  == IF pos # 0 THEN At(pushed.array, pos)
                ELSE At(pushed.array, pushed.array.size)
  IN  Write(stored, melee, [Read(stored, melee) EXCEPT !.hits = @ + 1])
-----------------------------------------------------------------------------
Init == /\ heap = EmptyHeap
        /\ m_pc = NoArray /\ m_fight = NoArray /\ m_death = NoArray
        /\ lines = 0
        /\ said = NoneSaid

NextLine == lines < MaxLines /\ ~heap.fault /\ lines' = lines + 1

(* Battle_melee, Battle_miss: once for the names, once for the fight. *)
Melee(source, target, verb) ==
  LET pc    == Intern2(heap, m_pc, source, target)
      fight == GetFight(pc.heap, m_fight, PCIndex(pc.heap, pc.array, source),
                        PCIndex(pc.heap, pc.array, target))
  IN  /\ NextLine
      /\ m_pc' = pc.array
      /\ m_fight' = fight.array
      /\ heap' = IF Valid(fight.heap, fight.pointer)
                 THEN CountHit(fight.heap, fight.pointer, verb)
                 ELSE [fight.heap EXCEPT !.fault = TRUE]
      /\ said' = [said EXCEPT !.hits[<<source, target, verb>>] = @ + 1]
      /\ UNCHANGED m_death
Death(source, target) ==
  LET pc    == Intern2(heap, m_pc, source, target)
      death == Push(pc.heap, m_death, [sourceId |-> PCIndex(pc.heap, pc.array, source),
                                       targetId |-> PCIndex(pc.heap, pc.array, target)],
                    NoDtor)
  IN  /\ NextLine
      /\ heap' = death.heap
      /\ m_pc' = pc.array
      /\ m_death' = death.array
      /\ said' = [said EXCEPT !.deaths = Append(@, <<source, target>>)]
      /\ UNCHANGED m_fight

(* Battle_report sorts; which neighbours it swaps, the damage decides. *)
Sort == /\ m_fight.size >= 2 /\ ~heap.fault
        /\ \E l \in 1..(m_fight.size - 1) : heap' = Swap(heap, m_fight, l, l + 1)
        /\ UNCHANGED <<m_pc, m_fight, m_death, lines, said>>
(* Battle_reset. *)
Reset == LET pc    == Clear(heap, m_pc, StringDtor)
             fight == Clear(pc.heap, m_fight, FightDtor)
             death == Clear(fight.heap, m_death, NoDtor)
         IN  /\ m_pc # NoArray /\ ~heap.fault
             /\ heap' = death.heap
             /\ m_pc' = pc.array /\ m_fight' = fight.array /\ m_death' = death.array
             /\ said' = NoneSaid
             /\ UNCHANGED lines

Next == \/ \E source, target \in Name, verb \in Verb : Melee(source, target, verb)
        \/ \E source, target \in Name : Death(source, target)
        \/ Sort
        \/ Reset
Spec == Init /\ [][Next]_vars
-----------------------------------------------------------------------------
(* Who owns a block: the three arrays, the Strings of m_pc, and of each     *)
(* fight its array and the Strings in that.                                *)
Owners(h, pcs, fights) ==
  {<<"pc", 0, 0>>, <<"fight", 0, 0>>, <<"death", 0, 0>>}
    \union {<<"string", i, 0>> : i \in 1..pcs.size}
    \union {<<"byVerb", i, 0>> : i \in 1..fights.size}
    \union UNION {{<<"verb", i, j>> : j \in 1..Elements(h, fights)[i].m_byVerb.size} :
                    i \in 1..fights.size}
BlockOf(h, pcs, fights, deaths, owner) ==
  LET byVerb == Elements(h, fights)[owner[2]].m_byVerb
  IN  CASE owner[1] = "pc"     -> pcs.data
        [] owner[1] = "fight"  -> fights.data
        [] owner[1] = "death"  -> deaths.data
        [] owner[1] = "string" -> Elements(h, pcs)[owner[2]].data
        [] owner[1] = "byVerb" -> byVerb.data
        [] owner[1] = "verb"   -> Elements(h, byVerb)[owner[3]].m_verb.data

(* No block is lost and none has two owners: the blocks in use are those    *)
(* that the three arrays own, directly or through their elements, each     *)
(* once.  A second owner would free what the first still uses.             *)
OwnedOnce ==
  LET owners == Owners(heap, m_pc, m_fight)
      Block(owner) == BlockOf(heap, m_pc, m_fight, m_death, owner)
  IN  /\ {Block(o) : o \in owners} \ {Null} = DOMAIN heap.live
      /\ \A o, p \in owners : Block(o) = Block(p) /\ Block(o) # Null => o = p

(* What was said since the reset can be read back, and no pointer was used  *)
(* after the storage behind it had moved or was freed (Array_push moves it, *)
(* getFightIndex and getMeleeDamage hand out pointers into it).             *)
HitsStored(source, target, verb) ==
  LET pos == FightAt(heap, m_fight, PCIndex(heap, m_pc, source), PCIndex(heap, m_pc, target))
      byVerbs == Elements(heap, m_fight)[pos].m_byVerb
      at  == ByVerbAt(heap, byVerbs, verb)
  IN  IF pos = 0 THEN 0 ELSE IF at = 0 THEN 0 ELSE Elements(heap, byVerbs)[at].hits
NameOf(id) == Text(heap, Elements(heap, m_pc)[id])
ReadBack ==
  /\ ~heap.fault
  /\ \A source, target \in Name, verb \in Verb :
       HitsStored(source, target, verb) = said.hits[<<source, target, verb>>]
  /\ [i \in 1..m_death.size |-> LET d == Elements(heap, m_death)[i]
                                IN  <<NameOf(d.sourceId), NameOf(d.targetId)>>]
       = said.deaths
=============================================================================
