----------------------------- MODULE DpsProofs ------------------------------
(***************************************************************************)
(* Theorems about Dps for every log, every set of names and every          *)
(* configuration.  They rest on what the searches of battle.c return       *)
(* (PositionOf, FightPosition) and on what each handler does to a battle   *)
(* whose ids are in order (GoodBattle).  Then dates: a battle lies in its  *)
(* window, if the dates of the log do not step back.                       *)
(*                                                                         *)
(* The second part is about what Dps counts.  First the finishing blows:   *)
(* the deaths that are marked and the blow that waits for its death were   *)
(* all paid for by a line.  Then the fights: nothing is lost between the   *)
(* verbs, the classes of hits, magic and the fights, a spell never         *)
(* outweighs its fight, and every special hit was announced.  Last what is *)
(* made of it: the fights of a battle, the sorted and printed ones too,    *)
(* are accounts by pairs of names, and Dps implements BattleLedger; and    *)
(* the passes of the sort leave the rows of every name in falling damage   *)
(* per second.  All of it is inductive with the types, ids and dates of    *)
(* the first part.                                                         *)
(*                                                                         *)
(* The third part is about the port: the ids and dates of DpsPP are in     *)
(* order too, the rows it prints are the account of its fights, and with   *)
(* every line that Dps is told it implements BattleLedger as well.         *)
(***************************************************************************)
EXTENDS DpsPair, Functions, FiniteSetTheorems, WellFoundedInduction, SequenceTheorems, TLAPS

(* Ids in order, said of a battle rather than of the variable. *)
Interned(pc) == /\ \A i, j \in 1..Len(pc) : pc[i] = pc[j] => i = j
                /\ \A i \in 1..Len(pc) : IsMe(pc[i]) => pc[i] = Me
FightsOver(fights, n) ==
  /\ fights \in Seq(Fight)
  /\ \A i \in 1..Len(fights) : fights[i].sourceId \in 1..n /\ fights[i].targetId \in 1..n
  /\ \A i, j \in 1..Len(fights) :
       /\ fights[i].sourceId = fights[j].sourceId
       /\ fights[i].targetId = fights[j].targetId
       => i = j
DeathsOver(deaths, n) ==
  /\ deaths \in Seq(Death)
  /\ \A i \in 1..Len(deaths) : deaths[i].sourceId \in 0..n /\ deaths[i].targetId \in 1..n
GoodBattle(b) ==
  /\ b \in BattleState
  /\ Interned(b.m_pc)
  /\ FightsOver(b.m_fight, Len(b.m_pc))
  /\ DeathsOver(b.m_death, Len(b.m_pc))
  /\ b.m_lastFinishingBlow \in 0..Len(b.m_pc)
-----------------------------------------------------------------------------
(* The first index at which something holds exists, by the well-foundedness *)
(* of strict inclusion among the intervals 1..i.                            *)
LEMMA LeastIndex ==
  ASSUME NEW n \in Nat, NEW T \in SUBSET (1..n), T # {}
  PROVE  \E x \in T : \A y \in T : x <= y
<1> DEFINE R == StrictSubsetOrdering(1..n)
           D == FiniteSubsetsOf(1..n)
           W == {1..i : i \in T}
<1>1. IsWellFoundedOn(R, D)
  BY FS_StrictSubsetOrderingWellFounded
<1>2. W \subseteq D /\ W # {}
  <2>1. \A i \in T : IsFiniteSet(1..i)
    BY FS_Interval
  <2>2. \A i \in T : 1..i \in SUBSET (1..n)
    OBVIOUS
  <2>3. W \subseteq D
    BY <2>1, <2>2 DEF FiniteSubsetsOf
  <2> QED BY <2>3
<1>3. \E x \in W : \A y \in W : <<y, x>> \notin R
  <2> HIDE DEF R, D, W
  <2> QED BY <1>1, <1>2, WFMin
<1>4. PICK i \in T : \A j \in T : <<1..j, 1..i>> \notin R
  BY <1>3
<1>5. ASSUME NEW j \in T, j < i
      PROVE  <<1..j, 1..i>> \in R
  <2>1. i \in 1..i /\ i \notin 1..j
    BY <1>5
  <2>2. 1..j \subseteq 1..i /\ 1..j # 1..i
    BY <1>5, <2>1
  <2> QED BY <2>2 DEF StrictSubsetOrdering
<1>6. \A j \in T : i <= j
  <2>1. \A j \in T : ~(j < i)
    BY <1>4, <1>5, Zenon
  <2> QED BY <2>1
<1> QED BY <1>6

(* The search of Battle_getPCIndex finds a name that is there. *)
LEMMA PositionOfFinds ==
  ASSUME NEW pc \in Seq(Name), NEW n
  PROVE  /\ PositionOf(pc, n) \in 0..Len(pc)
         /\ PositionOf(pc, n) # NoId => pc[PositionOf(pc, n)] = n
         /\ (\E i \in 1..Len(pc) : pc[i] = n) => PositionOf(pc, n) # NoId
<1>1. CASE \E i \in 1..Len(pc) : pc[i] = n
  <2> DEFINE T == {i \in 1..Len(pc) : pc[i] = n}
             First(i) == pc[i] = n /\ \A j \in 1..(i-1) : pc[j] # n
  <2>1. PICK x \in T : \A y \in T : x <= y
    <3>1. T \in SUBSET (1..Len(pc)) /\ T # {} /\ Len(pc) \in Nat
      BY <1>1
    <3> HIDE DEF T
    <3> QED BY <3>1, LeastIndex
  <2>2. x \in 1..Len(pc) /\ First(x)
    BY <2>1
  <2>3. PositionOf(pc, n) = CHOOSE i \in 1..Len(pc) : First(i)
    BY <1>1 DEF PositionOf
  <2>4. PositionOf(pc, n) \in 1..Len(pc) /\ First(PositionOf(pc, n))
    <3> HIDE DEF First
    <3> QED BY <2>2, <2>3
  <2> QED BY <2>4 DEF NoId
<1>2. CASE ~ \E i \in 1..Len(pc) : pc[i] = n
  BY <1>2 DEF PositionOf, NoId
<1> QED BY <1>1, <1>2

(* The search of Battle_getFightIndex finds a fight that is there. *)
LEMMA FightPositionFinds ==
  ASSUME NEW fights \in Seq(Fight), NEW s, NEW t
  PROVE  LET p == FightPosition(fights, s, t)
         IN  /\ p \in 0..Len(fights)
             /\ p # NoId => fights[p].sourceId = s /\ fights[p].targetId = t
             /\ (\E i \in 1..Len(fights) : fights[i].sourceId = s /\ fights[i].targetId = t)
                  => p # NoId
<1> DEFINE Is(i) == fights[i].sourceId = s /\ fights[i].targetId = t
<1>1. CASE \E i \in 1..Len(fights) : Is(i)
  <2> DEFINE T == {i \in 1..Len(fights) : Is(i)}
             First(i) == /\ fights[i].sourceId = s /\ fights[i].targetId = t
                         /\ \A j \in 1..(i-1) :
                              ~(fights[j].sourceId = s /\ fights[j].targetId = t)
  <2>1. PICK x \in T : \A y \in T : x <= y
    <3>1. T \in SUBSET (1..Len(fights)) /\ T # {} /\ Len(fights) \in Nat
      BY <1>1
    <3> HIDE DEF T
    <3> QED BY <3>1, LeastIndex
  <2>2. x \in 1..Len(fights) /\ First(x)
    BY <2>1
  <2>3. FightPosition(fights, s, t) = CHOOSE i \in 1..Len(fights) : First(i)
    BY <1>1 DEF FightPosition
  <2>4. FightPosition(fights, s, t) \in 1..Len(fights) /\ First(FightPosition(fights, s, t))
    <3> HIDE DEF First
    <3> QED BY <2>2, <2>3
  <2> QED BY <2>4 DEF NoId
<1>2. CASE ~ \E i \in 1..Len(fights) : Is(i)
  BY <1>2 DEF FightPosition, NoId
<1> QED BY <1>1, <1>2
-----------------------------------------------------------------------------
(* What is interned stays at its place, and what is asked for gets one. *)
LEMMA InternKeeps ==
  ASSUME NEW pc \in Seq(Name), Interned(pc), NEW n \in Name \union {NoName}
  PROVE  /\ Intern(pc, n) \in Seq(Name)
         /\ Interned(Intern(pc, n))
         /\ Len(pc) <= Len(Intern(pc, n))
         /\ \A i \in 1..Len(pc) : Intern(pc, n)[i] = pc[i]
         /\ n \in Name => \E i \in 1..Len(Intern(pc, n)) : Intern(pc, n)[i] = Canonical(n)
<1> DEFINE c  == Canonical(n)
           pn == Append(pc, c)
<1>1. CASE n = NoName
  BY <1>1, NamesAssumption DEF Intern
<1>2. CASE n # NoName /\ PCIndex(pc, n) # NoId
  <2>1. PositionOf(pc, c) \in 1..Len(pc) /\ pc[PositionOf(pc, c)] = c
    BY <1>2, PositionOfFinds DEF PCIndex, NoId
  <2> QED BY <1>2, <2>1 DEF Intern
<1>3. CASE n # NoName /\ PCIndex(pc, n) = NoId
  <2>1. c \in Name /\ (IsMe(c) => c = Me)
    BY <1>3, NamesAssumption DEF Canonical, IsMe
  <2>2. \A i \in 1..Len(pc) : pc[i] # c
    BY <1>3, PositionOfFinds DEF PCIndex
  <2>3. Intern(pc, n) = pn
    BY <1>3 DEF Intern
  <2>4. /\ pn \in Seq(Name) /\ Len(pn) = Len(pc) + 1
        /\ \A i \in 1..Len(pc) : pn[i] = pc[i]
        /\ pn[Len(pc) + 1] = c
    BY <2>1, AppendProperties
  <2>5. Interned(pn)
    <3> HIDE DEF c, pn
    <3>1. ASSUME NEW i \in 1..Len(pn), NEW j \in 1..Len(pn), pn[i] = pn[j]
          PROVE  i = j
      BY <2>2, <2>4, <3>1 DEF Interned
    <3>2. ASSUME NEW i \in 1..Len(pn), IsMe(pn[i])
          PROVE  pn[i] = Me
      BY <2>1, <2>4, <3>2 DEF Interned
    <3> QED BY <3>1, <3>2 DEF Interned
  <2>6. Len(pc) + 1 \in 1..Len(pn)
    BY <2>4
  <2> HIDE DEF pn
  <2> QED BY <2>3, <2>4, <2>5, <2>6
<1> QED BY <1>1, <1>2, <1>3

(* A longer m_pc still holds the ids of the fights. *)
LEMMA FightsOverMore ==
  ASSUME NEW fights, NEW n \in Nat, NEW m \in Nat, n <= m, FightsOver(fights, n)
  PROVE  FightsOver(fights, m)
BY DEF FightsOver

(* And those of the deaths. *)
LEMMA DeathsOverMore ==
  ASSUME NEW deaths, NEW n \in Nat, NEW m \in Nat, n <= m, DeathsOver(deaths, n)
  PROVE  DeathsOver(deaths, m)
BY DEF DeathsOver

(* Counters start typed. *)
LEMMA NewMeleeType == NewMelee \in MeleeDamage
BY DEF NewMelee, MeleeDamage

(* The fight asked for is found or pushed, and the fights stay indexed. *)
LEMMA GetFightFinds ==
  ASSUME NEW fights, NEW n \in Nat, FightsOver(fights, n),
         NEW s \in 1..n, NEW t \in 1..n, NEW now \in Int
  PROVE  LET g == GetFight(fights, now, s, t)
             p == FightPosition(g, s, t)
         IN  /\ FightsOver(g, n)
             /\ p \in 1..Len(g)
             /\ g[p].sourceId = s /\ g[p].targetId = t
<1> DEFINE g == GetFight(fights, now, s, t)
           f == NewFight(s, t, now)
<1>1. fights \in Seq(Fight)
  BY DEF FightsOver
<1>2. CASE FightPosition(fights, s, t) # NoId
  BY <1>1, <1>2, FightPositionFinds DEF GetFight, NoId
<1>3. CASE FightPosition(fights, s, t) = NoId
  <2>1. f \in Fight /\ f.sourceId = s /\ f.targetId = t
    BY NewMeleeType DEF NewFight, Fight
  <2>2. g = Append(fights, f)
    BY <1>3 DEF GetFight
  <2> HIDE DEF f, g
  <2>3. /\ g \in Seq(Fight) /\ Len(g) = Len(fights) + 1 /\ Len(fights) \in Nat
        /\ \A i \in 1..Len(fights) : g[i] = fights[i]
        /\ g[Len(fights) + 1] = f
    BY <1>1, <2>1, <2>2, AppendProperties
  <2>4. \A i \in 1..Len(fights) : ~(fights[i].sourceId = s /\ fights[i].targetId = t)
    BY <1>1, <1>3, FightPositionFinds
  <2>5. \A i \in 1..Len(g) : i \in 1..Len(fights) \/ i = Len(fights) + 1
    BY <2>3
  <2>6. \A i \in 1..Len(g) : g[i].sourceId \in 1..n /\ g[i].targetId \in 1..n
    BY <2>1, <2>3, <2>5 DEF FightsOver
  <2>7. ASSUME NEW i \in 1..Len(g), NEW j \in 1..Len(g),
               g[i].sourceId = g[j].sourceId, g[i].targetId = g[j].targetId
        PROVE  i = j
    BY <2>1, <2>3, <2>4, <2>5, <2>7 DEF FightsOver
  <2>8. FightsOver(g, n)
    BY <2>3, <2>6, <2>7 DEF FightsOver
  <2>9. Len(fights) + 1 \in 1..Len(g)
    BY <2>3
  <2>10. /\ FightPosition(g, s, t) \in 1..Len(g)
         /\ g[FightPosition(g, s, t)].sourceId = s
         /\ g[FightPosition(g, s, t)].targetId = t
    BY <2>1, <2>3, <2>9, FightPositionFinds DEF NoId
  <2> QED BY <2>8, <2>10 DEF g
<1> QED BY <1>2, <1>3

(* Counting in a fight does not disturb the others. *)
LEMMA UpdateFight ==
  ASSUME NEW fights, NEW n \in Nat, FightsOver(fights, n),
         NEW i \in 1..Len(fights), NEW f \in Fight,
         f.sourceId = fights[i].sourceId, f.targetId = fights[i].targetId
  PROVE  FightsOver([fights EXCEPT ![i] = f], n)
<1> DEFINE g == [fights EXCEPT ![i] = f]
<1>1. /\ g \in Seq(Fight) /\ Len(g) = Len(fights)
      /\ \A j \in 1..Len(fights) : g[j] = IF j = i THEN f ELSE fights[j]
  BY ExceptSeq DEF FightsOver
<1> HIDE DEF g
<1>2. \A j \in 1..Len(g) : /\ g[j].sourceId = fights[j].sourceId
                           /\ g[j].targetId = fights[j].targetId
  BY <1>1
<1>3. FightsOver(g, n)
  BY <1>1, <1>2 DEF FightsOver
<1> QED BY <1>3 DEF g
-----------------------------------------------------------------------------
(* What every handler does to the dates. *)
LEMMA KeepaliveType ==
  ASSUME NEW b \in BattleState, NEW now \in Int
  PROVE  LET k == Keepalive(b, now)
         IN  /\ k \in BattleState
             /\ k.m_pc = b.m_pc /\ k.m_fight = b.m_fight /\ k.m_death = b.m_death
             /\ k.m_totalHeals = b.m_totalHeals /\ k.m_last = b.m_last
             /\ k.m_lastFinishingBlow = b.m_lastFinishingBlow
<1> DEFINE expire == now + KeepAlive
           k == [b EXCEPT !.m_end = now, !.m_expire = expire]
<1>1. expire \in Int
  BY ConfigAssumption
<1>2. Keepalive(b, now) = k
  BY DEF Keepalive
<1> HIDE DEF expire
<1> QED BY <1>1, <1>2 DEF BattleState

(* Battle_start touches nothing but the dates. *)
LEMMA StartType ==
  ASSUME NEW b \in BattleState, NEW now \in Int
  PROVE  LET k == Start(b, now)
         IN  /\ k \in BattleState
             /\ k.m_pc = b.m_pc /\ k.m_fight = b.m_fight /\ k.m_death = b.m_death
             /\ k.m_totalHeals = b.m_totalHeals /\ k.m_last = b.m_last
             /\ k.m_lastFinishingBlow = b.m_lastFinishingBlow
<1> DEFINE c == [b EXCEPT !.m_start = now]
<1>1. /\ c \in BattleState
      /\ c.m_pc = b.m_pc /\ c.m_fight = b.m_fight /\ c.m_death = b.m_death
      /\ c.m_totalHeals = b.m_totalHeals /\ c.m_last = b.m_last
      /\ c.m_lastFinishingBlow = b.m_lastFinishingBlow
  BY DEF BattleState
<1>2. Start(b, now) = b \/ Start(b, now) = Keepalive(c, now)
  BY DEF Start
<1> HIDE DEF c
<1> QED BY <1>1, <1>2, KeepaliveType

(* Neither Battle_keepalive nor Battle_start disturbs the ids. *)
LEMMA KeepaliveGood ==
  ASSUME NEW b, GoodBattle(b), NEW now \in Int
  PROVE  GoodBattle(Keepalive(b, now))
<1>1. b \in BattleState
  BY DEF GoodBattle
<1> QED BY <1>1, KeepaliveType DEF GoodBattle

(* Starting a battle does not disturb the ids. *)
LEMMA StartGood ==
  ASSUME NEW b, GoodBattle(b), NEW now \in Int
  PROVE  GoodBattle(Start(b, now))
<1>1. b \in BattleState
  BY DEF GoodBattle
<1> QED BY <1>1, StartType DEF GoodBattle

(* Once both names are interned the ids of the line are ids of m_pc. *)
LEMMA EngageFinds ==
  ASSUME NEW b, GoodBattle(b), NEW now \in Int, NEW a \in Action
  PROVE  LET e == Engage(b, now, a)
         IN  /\ GoodBattle(e)
             /\ PCIndex(e.m_pc, a.source) \in 0..Len(e.m_pc)
             /\ a.source \in Name => PCIndex(e.m_pc, a.source) \in 1..Len(e.m_pc)
             /\ a.target \in Name => PCIndex(e.m_pc, a.target) \in 1..Len(e.m_pc)
<1> DEFINE e  == Engage(b, now, a)
           st == Start(b, now)
           p1 == Intern(b.m_pc, a.source)
           p2 == Intern(p1, a.target)
<1>1. /\ a.source \in Name \union {NoName}
      /\ a.target \in Name \union {NoName}
  BY DEF Action
<1>2. GoodBattle(st) /\ st.m_pc = b.m_pc
  BY StartGood, StartType DEF GoodBattle
<1>3. b.m_pc \in Seq(Name) /\ Interned(b.m_pc)
  BY DEF GoodBattle, BattleState
<1>4. /\ p1 \in Seq(Name) /\ Interned(p1) /\ Len(b.m_pc) <= Len(p1)
      /\ a.source \in Name => \E i \in 1..Len(p1) : p1[i] = Canonical(a.source)
  BY <1>1, <1>3, InternKeeps
<1>5. /\ p2 \in Seq(Name) /\ Interned(p2) /\ Len(p1) <= Len(p2)
      /\ \A i \in 1..Len(p1) : p2[i] = p1[i]
      /\ a.target \in Name => \E i \in 1..Len(p2) : p2[i] = Canonical(a.target)
  BY <1>1, <1>4, InternKeeps
<1>6. a.source \in Name => \E i \in 1..Len(p2) : p2[i] = Canonical(a.source)
  <2> HIDE DEF p1, p2
  <2> QED BY <1>4, <1>5
<1>7. e = [st EXCEPT !.m_pc = p2]
  BY <1>2 DEF Engage
<1> HIDE DEF e, st, p1, p2
<1>8. st \in BattleState
  BY <1>2 DEF GoodBattle
<1>9. /\ e \in BattleState /\ e.m_pc = p2
      /\ e.m_fight = st.m_fight /\ e.m_death = st.m_death
      /\ e.m_lastFinishingBlow = st.m_lastFinishingBlow
  BY <1>5, <1>7, <1>8 DEF BattleState
<1>10. Len(st.m_pc) \in Nat /\ Len(p2) \in Nat /\ Len(st.m_pc) <= Len(p2)
  BY <1>2, <1>3, <1>4, <1>5
<1>11. GoodBattle(e)
  <2>1. FightsOver(e.m_fight, Len(e.m_pc))
    BY <1>2, <1>9, <1>10, FightsOverMore DEF GoodBattle
  <2>2. DeathsOver(e.m_death, Len(e.m_pc))
    BY <1>2, <1>9, <1>10, DeathsOverMore DEF GoodBattle
  <2>3. e.m_lastFinishingBlow \in 0..Len(e.m_pc)
    BY <1>2, <1>9, <1>10 DEF GoodBattle
  <2> QED BY <2>1, <2>2, <2>3, <1>5, <1>9 DEF GoodBattle
<1>12. ASSUME NEW n \in Name \union {NoName},
              n \in Name => \E i \in 1..Len(p2) : p2[i] = Canonical(n)
       PROVE  /\ PCIndex(p2, n) \in 0..Len(p2)
              /\ n \in Name => PCIndex(p2, n) \in 1..Len(p2)
  <2>1. PositionOf(p2, Canonical(n)) \in 0..Len(p2)
    BY <1>5, PositionOfFinds
  <2>2. n \in Name => PositionOf(p2, Canonical(n)) # NoId
    BY <1>5, <1>12, PositionOfFinds
  <2>3. CASE n = NoName
    BY <2>3, <1>10, NamesAssumption DEF PCIndex, NoId
  <2>4. CASE n # NoName
    BY <2>1, <2>2, <2>4, <1>10 DEF PCIndex, NoId
  <2> QED BY <2>3, <2>4
<1> QED BY <1>1, <1>5, <1>6, <1>9, <1>11, <1>12 DEF e

(* The counters of one fight, after a hit or a swing that missed. *)
LEMMA SetCountersType ==
  ASSUME NEW f \in Fight, NEW verb \in Verb, NEW m \in MeleeDamage
  PROVE  /\ SetCounters(f, verb, m) \in Fight
         /\ SetCounters(f, verb, m).sourceId = f.sourceId
         /\ SetCounters(f, verb, m).targetId = f.targetId
BY DEF SetCounters, Fight

(* A hit keeps the pair of its fight. *)
LEMMA HitType ==
  ASSUME NEW f \in Fight, NEW now \in Int, NEW verb \in Verb,
         NEW class \in Class, NEW damage \in Nat
  PROVE  LET h == Hit(f, now, verb, class, damage)
         IN  h \in Fight /\ h.sourceId = f.sourceId /\ h.targetId = f.targetId
<1> DEFINE m == Counters(f, verb)
           c == [m EXCEPT !.hits[class] = @ + 1, !.damage[class] = @ + damage]
           g == [f EXCEPT !.end = now]
<1>1. m \in MeleeDamage
  BY DEF Counters, Fight
<1>2. c \in MeleeDamage
  <2> HIDE DEF m
  <2>1. m.hits[class] + 1 \in Nat /\ m.damage[class] + damage \in Nat
    BY <1>1 DEF MeleeDamage
  <2> QED BY <1>1, <2>1 DEF MeleeDamage
<1>3. g \in Fight /\ g.sourceId = f.sourceId /\ g.targetId = f.targetId
  BY DEF Fight
<1>4. Hit(f, now, verb, class, damage) = SetCounters(g, verb, c)
  BY DEF Hit
<1> HIDE DEF c, g
<1> QED BY <1>2, <1>3, <1>4, SetCountersType

(* So does a swing that did not hit. *)
LEMMA EvadeType ==
  ASSUME NEW f \in Fight, NEW now \in Int, NEW verb \in Verb, NEW evasion \in Evasion
  PROVE  LET h == Evade(f, now, verb, evasion)
         IN  h \in Fight /\ h.sourceId = f.sourceId /\ h.targetId = f.targetId
<1> DEFINE m == Counters(f, verb)
           c == [m EXCEPT !.evaded[evasion] = @ + 1]
           g == [f EXCEPT !.end = now]
<1>1. m \in MeleeDamage
  BY DEF Counters, Fight
<1>2. c \in MeleeDamage
  BY <1>1 DEF MeleeDamage
<1>3. g \in Fight /\ g.sourceId = f.sourceId /\ g.targetId = f.targetId
  BY DEF Fight
<1>4. Evade(f, now, verb, evasion) = SetCounters(g, verb, c)
  BY DEF Evade
<1> HIDE DEF c, g
<1> QED BY <1>2, <1>3, <1>4, SetCountersType

(* A hit is of one of the four classes. *)
LEMMA HitClassType ==
  ASSUME NEW last, NEW damage
  PROVE  HitClass(last, damage) \in Class
BY DEF HitClass, Class, Special

(* A battle with other fights, which are in order, is in order. *)
LEMMA WithFights ==
  ASSUME NEW b, GoodBattle(b), NEW fights, FightsOver(fights, Len(b.m_pc)),
         NEW last \in [Special -> Nat]
  PROVE  GoodBattle([b EXCEPT !.m_fight = fights, !.m_last = last])
<1> DEFINE c == [b EXCEPT !.m_fight = fights, !.m_last = last]
<1>1. /\ c \in BattleState /\ c.m_pc = b.m_pc /\ c.m_fight = fights
      /\ c.m_death = b.m_death /\ c.m_lastFinishingBlow = b.m_lastFinishingBlow
  BY DEF GoodBattle, BattleState, FightsOver
<1> HIDE DEF c
<1> QED BY <1>1 DEF GoodBattle, c
-----------------------------------------------------------------------------
(* What the handlers need of a good battle besides its ids. *)
LEMMA GoodParts ==
  ASSUME NEW b, GoodBattle(b)
  PROVE  /\ b \in BattleState
         /\ Len(b.m_pc) \in Nat
         /\ FightsOver(b.m_fight, Len(b.m_pc))
         /\ DeathsOver(b.m_death, Len(b.m_pc))
         /\ b.m_lastFinishingBlow \in 0..Len(b.m_pc)
         /\ b.m_last \in [Special -> Nat]
<1>1. /\ b \in BattleState
      /\ FightsOver(b.m_fight, Len(b.m_pc))
      /\ DeathsOver(b.m_death, Len(b.m_pc))
      /\ b.m_lastFinishingBlow \in 0..Len(b.m_pc)
  BY DEF GoodBattle
<1>2. b.m_pc \in Seq(Name) /\ b.m_last \in [Special -> Nat]
  BY <1>1 DEF BattleState
<1>3. Len(b.m_pc) \in Nat
  BY <1>2
<1> QED BY <1>1, <1>2, <1>3

(* A handler leaves a battle whose ids are in order, one lemma per handler. *)
LEMMA MeleeGood ==
  ASSUME NEW b, GoodBattle(b), NEW now \in Int, NEW a \in Action,
         a.source \in Name, a.target \in Name
  PROVE  GoodBattle(Melee(b, now, a))
<1> DEFINE e      == Engage(b, now, a)
           s      == PCIndex(e.m_pc, a.source)
           t      == PCIndex(e.m_pc, a.target)
           fights == GetFight(e.m_fight, now, s, t)
           i      == FightPosition(fights, s, t)
           class  == HitClass(e.m_last, a.damage)
           h      == Hit(fights[i], now, a.verb, class, a.damage)
           last   == [c \in Special |-> IF c = class THEN 0 ELSE e.m_last[c]]
           struck == [fights EXCEPT ![i] = h]
           c      == [e EXCEPT !.m_fight = struck, !.m_last = last]
<1>1. GoodBattle(e) /\ s \in 1..Len(e.m_pc) /\ t \in 1..Len(e.m_pc)
  BY EngageFinds
<1>2. CASE a.type = "MELEE" /\ a.damage >= FinishingDamage
  <2> DEFINE d == [e EXCEPT !.m_lastFinishingBlow = t]
  <2>1. Melee(b, now, a) = d
    BY <1>2 DEF Melee
  <2> HIDE DEF e, t
  <2>2. e \in BattleState /\ t \in Nat
    BY <1>1, GoodParts
  <2>3. /\ d \in BattleState /\ d.m_pc = e.m_pc /\ d.m_fight = e.m_fight
        /\ d.m_death = e.m_death /\ d.m_lastFinishingBlow = t
    BY <2>2 DEF BattleState
  <2> HIDE DEF d
  <2> QED BY <1>1, <2>1, <2>3 DEF GoodBattle
<1>3. CASE ~(a.type = "MELEE" /\ a.damage >= FinishingDamage)
  <2>1. Melee(b, now, a) = Keepalive(c, now)
    BY <1>3 DEF Melee
  <2> HIDE DEF e, s, t
  <2>2. Len(e.m_pc) \in Nat /\ FightsOver(e.m_fight, Len(e.m_pc))
        /\ e.m_last \in [Special -> Nat]
    BY <1>1, GoodParts
  <2>3. /\ FightsOver(fights, Len(e.m_pc)) /\ i \in 1..Len(fights)
    BY <1>1, <2>2, GetFightFinds
  <2> HIDE DEF fights, i
  <2>4. fights[i] \in Fight
    BY <2>3 DEF FightsOver
  <2>5. a.verb \in Verb /\ a.damage \in Nat
    BY DEF Action
  <2>6. class \in Class
    BY HitClassType
  <2> HIDE DEF class
  <2>7. h \in Fight /\ h.sourceId = fights[i].sourceId /\ h.targetId = fights[i].targetId
    <3> DEFINE f == fights[i]
               verb == a.verb
               much == a.damage
    <3>1. /\ h = Hit(f, now, verb, class, much) /\ f \in Fight
          /\ verb \in Verb /\ much \in Nat /\ class \in Class
      BY <2>4, <2>5, <2>6
    <3> HIDE DEF f, verb, much, h
    <3>2. h \in Fight /\ h.sourceId = f.sourceId /\ h.targetId = f.targetId
      BY <3>1, HitType
    <3> QED BY <3>2 DEF f
  <2>8. last \in [Special -> Nat]
    BY <2>2
  <2> HIDE DEF h, last
  <2>9. FightsOver(struck, Len(e.m_pc))
    BY <2>2, <2>3, <2>7, UpdateFight
  <2> HIDE DEF struck
  <2>10. GoodBattle(c)
    BY <1>1, <2>8, <2>9, WithFights
  <2> HIDE DEF c
  <2> QED BY <2>1, <2>10, KeepaliveGood
<1> QED BY <1>2, <1>3

(* Battle_miss: the fight is found or pushed, then counted in. *)
LEMMA MissGood ==
  ASSUME NEW b, GoodBattle(b), NEW now \in Int, NEW a \in Action,
         a.source \in Name, a.target \in Name, a.type \in Evasion
  PROVE  GoodBattle(Miss(b, now, a))
<1> DEFINE e      == Engage(b, now, a)
           s      == PCIndex(e.m_pc, a.source)
           t      == PCIndex(e.m_pc, a.target)
           fights == GetFight(e.m_fight, now, s, t)
           i      == FightPosition(fights, s, t)
           h      == Evade(fights[i], now, a.verb, a.type)
           struck == [fights EXCEPT ![i] = h]
           last   == e.m_last
           c      == [e EXCEPT !.m_fight = struck]
<1>1. GoodBattle(e) /\ s \in 1..Len(e.m_pc) /\ t \in 1..Len(e.m_pc)
  BY EngageFinds
<1>2. Miss(b, now, a) = Keepalive(c, now)
  BY DEF Miss
<1> HIDE DEF e, s, t
<1>3. Len(e.m_pc) \in Nat /\ FightsOver(e.m_fight, Len(e.m_pc))
      /\ e.m_last \in [Special -> Nat]
  BY <1>1, GoodParts
<1>4. /\ FightsOver(fights, Len(e.m_pc)) /\ i \in 1..Len(fights)
  BY <1>1, <1>3, GetFightFinds
<1> HIDE DEF fights, i
<1>5. fights[i] \in Fight
  BY <1>4 DEF FightsOver
<1>6. a.verb \in Verb
  BY DEF Action
<1>7. h \in Fight /\ h.sourceId = fights[i].sourceId /\ h.targetId = fights[i].targetId
  BY <1>5, <1>6, EvadeType
<1> HIDE DEF h
<1>8. FightsOver(struck, Len(e.m_pc))
  BY <1>3, <1>4, <1>7, UpdateFight
<1> HIDE DEF struck
<1>9. GoodBattle([e EXCEPT !.m_fight = struck, !.m_last = last])
  BY <1>1, <1>3, <1>8, WithFights
<1>10. c = [e EXCEPT !.m_fight = struck, !.m_last = last]
  BY <1>1 DEF GoodBattle, BattleState
<1>11. GoodBattle(c)
  BY <1>9, <1>10
<1> HIDE DEF c
<1> QED BY <1>2, <1>11, KeepaliveGood

(* Counting a spell keeps the pair of its fight. *)
LEMMA MagicCountType ==
  ASSUME NEW f \in Fight, NEW now \in Int, NEW damage \in Nat
  PROVE  LET h == [f EXCEPT !.m_magic.hits = @ + 1,
                            !.m_magic.damage = @ + damage,
                            !.end = now]
         IN  h \in Fight /\ h.sourceId = f.sourceId /\ h.targetId = f.targetId
<1> DEFINE hits == f.m_magic.hits + 1
           total == f.m_magic.damage + damage
           m == [f.m_magic EXCEPT !.hits = hits, !.damage = total]
           h == [f EXCEPT !.m_magic.hits = @ + 1,
                          !.m_magic.damage = @ + damage,
                          !.end = now]
<1>1. hits \in Nat /\ total \in Nat
  BY DEF Fight
<1>2. m \in [hits : Nat, damage : Nat]
  <2> HIDE DEF hits, total
  <2> QED BY <1>1 DEF Fight
<1>3. h = [f EXCEPT !.m_magic = m, !.end = now]
  BY DEF Fight
<1> HIDE DEF m, h
<1>4. h \in Fight /\ h.sourceId = f.sourceId /\ h.targetId = f.targetId
  BY <1>2, <1>3 DEF Fight
<1> QED BY <1>4 DEF h

(* Battle_magic: a melee hit first, then the spell. *)
LEMMA MagicGood ==
  ASSUME NEW b, GoodBattle(b), NEW now \in Int, NEW a \in Action,
         a.source \in Name, a.target \in Name
  PROVE  GoodBattle(Magic(b, now, a))
<1> DEFINE e      == Engage(Melee(b, now, a), now, a)
           s      == PCIndex(e.m_pc, a.source)
           t      == PCIndex(e.m_pc, a.target)
           fights == GetFight(e.m_fight, now, s, t)
           i      == FightPosition(fights, s, t)
           h      == [fights[i] EXCEPT !.m_magic.hits = @ + 1,
                                       !.m_magic.damage = @ + a.damage,
                                       !.end = now]
           counted == [fights EXCEPT ![i].m_magic.hits = @ + 1,
                                     ![i].m_magic.damage = @ + a.damage,
                                     ![i].end = now]
           struck == [fights EXCEPT ![i] = h]
           last   == e.m_last
           c      == [e EXCEPT !.m_fight = counted]
<1>1. GoodBattle(e) /\ s \in 1..Len(e.m_pc) /\ t \in 1..Len(e.m_pc)
  BY MeleeGood, EngageFinds
<1>2. Magic(b, now, a) = Keepalive(c, now)
  BY DEF Magic
<1> HIDE DEF e, s, t
<1>3. Len(e.m_pc) \in Nat /\ FightsOver(e.m_fight, Len(e.m_pc))
      /\ e.m_last \in [Special -> Nat]
  BY <1>1, GoodParts
<1>4. /\ FightsOver(fights, Len(e.m_pc)) /\ i \in 1..Len(fights)
  BY <1>1, <1>3, GetFightFinds
<1> HIDE DEF fights, i
<1>5. fights[i] \in Fight
  BY <1>4 DEF FightsOver
<1>6. a.damage \in Nat
  BY DEF Action
<1>7. h \in Fight /\ h.sourceId = fights[i].sourceId /\ h.targetId = fights[i].targetId
  BY <1>5, <1>6, MagicCountType
<1>8. counted = struck
  BY <1>4, <1>5 DEF FightsOver, Fight
<1> HIDE DEF h, counted
<1>9. FightsOver(struck, Len(e.m_pc))
  BY <1>3, <1>4, <1>7, UpdateFight
<1> HIDE DEF struck
<1>10. GoodBattle([e EXCEPT !.m_fight = counted, !.m_last = last])
  BY <1>1, <1>3, <1>8, <1>9, WithFights
<1>11. c = [e EXCEPT !.m_fight = counted, !.m_last = last]
  BY <1>1 DEF GoodBattle, BattleState
<1>12. GoodBattle(c)
  BY <1>10, <1>11
<1> HIDE DEF c
<1> QED BY <1>2, <1>12, KeepaliveGood

(* Battle_heal only adds to the total. *)
LEMMA HealGood ==
  ASSUME NEW b, GoodBattle(b), NEW now \in Int, NEW a \in Action
  PROVE  GoodBattle(Heal(b, now, a))
<1> DEFINE st    == Start(b, now)
           total == st.m_totalHeals + a.damage
           c     == [st EXCEPT !.m_totalHeals = total]
<1>1. GoodBattle(st)
  BY StartGood
<1>2. Heal(b, now, a) = Keepalive(c, now)
  BY DEF Heal
<1> HIDE DEF st
<1>3. st \in BattleState /\ total \in Nat
  <2>1. st \in BattleState
    BY <1>1, GoodParts
  <2>2. a.damage \in Nat
    BY DEF Action
  <2> QED BY <2>1, <2>2 DEF BattleState
<1> HIDE DEF total
<1>4. /\ c \in BattleState /\ c.m_pc = st.m_pc /\ c.m_fight = st.m_fight
      /\ c.m_death = st.m_death /\ c.m_lastFinishingBlow = st.m_lastFinishingBlow
  BY <1>3 DEF BattleState
<1> HIDE DEF c
<1>5. GoodBattle(c)
  BY <1>1, <1>4 DEF GoodBattle
<1> QED BY <1>2, <1>5, KeepaliveGood

(* Battle_death pushes a death; a slayer may be missing, the dead may not. *)
LEMMA DieGood ==
  ASSUME NEW b, GoodBattle(b), NEW now \in Int, NEW a \in Action, a.target \in Name
  PROVE  GoodBattle(Die(b, now, a))
<1> DEFINE e == Engage(b, now, a)
           s == PCIndex(e.m_pc, a.source)
           t == PCIndex(e.m_pc, a.target)
           finishing == t = e.m_lastFinishingBlow
           d == [sourceId |-> s, targetId |-> t, finishingBlow |-> finishing]
           deaths == Append(e.m_death, d)
           blow == IF finishing THEN NoId ELSE e.m_lastFinishingBlow
           c == [e EXCEPT !.m_death = deaths, !.m_lastFinishingBlow = blow]
<1>1. GoodBattle(e) /\ s \in 0..Len(e.m_pc) /\ t \in 1..Len(e.m_pc)
  BY EngageFinds
<1>2. Die(b, now, a) = Keepalive(c, now)
  BY DEF Die
<1> HIDE DEF e, s, t
<1>3. /\ e \in BattleState /\ Len(e.m_pc) \in Nat
      /\ DeathsOver(e.m_death, Len(e.m_pc))
      /\ e.m_lastFinishingBlow \in 0..Len(e.m_pc)
  BY <1>1, GoodParts
<1>4. finishing \in BOOLEAN
  OBVIOUS
<1>5. d \in Death /\ d.sourceId = s /\ d.targetId = t
  BY <1>1, <1>3, <1>4 DEF Death
<1>6. blow \in 0..Len(e.m_pc)
  BY <1>3 DEF NoId
<1> HIDE DEF d, blow
<1>7. DeathsOver(deaths, Len(e.m_pc))
  BY <1>1, <1>3, <1>5, AppendProperties DEF DeathsOver
<1> HIDE DEF deaths
<1>8. /\ c \in BattleState /\ c.m_pc = e.m_pc /\ c.m_fight = e.m_fight
      /\ c.m_death = deaths /\ c.m_lastFinishingBlow = blow
  <2>1. blow \in Nat /\ deaths \in Seq(Death)
    BY <1>3, <1>6, <1>7 DEF DeathsOver
  <2> QED BY <1>3, <2>1 DEF BattleState
<1> HIDE DEF c
<1>9. GoodBattle(c)
  BY <1>1, <1>6, <1>7, <1>8 DEF GoodBattle
<1> QED BY <1>2, <1>9, KeepaliveGood

(* Battle_crit, Battle_crip and Battle_holyBlade touch no id. *)
LEMMA AnnounceGood ==
  ASSUME NEW b, GoodBattle(b), NEW class \in Special, NEW a \in Action
  PROVE  GoodBattle(Announce(b, class, a))
<1> DEFINE last == [b.m_last EXCEPT ![class] = a.damage]
           c    == [b EXCEPT !.m_last = last]
<1>1. b \in BattleState /\ last \in [Special -> Nat]
  BY DEF GoodBattle, BattleState, Action
<1>2. Announce(b, class, a) = c
  BY <1>1 DEF Announce, BattleState
<1> HIDE DEF last
<1>3. /\ c \in BattleState /\ c.m_pc = b.m_pc /\ c.m_fight = b.m_fight
      /\ c.m_death = b.m_death /\ c.m_lastFinishingBlow = b.m_lastFinishingBlow
  BY <1>1 DEF BattleState
<1> HIDE DEF c
<1> QED BY <1>2, <1>3 DEF GoodBattle

(* Without names, fights and deaths there is no id to be wrong. *)
LEMMA EmptyGood ==
  ASSUME NEW b \in BattleState, b.m_pc = << >>, b.m_fight = << >>, b.m_death = << >>,
         b.m_lastFinishingBlow = NoId
  PROVE  GoodBattle(b)
<1>1. Len(b.m_pc) = 0 /\ Len(b.m_fight) = 0 /\ Len(b.m_death) = 0
  OBVIOUS
<1> QED BY <1>1 DEF GoodBattle, Interned, FightsOver, DeathsOver, BattleState, NoId

(* Battle_reset empties the three arrays and forgets the finishing blow. *)
LEMMA ResetGood ==
  ASSUME NEW b \in BattleState
  PROVE  GoodBattle(Reset(b))
<1> DEFINE none  == [c \in Special |-> 0]
           unset == -1
           zero  == 0
           empty == << >>
           idle  == [b EXCEPT !.m_start = unset, !.m_end = unset, !.m_expire = zero]
           dated == [idle EXCEPT !.m_totalHeals = 0, !.m_last = none,
                                 !.m_lastFinishingBlow = 0]
           r     == [dated EXCEPT !.m_pc = empty, !.m_fight = empty, !.m_death = empty]
<1>1. none \in [Special -> Nat] /\ empty \in Seq(Name) /\ empty \in Seq(Fight)
      /\ empty \in Seq(Death) /\ unset \in Int /\ zero \in Int
  BY EmptySeq
<1>2. Reset(b) = r
  BY DEF Reset, NoId, BattleState
<1> HIDE DEF none, unset, empty, zero
<1>3. idle \in BattleState
  BY <1>1 DEF BattleState
<1> HIDE DEF idle
<1>4. dated \in BattleState /\ dated.m_lastFinishingBlow = 0
  BY <1>1, <1>3 DEF BattleState
<1> HIDE DEF dated
<1>5. /\ r \in BattleState /\ r.m_pc = empty /\ r.m_fight = empty /\ r.m_death = empty
      /\ r.m_lastFinishingBlow = 0
  BY <1>1, <1>4 DEF BattleState
<1> HIDE DEF r
<1>6. GoodBattle(r)
  BY <1>5, EmptyGood DEF empty, NoId
<1> QED BY <1>2, <1>6
-----------------------------------------------------------------------------
(* The inductive invariant: the state has its types and the ids are in     *)
(* order.  Types are not enough: a handler dereferences ids.               *)
IInv == TypeOK /\ NamesInterned /\ FightsIndexed

(* While main() runs, the invariant says the battle is in order. *)
LEMMA IInvGood ==
  ASSUME IInv, running
  PROVE  GoodBattle(battle)
BY DEF IInv, TypeOK, NamesInterned, FightsIndexed, GoodBattle, Interned, FightsOver,
       DeathsOver, BattleState

(* And a battle in order is what the invariant asks for. *)
LEMMA GoodIInv ==
  ASSUME GoodBattle(battle)'
  PROVE  NamesInterned' /\ FightsIndexed'
BY DEF NamesInterned, FightsIndexed, GoodBattle, Interned, FightsOver, DeathsOver

(* A freshly constructed battle satisfies the invariant. *)
LEMMA InitIInv == Init => IInv
<1> SUFFICES ASSUME Init PROVE IInv
  OBVIOUS
<1>1. [c \in Special |-> 0] \in [Special -> Nat]
  OBVIOUS
<1>2. battle \in BattleState
  BY <1>1, EmptySeq DEF Init, NewBattle, BattleState, NoId
<1>3. GoodBattle(battle)
  BY <1>2, EmptyGood DEF Init, NewBattle
<1>4. TypeOK
  BY <1>1, <1>2, BoundsAssumption DEF Init, TypeOK, NothingAnnounced
<1> QED BY <1>3, <1>4 DEF IInv, NamesInterned, FightsIndexed, GoodBattle, Interned,
                          FightsOver, DeathsOver

(* The lines tellme accepts are read from a battle in order. *)
LEMMA CurrentGood ==
  ASSUME IInv, running, NEW d
  PROVE  GoodBattle(Current(d))
BY IInvGood, ResetGood DEF Current, GoodBattle

(* An accepted line that leaves a battle in order. *)
LEMMA AcceptsIInv ==
  ASSUME IInv, NEW d \in Dates, NEW a \in LogLines, NEW class,
         Accepts(d), Remembers(d, a, class), GoodBattle(battle')
  PROVE  IInv'
<1>1. TypeOK
  BY DEF IInv
<1>2. a.damage \in Nat
  BY LogAssumption DEF Action
<1>3. lineno' \in 0..MaxLines /\ date' \in Dates \union {-1} /\ keepgoing' \in BOOLEAN
      /\ running' \in BOOLEAN
  BY <1>1, BoundsAssumption DEF TypeOK, Accepts, Reads
<1>4. announced' \in [Special -> Nat]
  <2> DEFINE told == IF IsOver(battle, d) THEN NothingAnnounced ELSE announced
  <2>1. told \in [Special -> Nat]
    BY <1>1 DEF TypeOK, NothingAnnounced
  <2>2. announced' = IF class \in Special THEN [told EXCEPT ![class] = @ + 1] ELSE told
    BY DEF Remembers
  <2> HIDE DEF told
  <2> QED BY <2>1, <2>2
<1>5. blows' \in Nat /\ dealt' \in Nat /\ swung' \in Nat
  <2> DEFINE over == IsOver(battle, d)
             hits == a.type \in {"MELEE", "MAGIC"} /\ ~IsBlow(a)
             swing == hits \/ a.type \in Evasion
  <2>1. blows \in Nat /\ dealt \in Nat /\ swung \in Nat
    BY <1>1 DEF TypeOK
  <2>2. /\ blows' = (IF over THEN 0 ELSE blows) + (IF IsBlow(a) THEN 1 ELSE 0)
        /\ dealt' = (IF over THEN 0 ELSE dealt) + (IF hits THEN a.damage ELSE 0)
        /\ swung' = (IF over THEN 0 ELSE swung) + (IF swing THEN 1 ELSE 0)
    BY DEF Remembers
  <2> HIDE DEF over, hits, swing
  <2> QED BY <1>2, <2>1, <2>2
<1>6. TypeOK'
  BY <1>3, <1>4, <1>5 DEF TypeOK, GoodBattle
<1> QED BY <1>6, GoodIInv DEF IInv

(* The inductive step, one case per action. *)
LEMMA NextIInv == IInv /\ [Next]_vars => IInv'
<1> SUFFICES ASSUME IInv, [Next]_vars PROVE IInv'
  OBVIOUS
<1>1. CASE UNCHANGED vars
  BY <1>1 DEF vars, history, IInv, TypeOK, NamesInterned, FightsIndexed
<1>2. ASSUME NEW d \in Dates, Skip(d) \/ Stop(d)
      PROVE  IInv'
  <2>1. UNCHANGED <<battle, running, history>>
    BY <1>2 DEF Skip, Stop, Reads
  <2>2. Reads(d) /\ keepgoing' \in BOOLEAN
    BY <1>2 DEF Skip, Stop
  <2>3. lineno' \in 0..MaxLines /\ date' \in Dates \union {-1}
    BY <2>2, BoundsAssumption DEF Reads, IInv, TypeOK
  <2>4. TypeOK'
    BY <2>1, <2>2, <2>3 DEF IInv, TypeOK, history
  <2> QED BY <2>1, <2>4 DEF IInv, NamesInterned, FightsIndexed
<1>3. CASE Undated
  <2>1. /\ UNCHANGED <<battle, date, running, history>>
        /\ lineno < MaxLines /\ lineno' = lineno + 1 /\ keepgoing' = TRUE
    BY <1>3 DEF Undated
  <2>2. lineno' \in 0..MaxLines
    BY <2>1, BoundsAssumption DEF IInv, TypeOK
  <2>3. TypeOK'
    BY <2>1, <2>2 DEF IInv, TypeOK, history
  <2> QED BY <2>1, <2>3 DEF IInv, NamesInterned, FightsIndexed
<1>4. CASE Finish
  <2>1. battle' \in BattleState /\ battle'.m_pc = << >> /\ battle'.m_fight = << >>
        /\ battle'.m_death = << >>
    BY <1>4, EmptySeq DEF Finish, Dtor, IInv, TypeOK, BattleState
  <2>2. TypeOK'
    BY <1>4, <2>1 DEF Finish, history, IInv, TypeOK
  <2>3. Len(battle'.m_pc) = 0 /\ Len(battle'.m_fight) = 0 /\ Len(battle'.m_death) = 0
    BY <2>1
  <2>4. NamesInterned' /\ FightsIndexed'
    BY <1>4, <2>3 DEF Finish, NamesInterned, FightsIndexed
  <2> QED BY <2>2, <2>4 DEF IInv
<1>5. ASSUME NEW d \in Dates, NEW a \in LogLines, TellMe(d, a)
      PROVE  IInv'
  <2>1. running
    BY <1>5 DEF TellMe, DoMelee, DoMiss, DoCrit, DoCrip, DoHolyBlade, DoMagic, DoHeal,
                DoDeath, DoNothing, Accepts, Reads
  <2>2. GoodBattle(Current(d))
    BY <2>1, CurrentGood
  <2>3. a \in Action /\ d \in Int
    BY LogAssumption, DatesAssumption
  <2>4. a.type \in {"MELEE", "MAGIC"} \union Evasion => a.source \in Name /\ a.target \in Name
    BY LogAssumption
  <2>5. a.type = "DEATH" => a.target \in Name
    BY LogAssumption
  <2>6. CASE DoMelee(d, a)
    BY <2>2, <2>3, <2>4, <2>6, MeleeGood, AcceptsIInv DEF DoMelee
  <2>7. CASE DoMiss(d, a)
    BY <2>2, <2>3, <2>4, <2>7, MissGood, AcceptsIInv DEF DoMiss
  <2>8. CASE DoCrit(d, a)
    BY <2>2, <2>3, <2>8, AnnounceGood, AcceptsIInv DEF DoCrit, Special
  <2>9. CASE DoCrip(d, a)
    BY <2>2, <2>3, <2>9, AnnounceGood, AcceptsIInv DEF DoCrip, Special
  <2>10. CASE DoHolyBlade(d, a)
    BY <2>2, <2>3, <2>10, AnnounceGood, AcceptsIInv DEF DoHolyBlade, Special
  <2>11. CASE DoMagic(d, a)
    BY <2>2, <2>3, <2>4, <2>11, MagicGood, AcceptsIInv DEF DoMagic
  <2>12. CASE DoHeal(d, a)
    BY <2>2, <2>3, <2>12, HealGood, AcceptsIInv DEF DoHeal
  <2>13. CASE DoDeath(d, a)
    BY <2>2, <2>3, <2>5, <2>13, DieGood, AcceptsIInv DEF DoDeath
  <2>14. CASE DoNothing(d, a)
    BY <2>2, <2>14, AcceptsIInv DEF DoNothing
  <2> QED BY <1>5, <2>6, <2>7, <2>8, <2>9, <2>10, <2>11, <2>12, <2>13, <2>14 DEF TellMe
<1> QED BY <1>1, <1>2, <1>3, <1>4, <1>5 DEF Next

(* The invariant holds of every log, names and configuration. *)
THEOREM Inductive == Spec => []IInv
BY InitIInv, NextIInv, PTL DEF Spec

(* Every variable of the program keeps its type, on every log. *)
THEOREM TypeCorrect == Spec => []TypeOK
<1>1. IInv => TypeOK
  BY DEF IInv
<1> QED BY <1>1, Inductive, PTL

(* No name of any log is interned twice in m_pc, and none under an alias   *)
(* of the log's owner (Battle_getPCIndex).                                 *)
THEOREM NoNameTwice == Spec => []NamesInterned
<1>1. IInv => NamesInterned
  BY DEF IInv
<1> QED BY <1>1, Inductive, PTL

(* Every id the report dereferences is within m_pc, whatever names the log *)
(* holds, and no two fights share their pair (Battle_getFightIndex).       *)
THEOREM IdsWithinTables == Spec => []FightsIndexed
<1>1. IInv => FightsIndexed
  BY DEF IInv
<1> QED BY <1>1, Inductive, PTL
-----------------------------------------------------------------------------
(* Where a battle lies in time, for every log whose dates never step back: *)
(* an invariant about the dates alone, which rests on the ids in order.    *)

(* A date of a line that tellme accepts.  The date -1 would be taken for no *)
(* battle, so none is in the log unless it is skipped.                      *)
Inside(d) == /\ d \in Int /\ d # -1
             /\ Since <= d
             /\ Until > 0 => d <= Until

Spans(fights, first, last) ==
  \A i \in 1..Len(fights) : /\ first <= fights[i].start
                            /\ fights[i].start <= fights[i].end
                            /\ fights[i].end <= last

(* A battle that has begun, as of d, and one that has not.                  *)
Begun(b, d) == /\ b.m_start # -1
               /\ Since <= b.m_start /\ b.m_start <= b.m_end /\ b.m_end <= d
               /\ Until > 0 => b.m_end <= Until
               /\ b.m_expire = b.m_end + KeepAlive
               /\ Spans(b.m_fight, b.m_start, b.m_end)
Idle(b) == /\ b.m_start = -1
           /\ b.m_fight = << >> /\ b.m_death = << >> /\ b.m_totalHeals = 0
Within(b, d) == Begun(b, d) \/ Idle(b)
-----------------------------------------------------------------------------
(* The four dates of a battle are numbers. *)
LEMMA DatesType ==
  ASSUME NEW b \in BattleState
  PROVE  /\ b.m_start \in Int /\ b.m_end \in Int /\ b.m_expire \in Int
         /\ b.m_fight \in Seq(Fight)
BY DEF BattleState

(* Later, a fight still lies within its battle. *)
LEMMA SpansLonger ==
  ASSUME NEW fights \in Seq(Fight), NEW first \in Int, NEW last \in Int, NEW d \in Int,
         last <= d, Spans(fights, first, last)
  PROVE  Spans(fights, first, d)
<1>1. ASSUME NEW i \in 1..Len(fights)
      PROVE  fights[i].start \in Int /\ fights[i].end \in Int
  <2>1. fights[i] \in Fight
    OBVIOUS
  <2> QED BY <2>1 DEF Fight
<1> QED BY <1>1 DEF Spans

(* Battle_keepalive makes now the end of a battle that has begun. *)
LEMMA KeepaliveBegun ==
  ASSUME NEW b \in BattleState, NEW d, Inside(d),
         b.m_start # -1, Since <= b.m_start, b.m_start <= d,
         Spans(b.m_fight, b.m_start, d)
  PROVE  Begun(Keepalive(b, d), d)
<1> DEFINE expire == d + KeepAlive
           k == [b EXCEPT !.m_end = d, !.m_expire = expire]
<1>1. Keepalive(b, d) = k
  BY DEF Keepalive
<1>2. d \in Int /\ d <= d /\ (Until > 0 => d <= Until)
  BY DEF Inside
<1>3. /\ k.m_start = b.m_start /\ k.m_end = d /\ k.m_expire = expire
      /\ k.m_fight = b.m_fight
  BY DEF BattleState
<1> HIDE DEF k
<1> QED BY <1>1, <1>2, <1>3 DEF Begun

(* Battle_start begins the battle that has not begun. *)
LEMMA StartBegun ==
  ASSUME NEW b \in BattleState, NEW d, Inside(d), Within(b, d)
  PROVE  Begun(Start(b, d), d)
<1>1. d \in Int
  BY DEF Inside
<1>2. CASE Begun(b, d)
  <2>1. InProgress(b)
    BY <1>2, DatesType DEF Begun, InProgress, Battle_seconds
  <2> QED BY <1>2, <2>1 DEF Start
<1>3. CASE Idle(b)
  <2> DEFINE c == [b EXCEPT !.m_start = d]
  <2>1. Start(b, d) = Keepalive(c, d)
    BY <1>3 DEF Idle, InProgress, Battle_seconds, Start
  <2>2. c \in BattleState /\ c.m_start = d /\ c.m_fight = << >>
    BY <1>1, <1>3 DEF Idle, BattleState
  <2> HIDE DEF c
  <2>3. Spans(c.m_fight, c.m_start, d)
    BY <2>2 DEF Spans
  <2>4. d # -1 /\ Since <= d /\ d <= d
    BY <1>1 DEF Inside
  <2> QED BY <2>1, <2>2, <2>3, <2>4, KeepaliveBegun
<1> QED BY <1>2, <1>3 DEF Within

(* What every handler begins with, begins the battle. *)
LEMMA EngageBegun ==
  ASSUME NEW b, GoodBattle(b), NEW d, Inside(d), NEW a \in Action, Within(b, d)
  PROVE  Begun(Engage(b, d, a), d)
<1> DEFINE st == Start(b, d)
           pc == Intern(Intern(st.m_pc, a.source), a.target)
           e  == [st EXCEPT !.m_pc = pc]
<1>1. b \in BattleState /\ d \in Int
  BY GoodParts DEF Inside
<1>2. Begun(st, d) /\ st \in BattleState
  BY <1>1, StartBegun, StartType
<1>3. Engage(b, d, a) = e
  BY DEF Engage
<1> HIDE DEF st, pc
<1>4. /\ e.m_start = st.m_start /\ e.m_end = st.m_end /\ e.m_expire = st.m_expire
      /\ e.m_fight = st.m_fight
  BY <1>2 DEF BattleState
<1> HIDE DEF e
<1> QED BY <1>2, <1>3, <1>4 DEF Begun
-----------------------------------------------------------------------------
(* The fight that is struck lasts until now.  One that is pushed begins     *)
(* now, and until it is struck its end is 0; the search that follows finds  *)
(* that one, as no other has its pair.                                      *)
LEMMA StruckSpans ==
  ASSUME NEW fights, NEW n \in Nat, FightsOver(fights, n),
         NEW s \in 1..n, NEW t \in 1..n,
         NEW first \in Int, NEW last \in Int, NEW now \in Int,
         first <= now, last <= now, Spans(fights, first, last),
         NEW h \in Fight,
         LET g == GetFight(fights, now, s, t)
         IN  h.start = g[FightPosition(g, s, t)].start,
         h.end = now
  PROVE  LET g == GetFight(fights, now, s, t)
         IN  Spans([g EXCEPT ![FightPosition(g, s, t)] = h], first, now)
<1> DEFINE g == GetFight(fights, now, s, t)
           i == FightPosition(g, s, t)
           f == NewFight(s, t, now)
           u == [g EXCEPT ![i] = h]
<1>1. fights \in Seq(Fight) /\ Spans(fights, first, now)
  BY SpansLonger DEF FightsOver
<1>2. g \in Seq(Fight) /\ i \in 1..Len(g) /\ g[i].sourceId = s /\ g[i].targetId = t
  <2>1. now \in Int /\ s \in 1..n /\ t \in 1..n /\ n \in Nat /\ FightsOver(fights, n)
    OBVIOUS
  <2>2. LET gg == GetFight(fights, now, s, t)
            pp == FightPosition(gg, s, t)
        IN  /\ FightsOver(gg, n)
            /\ pp \in 1..Len(gg)
            /\ gg[pp].sourceId = s /\ gg[pp].targetId = t
    BY ONLY <2>1, GetFightFinds
  <2> QED BY <2>2 DEF FightsOver
<1>3. ASSUME NEW j \in 1..Len(fights)
      PROVE  fights[j].start \in Int /\ fights[j].end \in Int
  <2>1. fights[j] \in Fight
    BY <1>1
  <2> QED BY <2>1 DEF Fight
<1>4. h.start = g[i].start
  OBVIOUS
<1>5. /\ first <= g[i].start /\ g[i].start <= now
      /\ \A j \in 1..Len(g) : j # i => /\ first <= g[j].start
                                       /\ g[j].start <= g[j].end /\ g[j].end <= now
  <2>1. CASE FightPosition(fights, s, t) # NoId
    <3>1. g = fights
      BY <2>1 DEF GetFight
    <3> HIDE DEF g, i
    <3>2. \A j \in 1..Len(g) : /\ first <= g[j].start
                               /\ g[j].start <= g[j].end /\ g[j].end <= now
      BY <1>1, <3>1 DEF Spans
    <3>3. first <= g[i].start /\ g[i].start <= g[i].end /\ g[i].end <= now
          /\ g[i].start \in Int /\ g[i].end \in Int
      BY <1>2, <1>3, <3>1, <3>2
    <3> QED BY <3>2, <3>3
  <2>2. CASE FightPosition(fights, s, t) = NoId
    <3>1. f \in Fight /\ f.start = now
      BY NewMeleeType DEF NewFight, Fight
    <3>2. g = Append(fights, f)
      BY <2>2 DEF GetFight
    <3> HIDE DEF f, g, i
    <3>3. /\ Len(g) = Len(fights) + 1 /\ Len(fights) \in Nat
          /\ \A j \in 1..Len(fights) : g[j] = fights[j]
          /\ g[Len(fights) + 1] = f
      BY <1>1, <3>1, <3>2, AppendProperties
    <3>4. \A j \in 1..Len(fights) : ~(fights[j].sourceId = s /\ fights[j].targetId = t)
      BY <1>1, <2>2, FightPositionFinds
    <3>5. \A j \in 1..Len(g) : j \in 1..Len(fights) \/ j = Len(fights) + 1
      BY <3>3
    <3>6. i = Len(fights) + 1
      BY <1>2, <3>3, <3>4, <3>5
    <3>7. g[i].start = now
      BY <3>1, <3>3, <3>6
    <3>8. ASSUME NEW j \in 1..Len(g), j # i
          PROVE  first <= g[j].start /\ g[j].start <= g[j].end /\ g[j].end <= now
      BY <1>1, <3>3, <3>5, <3>6, <3>8 DEF Spans
    <3> QED BY <3>7, <3>8
  <2> QED BY <2>1, <2>2
<1> HIDE DEF g, i
<1>6. /\ Len(u) = Len(g)
      /\ \A j \in 1..Len(g) : u[j] = IF j = i THEN h ELSE g[j]
  BY <1>2, ExceptSeq
<1> HIDE DEF u
<1>7. now <= now
  OBVIOUS
<1>8. Spans(u, first, now)
  BY <1>4, <1>5, <1>6, <1>7 DEF Spans
<1> QED BY <1>8 DEF u, g, i
-----------------------------------------------------------------------------
(* A hit keeps the beginning of its fight, and ends it now. *)
LEMMA HitDates ==
  ASSUME NEW f \in Fight, NEW now \in Int, NEW verb, NEW class, NEW damage
  PROVE  LET h == Hit(f, now, verb, class, damage)
         IN  h.start = f.start /\ h.end = now
BY DEF Hit, SetCounters, Fight

(* So does a swing that did not hit. *)
LEMMA EvadeDates ==
  ASSUME NEW f \in Fight, NEW now \in Int, NEW verb, NEW evasion
  PROVE  LET h == Evade(f, now, verb, evasion)
         IN  h.start = f.start /\ h.end = now
BY DEF Evade, SetCounters, Fight

(* And the count of a spell. *)
LEMMA MagicCountDates ==
  ASSUME NEW f \in Fight, NEW now \in Int, NEW damage
  PROVE  LET h == [f EXCEPT !.m_magic.hits = @ + 1,
                            !.m_magic.damage = @ + damage,
                            !.end = now]
         IN  h.start = f.start /\ h.end = now
BY DEF Fight

(* Striking a fight and keeping the battle alive leaves it begun. *)
LEMMA StruckBegun ==
  ASSUME NEW e, GoodBattle(e), NEW d, Inside(d), Begun(e, d),
         NEW s \in 1..Len(e.m_pc), NEW t \in 1..Len(e.m_pc), NEW h \in Fight,
         LET g == GetFight(e.m_fight, d, s, t)
         IN  h.start = g[FightPosition(g, s, t)].start,
         h.end = d,
         NEW c \in BattleState, c.m_start = e.m_start,
         c.m_fight = LET g == GetFight(e.m_fight, d, s, t)
                     IN  [g EXCEPT ![FightPosition(g, s, t)] = h]
  PROVE  Begun(Keepalive(c, d), d)
<1>1. /\ e \in BattleState /\ Len(e.m_pc) \in Nat
      /\ FightsOver(e.m_fight, Len(e.m_pc))
  BY GoodParts
<1>2. e.m_start \in Int /\ e.m_end \in Int /\ d \in Int
  BY <1>1, DatesType DEF Inside
<1>3. /\ e.m_start # -1 /\ Since <= e.m_start /\ e.m_start <= d /\ e.m_end <= d
      /\ Spans(e.m_fight, e.m_start, e.m_end)
  BY <1>2 DEF Begun
<1>4. Spans(c.m_fight, e.m_start, d)
  BY <1>1, <1>2, <1>3, StruckSpans
<1> QED BY <1>3, <1>4, KeepaliveBegun

(* Battle_melee begins the battle, even with a finishing blow, which        *)
(* returns before the keepalive.                                            *)
LEMMA MeleeBegun ==
  ASSUME NEW b, GoodBattle(b), NEW d, Inside(d), NEW a \in Action, Within(b, d),
         a.source \in Name, a.target \in Name
  PROVE  Begun(Melee(b, d, a), d)
<1> DEFINE e      == Engage(b, d, a)
           s      == PCIndex(e.m_pc, a.source)
           t      == PCIndex(e.m_pc, a.target)
           fights == GetFight(e.m_fight, d, s, t)
           i      == FightPosition(fights, s, t)
           class  == HitClass(e.m_last, a.damage)
           h      == Hit(fights[i], d, a.verb, class, a.damage)
           last   == [c \in Special |-> IF c = class THEN 0 ELSE e.m_last[c]]
           struck == [fights EXCEPT ![i] = h]
           c      == [e EXCEPT !.m_fight = struck, !.m_last = last]
<1>1. d \in Int
  BY DEF Inside
<1>2. GoodBattle(e) /\ s \in 1..Len(e.m_pc) /\ t \in 1..Len(e.m_pc)
  BY <1>1, EngageFinds
<1>3. Begun(e, d)
  BY EngageBegun
<1>4. CASE a.type = "MELEE" /\ a.damage >= FinishingDamage
  <2> DEFINE blow == [e EXCEPT !.m_lastFinishingBlow = t]
  <2>1. Melee(b, d, a) = blow
    BY <1>4 DEF Melee
  <2> HIDE DEF e, t
  <2>2. /\ blow.m_start = e.m_start /\ blow.m_end = e.m_end
        /\ blow.m_expire = e.m_expire /\ blow.m_fight = e.m_fight
    BY <1>2, GoodParts DEF BattleState
  <2> HIDE DEF blow
  <2> QED BY <1>3, <2>1, <2>2 DEF Begun
<1>5. CASE ~(a.type = "MELEE" /\ a.damage >= FinishingDamage)
  <2>1. Melee(b, d, a) = Keepalive(c, d)
    BY <1>5 DEF Melee
  <2> HIDE DEF e, s, t
  <2>2. /\ Len(e.m_pc) \in Nat /\ FightsOver(e.m_fight, Len(e.m_pc))
        /\ e \in BattleState /\ e.m_last \in [Special -> Nat]
    BY <1>2, GoodParts
  <2>3. FightsOver(fights, Len(e.m_pc)) /\ i \in 1..Len(fights)
    BY <1>1, <1>2, <2>2, GetFightFinds
  <2> HIDE DEF fights, i
  <2>4. fights[i] \in Fight
    BY <2>3 DEF FightsOver
  <2>5. a.verb \in Verb /\ a.damage \in Nat /\ class \in Class
    BY HitClassType DEF Action
  <2> HIDE DEF class
  <2>6. /\ h \in Fight /\ h.start = fights[i].start /\ h.end = d
        /\ h.sourceId = fights[i].sourceId /\ h.targetId = fights[i].targetId
    BY <1>1, <2>4, <2>5, HitType, HitDates
  <2>7. last \in [Special -> Nat]
    BY <2>2
  <2> HIDE DEF h, last
  <2>8. struck \in Seq(Fight)
    BY <2>2, <2>3, <2>6, UpdateFight DEF FightsOver
  <2>9. c \in BattleState /\ c.m_start = e.m_start /\ c.m_fight = struck
    <3> HIDE DEF struck
    <3> QED BY <2>2, <2>7, <2>8 DEF BattleState
  <2> HIDE DEF c
  <2>10. Begun(Keepalive(c, d), d)
    BY <1>2, <1>3, <2>6, <2>9, StruckBegun DEF fights, i, struck
  <2> QED BY <2>1, <2>10
<1> QED BY <1>4, <1>5

(* Battle_miss. *)
LEMMA MissBegun ==
  ASSUME NEW b, GoodBattle(b), NEW d, Inside(d), NEW a \in Action, Within(b, d),
         a.source \in Name, a.target \in Name, a.type \in Evasion
  PROVE  Begun(Miss(b, d, a), d)
<1> DEFINE e      == Engage(b, d, a)
           s      == PCIndex(e.m_pc, a.source)
           t      == PCIndex(e.m_pc, a.target)
           fights == GetFight(e.m_fight, d, s, t)
           i      == FightPosition(fights, s, t)
           h      == Evade(fights[i], d, a.verb, a.type)
           struck == [fights EXCEPT ![i] = h]
           c      == [e EXCEPT !.m_fight = struck]
<1>1. d \in Int
  BY DEF Inside
<1>2. GoodBattle(e) /\ s \in 1..Len(e.m_pc) /\ t \in 1..Len(e.m_pc)
  BY <1>1, EngageFinds
<1>3. Begun(e, d)
  BY EngageBegun
<1>4. Miss(b, d, a) = Keepalive(c, d)
  BY DEF Miss
<1> HIDE DEF e, s, t
<1>5. /\ Len(e.m_pc) \in Nat /\ FightsOver(e.m_fight, Len(e.m_pc))
      /\ e \in BattleState
  BY <1>2, GoodParts
<1>6. FightsOver(fights, Len(e.m_pc)) /\ i \in 1..Len(fights)
  BY <1>1, <1>2, <1>5, GetFightFinds
<1> HIDE DEF fights, i
<1>7. fights[i] \in Fight
  BY <1>6 DEF FightsOver
<1>8. a.verb \in Verb
  BY DEF Action
<1>9. /\ h \in Fight /\ h.start = fights[i].start /\ h.end = d
      /\ h.sourceId = fights[i].sourceId /\ h.targetId = fights[i].targetId
  BY <1>1, <1>7, <1>8, EvadeType, EvadeDates
<1> HIDE DEF h
<1>10. struck \in Seq(Fight)
  BY <1>5, <1>6, <1>9, UpdateFight DEF FightsOver
<1>11. c \in BattleState /\ c.m_start = e.m_start /\ c.m_fight = struck
  <2> HIDE DEF struck
  <2> QED BY <1>5, <1>10 DEF BattleState
<1> HIDE DEF c
<1>12. Begun(Keepalive(c, d), d)
  BY <1>2, <1>3, <1>9, <1>11, StruckBegun DEF fights, i, struck
<1> QED BY <1>4, <1>12

(* Battle_magic. *)
LEMMA MagicBegun ==
  ASSUME NEW b, GoodBattle(b), NEW d, Inside(d), NEW a \in Action, Within(b, d),
         a.source \in Name, a.target \in Name
  PROVE  Begun(Magic(b, d, a), d)
<1> DEFINE m      == Melee(b, d, a)
           e      == Engage(m, d, a)
           s      == PCIndex(e.m_pc, a.source)
           t      == PCIndex(e.m_pc, a.target)
           fights == GetFight(e.m_fight, d, s, t)
           i      == FightPosition(fights, s, t)
           h      == [fights[i] EXCEPT !.m_magic.hits = @ + 1,
                                       !.m_magic.damage = @ + a.damage,
                                       !.end = d]
           counted == [fights EXCEPT ![i].m_magic.hits = @ + 1,
                                     ![i].m_magic.damage = @ + a.damage,
                                     ![i].end = d]
           struck == [fights EXCEPT ![i] = h]
           c      == [e EXCEPT !.m_fight = counted]
<1>1. d \in Int
  BY DEF Inside
<1>2. GoodBattle(m) /\ Within(m, d)
  BY <1>1, MeleeGood, MeleeBegun DEF Within
<1>3. Magic(b, d, a) = Keepalive(c, d)
  BY DEF Magic
<1> HIDE DEF m
<1>4. GoodBattle(e) /\ s \in 1..Len(e.m_pc) /\ t \in 1..Len(e.m_pc)
  BY <1>1, <1>2, EngageFinds
<1>5. Begun(e, d)
  BY <1>2, EngageBegun
<1> HIDE DEF e, s, t
<1>6. /\ Len(e.m_pc) \in Nat /\ FightsOver(e.m_fight, Len(e.m_pc))
      /\ e \in BattleState
  BY <1>4, GoodParts
<1>7. FightsOver(fights, Len(e.m_pc)) /\ i \in 1..Len(fights)
  BY <1>1, <1>4, <1>6, GetFightFinds
<1> HIDE DEF fights, i
<1>8. fights[i] \in Fight /\ a.damage \in Nat
  BY <1>7 DEF FightsOver, Action
<1>9. /\ h \in Fight /\ h.start = fights[i].start /\ h.end = d
      /\ h.sourceId = fights[i].sourceId /\ h.targetId = fights[i].targetId
  <2>1. /\ h \in Fight
        /\ h.sourceId = fights[i].sourceId /\ h.targetId = fights[i].targetId
    BY <1>1, <1>8, MagicCountType
  <2>2. h.start = fights[i].start /\ h.end = d
    BY <1>1, <1>8, MagicCountDates
  <2> QED BY <2>1, <2>2
<1>10. counted = struck
  BY <1>7, <1>8 DEF FightsOver, Fight
<1> HIDE DEF h, counted
<1>11. struck \in Seq(Fight)
  BY <1>6, <1>7, <1>9, UpdateFight DEF FightsOver
<1>12. c \in BattleState /\ c.m_start = e.m_start /\ c.m_fight = struck
  <2> HIDE DEF struck
  <2> QED BY <1>6, <1>10, <1>11 DEF BattleState
<1> HIDE DEF c
<1>13. Begun(Keepalive(c, d), d)
  BY <1>4, <1>5, <1>9, <1>12, StruckBegun DEF fights, i, struck
<1> QED BY <1>3, <1>13

(* Battle_heal. *)
LEMMA HealBegun ==
  ASSUME NEW b, GoodBattle(b), NEW d, Inside(d), NEW a \in Action, Within(b, d)
  PROVE  Begun(Heal(b, d, a), d)
<1> DEFINE st    == Start(b, d)
           total == st.m_totalHeals + a.damage
           c     == [st EXCEPT !.m_totalHeals = total]
<1>1. b \in BattleState /\ d \in Int /\ a.damage \in Nat
  BY GoodParts DEF Inside, Action
<1>2. Begun(st, d) /\ st \in BattleState
  BY <1>1, StartBegun, StartType
<1>3. Heal(b, d, a) = Keepalive(c, d)
  BY DEF Heal
<1> HIDE DEF st
<1>4. total \in Nat
  <2>1. st.m_totalHeals \in Nat
    BY <1>2 DEF BattleState
  <2> QED BY <1>1, <2>1
<1> HIDE DEF total
<1>5. c \in BattleState /\ c.m_start = st.m_start /\ c.m_fight = st.m_fight
  BY <1>2, <1>4 DEF BattleState
<1> HIDE DEF c
<1>6. st.m_start # -1 /\ Since <= st.m_start /\ st.m_start <= d
  BY <1>1, <1>2, DatesType DEF Begun
<1>7. Spans(st.m_fight, st.m_start, d)
  BY <1>1, <1>2, DatesType, SpansLonger DEF Begun
<1> QED BY <1>3, <1>5, <1>6, <1>7, KeepaliveBegun

(* Battle_death. *)
LEMMA DieBegun ==
  ASSUME NEW b, GoodBattle(b), NEW d, Inside(d), NEW a \in Action, Within(b, d),
         a.target \in Name
  PROVE  Begun(Die(b, d, a), d)
<1> DEFINE e == Engage(b, d, a)
           s == PCIndex(e.m_pc, a.source)
           t == PCIndex(e.m_pc, a.target)
           finishing == t = e.m_lastFinishingBlow
           died == [sourceId |-> s, targetId |-> t, finishingBlow |-> finishing]
           deaths == Append(e.m_death, died)
           blow == IF finishing THEN NoId ELSE e.m_lastFinishingBlow
           c == [e EXCEPT !.m_death = deaths, !.m_lastFinishingBlow = blow]
<1>1. d \in Int
  BY DEF Inside
<1>2. /\ GoodBattle(e) /\ Begun(e, d)
      /\ s \in 0..Len(e.m_pc) /\ t \in 1..Len(e.m_pc)
  BY <1>1, EngageFinds, EngageBegun
<1>3. Die(b, d, a) = Keepalive(c, d)
  BY DEF Die
<1> HIDE DEF e, s, t
<1>4. e \in BattleState /\ Len(e.m_pc) \in Nat
  BY <1>2, GoodParts
<1>5. finishing \in BOOLEAN
  OBVIOUS
<1>6. died \in Death /\ blow \in Nat
  BY <1>2, <1>4, <1>5 DEF Death, NoId, BattleState
<1> HIDE DEF died, blow
<1>7. deaths \in Seq(Death)
  BY <1>4, <1>6, AppendProperties DEF BattleState
<1> HIDE DEF deaths
<1>8. c \in BattleState /\ c.m_start = e.m_start /\ c.m_fight = e.m_fight
  BY <1>4, <1>6, <1>7 DEF BattleState
<1> HIDE DEF c
<1>9. e.m_start # -1 /\ Since <= e.m_start /\ e.m_start <= d
  BY <1>1, <1>2, <1>4, DatesType DEF Begun
<1>10. Spans(e.m_fight, e.m_start, d)
  BY <1>1, <1>2, <1>4, DatesType, SpansLonger DEF Begun
<1> QED BY <1>3, <1>8, <1>9, <1>10, KeepaliveBegun

(* Battle_crit, Battle_crip and Battle_holyBlade start nothing. *)
LEMMA AnnounceWithin ==
  ASSUME NEW b \in BattleState, NEW d, NEW class, NEW a, Within(b, d)
  PROVE  Within(Announce(b, class, a), d)
<1> DEFINE c == Announce(b, class, a)
<1>1. /\ c.m_start = b.m_start /\ c.m_end = b.m_end /\ c.m_expire = b.m_expire
      /\ c.m_fight = b.m_fight /\ c.m_death = b.m_death
      /\ c.m_totalHeals = b.m_totalHeals
  BY DEF Announce, BattleState
<1> HIDE DEF c
<1>2. Within(c, d)
  BY <1>1 DEF Within, Begun, Idle
<1> QED BY <1>2 DEF c

(* A battle that is over is reset, another goes on. *)
LEMMA CurrentWithin ==
  ASSUME IInv, NEW d \in Int, date <= d, Within(battle, date)
  PROVE  Within(Current(d), d)
<1>1. battle \in BattleState /\ date \in Int
  BY DatesAssumption DEF IInv, TypeOK
<1>2. CASE IsOver(battle, d)
  <2>1. /\ Reset(battle).m_start = -1 /\ Reset(battle).m_totalHeals = 0
        /\ Reset(battle).m_fight = << >> /\ Reset(battle).m_death = << >>
    BY <1>1 DEF Reset, BattleState
  <2>2. Current(d) = Reset(battle)
    BY <1>2 DEF Current
  <2> QED BY <2>1, <2>2 DEF Within, Idle
<1>3. CASE ~IsOver(battle, d)
  <2>1. Current(d) = battle
    BY <1>3 DEF Current
  <2>2. CASE Begun(battle, date)
    <3>1. battle.m_end <= d
      BY <1>1, <2>2, DatesType DEF Begun
    <3> QED BY <2>1, <2>2, <3>1 DEF Begun, Within
  <2>3. CASE Idle(battle)
    BY <2>1, <2>3 DEF Within
  <2> QED BY <2>2, <2>3 DEF Within
<1> QED BY <1>2, <1>3
-----------------------------------------------------------------------------
(* The dates of the lines never step back, and -1 is none that counts. *)
DatesInOrder == MonotoneDates /\ \A d \in Dates : d >= Since => d # -1

(* The inductive step, one case per action. *)
LEMMA NextWithin ==
  ASSUME DatesInOrder, IInv, Within(battle, date), [Next]_vars
  PROVE  Within(battle, date)'
<1>1. battle \in BattleState /\ date \in Int
  BY DatesAssumption DEF IInv, TypeOK
<1>2. CASE UNCHANGED vars
  BY <1>2 DEF vars, Within, Begun, Idle
<1>3. ASSUME NEW d \in Int, date <= d, date' = d, battle' = battle
      PROVE  Within(battle, date)'
  <2>1. CASE Begun(battle, date)
    <3>1. battle.m_end <= d
      BY <1>1, <1>3, <2>1, DatesType DEF Begun
    <3> QED BY <1>3, <2>1, <3>1 DEF Begun, Within
  <2>2. CASE Idle(battle)
    BY <1>3, <2>2 DEF Within, Idle
  <2> QED BY <2>1, <2>2 DEF Within
<1>4. ASSUME NEW d \in Dates, Skip(d) \/ Stop(d)
      PROVE  Within(battle, date)'
  <2>1. d \in Int /\ date <= d /\ date' = d /\ battle' = battle
    BY <1>1, <1>4, DatesAssumption DEF Skip, Stop, Reads, DatesInOrder
  <2> QED BY <1>3, <2>1
<1>5. CASE Undated
  BY <1>5 DEF Undated, Within, Begun, Idle
<1>6. CASE Finish
  <2>1. /\ battle'.m_start = battle.m_start /\ battle'.m_end = battle.m_end
        /\ battle'.m_expire = battle.m_expire
        /\ battle'.m_totalHeals = battle.m_totalHeals
        /\ battle'.m_fight = << >> /\ battle'.m_death = << >> /\ date' = date
    BY <1>1, <1>6 DEF Finish, Dtor, BattleState
  <2> QED BY <2>1 DEF Within, Begun, Idle, Spans
<1>7. ASSUME NEW d \in Dates, NEW a \in LogLines, TellMe(d, a)
      PROVE  Within(battle, date)'
  <2>1. running /\ Accepts(d)
    BY <1>7 DEF TellMe, DoMelee, DoMiss, DoCrit, DoCrip, DoHolyBlade, DoMagic, DoHeal,
                DoDeath, DoNothing, Accepts, Reads
  <2>2. d \in Int /\ date <= d /\ date' = d
    BY <1>1, <2>1, DatesAssumption DEF Accepts, Reads, DatesInOrder
  <2>3. Inside(d)
    BY <2>1, <2>2, BoundsAssumption
       DEF Accepts, BeforeSince, PastUntil, Inside, DatesInOrder
  <2>4. GoodBattle(Current(d)) /\ Within(Current(d), d)
    BY <2>1, <2>2, CurrentGood, CurrentWithin
  <2>5. Current(d) \in BattleState
    BY <2>4, GoodParts
  <2>6. /\ a \in Action
        /\ a.type \in {"MELEE", "MAGIC"} \union Evasion => a.source \in Name /\ a.target \in Name
        /\ a.type = "DEATH" => a.target \in Name
    BY LogAssumption
  <2>7. Within(battle', d)
    <3>1. CASE DoMelee(d, a)
      BY <2>3, <2>4, <2>6, <3>1, MeleeBegun DEF DoMelee, Within
    <3>2. CASE DoMiss(d, a)
      BY <2>3, <2>4, <2>6, <3>2, MissBegun DEF DoMiss, Within
    <3>3. CASE DoCrit(d, a) \/ DoCrip(d, a) \/ DoHolyBlade(d, a)
      BY <2>4, <2>5, <3>3, AnnounceWithin DEF DoCrit, DoCrip, DoHolyBlade
    <3>4. CASE DoMagic(d, a)
      BY <2>3, <2>4, <2>6, <3>4, MagicBegun DEF DoMagic, Within
    <3>5. CASE DoHeal(d, a)
      BY <2>3, <2>4, <2>6, <3>5, HealBegun DEF DoHeal, Within
    <3>6. CASE DoDeath(d, a)
      BY <2>3, <2>4, <2>6, <3>6, DieBegun DEF DoDeath, Within
    <3>7. CASE DoNothing(d, a)
      BY <2>4, <3>7 DEF DoNothing
    <3> QED BY <1>7, <3>1, <3>2, <3>3, <3>4, <3>5, <3>6, <3>7 DEF TellMe
  <2> QED BY <2>2, <2>7 DEF Within, Begun, Idle
<1> QED BY <1>2, <1>4, <1>5, <1>6, <1>7 DEF Next

(* Of a battle within its dates the invariant says what was promised. *)
LEMMA WithinWindow ==
  ASSUME IInv, Within(battle, date)
  PROVE  BattleWindow
<1>1. battle \in BattleState /\ date \in Int
  BY DatesAssumption DEF IInv, TypeOK
<1>2. CASE Begun(battle, date)
  <2>1. InProgress(battle)
    BY <1>1, <1>2, DatesType DEF Begun, InProgress, Battle_seconds
  <2> QED BY <1>2, <2>1 DEF BattleWindow, Begun, Spans
<1>3. CASE Idle(battle)
  <2>1. ~InProgress(battle)
    BY <1>3 DEF Idle, InProgress, Battle_seconds
  <2>2. Len(battle.m_fight) = 0
    BY <1>3 DEF Idle
  <2> QED BY <1>3, <2>1, <2>2 DEF BattleWindow, Idle
<1> QED BY <1>2, <1>3 DEF Within

(* With dates that never step back, on every log: what has been recorded   *)
(* belongs to a battle in progress, which lies within --since, --until and *)
(* the log read so far, and each fight lies within the battle              *)
(* (Battle_start, Battle_keepalive, Battle_getFightIndex).                 *)
THEOREM WindowKept ==
  ASSUME DatesInOrder
  PROVE  Spec => []BattleWindow
<1>1. Init => Within(battle, date)
  BY DEF Init, NewBattle, Within, Idle
<1>2. IInv /\ Within(battle, date) /\ [Next]_vars => Within(battle, date)'
  BY NextWithin
<1>3. IInv /\ Within(battle, date) => BattleWindow
  BY WithinWindow
<1> QED BY <1>1, <1>2, <1>3, Inductive, PTL DEF Spec
-----------------------------------------------------------------------------
(* A set of subsets of a finite S with every T that it has without each of *)
(* T's elements is all of SUBSET S.                                         *)
LEMMA SubsetInduction ==
  ASSUME NEW S, IsFiniteSet(S), NEW P \in SUBSET SUBSET S,
         \A T \in SUBSET S : (\A x \in T : T \ {x} \in P) => T \in P
  PROVE  P = SUBSET S
<1> DEFINE R == StrictSubsetOrdering(S)
           D == (SUBSET S) \ P
<1> SUFFICES ASSUME D # {} PROVE FALSE
  OBVIOUS
<1>1. IsWellFoundedOn(R, SUBSET S)
  <2>1. IsWellFoundedOn(R, FiniteSubsetsOf(S))
    BY FS_StrictSubsetOrderingWellFounded
  <2>2. FiniteSubsetsOf(S) = SUBSET S
    BY FS_FiniteSubsetsOfFinite
  <2> QED BY <2>1, <2>2
<1>2. \E T \in D : \A U \in D : <<U, T>> \notin R
  <2> HIDE DEF R
  <2> QED BY <1>1, WFMin
<1>3. PICK T \in D : \A U \in D : <<U, T>> \notin R
  BY <1>2
<1>4. ASSUME NEW x \in T
      PROVE  T \ {x} \in P
  <2>1. <<T \ {x}, T>> \in R
    BY DEF StrictSubsetOrdering
  <2>2. T \ {x} \notin D
    BY <1>3, <2>1, Zenon
  <2> QED BY <2>2
<1> QED BY <1>4
-----------------------------------------------------------------------------
(* Sums, SumFunctionOnSet of the community module Functions.  The function *)
(* behind it takes the elements out of a set one after the other.          *)
Pick(s) == CHOOSE x \in s : TRUE
Sums(f, S, g) ==
  g = [s \in SUBSET S |-> IF s = {} THEN 0 ELSE f[Pick(s)] + g[s \ {Pick(s)}]]

(* Any two of them agree on the sets they share.                           *)
LEMMA SumsAgree ==
  ASSUME NEW U, IsFiniteSet(U), NEW S, NEW T, U \subseteq S, U \subseteq T,
         NEW f, NEW e, \A x \in U : f[x] = e[x],
         NEW g, NEW h, Sums(f, S, g), Sums(e, T, h)
  PROVE  g[U] = h[U]
<1> DEFINE P == {s \in SUBSET U : g[s] = h[s]}
<1>1. ASSUME NEW s \in SUBSET U, \A x \in s : s \ {x} \in P
      PROVE  s \in P
  <2>1. /\ g[s] = IF s = {} THEN 0 ELSE f[Pick(s)] + g[s \ {Pick(s)}]
        /\ h[s] = IF s = {} THEN 0 ELSE e[Pick(s)] + h[s \ {Pick(s)}]
    BY DEF Sums
  <2>2. CASE s = {}
    BY <2>1, <2>2
  <2>3. CASE s # {}
    <3>1. Pick(s) \in s
      BY <2>3 DEF Pick
    <3>2. g[s \ {Pick(s)}] = h[s \ {Pick(s)}] /\ f[Pick(s)] = e[Pick(s)]
      BY <1>1, <3>1
    <3> QED BY <2>1, <2>3, <3>2
  <2> QED BY <2>2, <2>3
<1>2. P = SUBSET U
  <2>1. P \in SUBSET SUBSET U
    OBVIOUS
  <2> HIDE DEF P
  <2> QED BY <1>1, <2>1, SubsetInduction
<1> QED BY <1>2
(* So there is one for every set: for a set it is what those for the sets  *)
(* with one element less give, which agree on what they share.             *)
LEMMA SumsExist ==
  ASSUME NEW f, NEW S, IsFiniteSet(S)
  PROVE  \E g : Sums(f, S, g)
<1> DEFINE Summed(T) == \E g : Sums(f, T, g)
           P == {T \in SUBSET S : Summed(T)}
<1>1. ASSUME NEW T \in SUBSET S, \A x \in T : T \ {x} \in P
      PROVE  T \in P
  <2> DEFINE G(x) == CHOOSE g : Sums(f, T \ {x}, g)
             g == [s \in SUBSET T |-> IF s = {} THEN 0
                                      ELSE f[Pick(s)] + G(Pick(s))[s \ {Pick(s)}]]
  <2>1. ASSUME NEW x, x \in T
        PROVE  Sums(f, T \ {x}, G(x))
    <3>1. Summed(T \ {x})
      BY <1>1, <2>1
    <3> HIDE DEF Sums
    <3> QED BY <3>1
  <2> HIDE DEF G
  <2>2. ASSUME NEW s, s \in SUBSET T, s # {}
        PROVE  g[s] = f[Pick(s)] + g[s \ {Pick(s)}]
    <3> DEFINE x == Pick(s)
               U == s \ {x}
               y == Pick(U)
               V == U \ {y}
    <3>1. x \in s /\ x \in T /\ U \in SUBSET (T \ {x}) /\ U \in SUBSET T
      BY <2>2 DEF Pick
    <3>2. g[s] = f[x] + G(x)[U]
      BY <2>2
    <3>3. G(x)[U] = IF U = {} THEN 0 ELSE f[y] + G(x)[V]
      <4>1. Sums(f, T \ {x}, G(x))
        BY <2>1, <3>1
      <4> DEFINE R == SUBSET (T \ {x})
                 h == G(x)
      <4>2. U \in R
        BY <3>1
      <4>3. h = [r \in R |-> IF r = {} THEN 0 ELSE f[Pick(r)] + h[r \ {Pick(r)}]]
        BY <4>1 DEF Sums
      <4> HIDE DEF x, h, R, U
      <4>4. h[U] = IF U = {} THEN 0 ELSE f[Pick(U)] + h[U \ {Pick(U)}]
        BY <4>2, <4>3
      <4> QED BY <4>4 DEF h
    <3>4. g[U] = IF U = {} THEN 0 ELSE f[y] + G(y)[V]
      BY <3>1
    <3>5. ASSUME U # {} PROVE G(x)[V] = G(y)[V]
      <4>1. y \in U /\ y \in T
        BY <3>1, <3>5 DEF Pick
      <4>2. IsFiniteSet(V) /\ V \subseteq T \ {x} /\ V \subseteq T \ {y}
        BY <3>1, FS_Subset
      <4>3. Sums(f, T \ {x}, G(x)) /\ Sums(f, T \ {y}, G(y))
        BY <2>1, <3>1, <4>1
      <4> HIDE DEF x, y, U, V
      <4> QED BY <4>2, <4>3, SumsAgree
    <3> QED BY <3>2, <3>3, <3>4, <3>5
  <2>3. Sums(f, T, g)
    <3>1. g[{}] = 0
      OBVIOUS
    <3>2. \A s \in SUBSET T : g[s] = IF s = {} THEN 0 ELSE f[Pick(s)] + g[s \ {Pick(s)}]
      <4> HIDE DEF g
      <4> QED BY <2>2, <3>1
    <3>3. g = [s \in SUBSET T |-> g[s]]
      OBVIOUS
    <3> HIDE DEF g
    <3> QED BY <3>2, <3>3 DEF Sums
  <2>4. Summed(T)
    <3> HIDE DEF g
    <3> QED BY <2>3
  <2> HIDE DEF Summed
  <2> QED BY <2>4
<1>2. P = SUBSET S
  <2>1. P \in SUBSET SUBSET S
    OBVIOUS
  <2> HIDE DEF P
  <2> QED BY <1>1, <2>1, SubsetInduction
<1>3. S \in P
  <2> HIDE DEF P
  <2> QED BY <1>2
<1> QED BY <1>3

(* SumFunctionOnSet is what one of them gives for the whole set.           *)
LEMMA SumIsSums ==
  ASSUME NEW f, NEW S, IsFiniteSet(S)
  PROVE  \E g : Sums(f, S, g) /\ SumFunctionOnSet(f, S) = g[S]
<1> DEFINE iter == CHOOSE g : Sums(f, S, g)
<1>1. Sums(f, S, iter)
  BY SumsExist
<1>2. SumFunctionOnSet(f, S) = iter[S]
  BY DEF SumFunctionOnSet, FoldFunctionOnSet, MapThenFoldSet, Pick, Sums
<1> QED BY <1>1, <1>2

-----------------------------------------------------------------------------
LEMMA SumEmpty == \A f : SumFunctionOnSet(f, {}) = 0
<1> TAKE f
<1>1. PICK g : Sums(f, {}, g) /\ SumFunctionOnSet(f, {}) = g[{}]
  BY SumIsSums, FS_EmptySet
<1> QED BY <1>1 DEF Sums

(* A sum depends on the values it adds.                                    *)
LEMMA SumEqual ==
  ASSUME NEW S, IsFiniteSet(S), NEW f, NEW e, \A x \in S : f[x] = e[x]
  PROVE  SumFunctionOnSet(f, S) = SumFunctionOnSet(e, S)
<1>1. PICK g : Sums(f, S, g) /\ SumFunctionOnSet(f, S) = g[S]
  BY SumIsSums
<1>2. PICK h : Sums(e, S, h) /\ SumFunctionOnSet(e, S) = h[S]
  BY SumIsSums
<1>3. g[S] = h[S]
  BY <1>1, <1>2, SumsAgree
<1> QED BY <1>1, <1>2, <1>3

(* What the function behind it adds first, ...                             *)
LEMMA SumPick ==
  ASSUME NEW S, IsFiniteSet(S), S # {}, NEW f
  PROVE  SumFunctionOnSet(f, S) = f[Pick(S)] + SumFunctionOnSet(f, S \ {Pick(S)})
<1> DEFINE U == S \ {Pick(S)}
<1>0. IsFiniteSet(U)
  BY FS_RemoveElement
<1>1. PICK g : Sums(f, S, g) /\ SumFunctionOnSet(f, S) = g[S]
  BY SumIsSums
<1>2. PICK h : Sums(f, U, h) /\ SumFunctionOnSet(f, U) = h[U]
  BY <1>0, SumIsSums
<1>3. g[U] = h[U]
  <2>1. U \subseteq S
    OBVIOUS
  <2> HIDE DEF U
  <2> QED BY <1>0, <1>1, <1>2, <2>1, SumsAgree
<1>4. g[S] = f[Pick(S)] + g[U]
  BY <1>1 DEF Sums
<1> QED BY <1>1, <1>2, <1>3, <1>4

LEMMA SumType ==
  ASSUME NEW S, IsFiniteSet(S), NEW f, \A x \in S : f[x] \in Nat
  PROVE  SumFunctionOnSet(f, S) \in Nat
<1> DEFINE P == {T \in SUBSET S : SumFunctionOnSet(f, T) \in Nat}
<1>1. ASSUME NEW T \in SUBSET S, \A x \in T : T \ {x} \in P
      PROVE  T \in P
  <2>1. CASE T = {}
    BY <2>1, SumEmpty
  <2>2. CASE T # {}
    <3>1. Pick(T) \in T
      BY <2>2 DEF Pick
    <3>2. SumFunctionOnSet(f, T \ {Pick(T)}) \in Nat /\ f[Pick(T)] \in Nat
      BY <1>1, <3>1
    <3>3. IsFiniteSet(T)
      BY FS_Subset
    <3>4. SumFunctionOnSet(f, T) = f[Pick(T)] + SumFunctionOnSet(f, T \ {Pick(T)})
      BY <2>2, <3>3, SumPick
    <3>5. SumFunctionOnSet(f, T) \in Nat
      BY <3>2, <3>4
    <3> QED BY <3>5
  <2> QED BY <2>1, <2>2
<1>2. P = SUBSET S
  <2>1. P \in SUBSET SUBSET S
    OBVIOUS
  <2> HIDE DEF P
  <2> QED BY <1>1, <2>1, SubsetInduction
<1> QED BY <1>2

(* ... could have been any of the elements.                                *)
LEMMA SumRemove ==
  ASSUME NEW S, IsFiniteSet(S), NEW f, \A x \in S : f[x] \in Nat, NEW z \in S
  PROVE  SumFunctionOnSet(f, S) = f[z] + SumFunctionOnSet(f, S \ {z})
<1> DEFINE Su(T) == SumFunctionOnSet(f, T)
           P == {T \in SUBSET S : \A x \in T : Su(T) = f[x] + Su(T \ {x})}
<1>0. \A T \in SUBSET S : IsFiniteSet(T) /\ Su(T) \in Nat
  BY FS_Subset, SumType
<1>1. ASSUME NEW T \in SUBSET S, \A x \in T : T \ {x} \in P
      PROVE  T \in P
  <2> SUFFICES ASSUME NEW x \in T
               PROVE  Su(T) = f[x] + Su(T \ {x})
    OBVIOUS
  <2> DEFINE y == Pick(T)
  <2>1. y \in T
    BY DEF Pick
  <2>2. Su(T) = f[y] + Su(T \ {y})
    BY <1>0, SumPick
  <2> HIDE DEF y, Su
  <2>3. CASE x = y
    BY <2>2, <2>3
  <2>4. CASE x # y
    <3>1. T \ {x} \in P /\ T \ {y} \in P
      BY <1>1, <2>1
    <3>2. Su(T \ {y}) = f[x] + Su((T \ {y}) \ {x})
      BY <2>4, <3>1
    <3>3. Su(T \ {x}) = f[y] + Su((T \ {x}) \ {y})
      BY <2>1, <2>4, <3>1
    <3>4. (T \ {y}) \ {x} = (T \ {x}) \ {y}
      OBVIOUS
    <3>5. f[x] \in Nat /\ f[y] \in Nat /\ Su((T \ {x}) \ {y}) \in Nat
      BY <1>0, <2>1
    <3> QED BY <2>2, <3>2, <3>3, <3>4, <3>5
  <2> QED BY <2>3, <2>4
<1>2. P = SUBSET S
  <2>1. P \in SUBSET SUBSET S
    OBVIOUS
  <2> HIDE DEF P
  <2> QED BY <1>1, <2>1, SubsetInduction
<1>3. S \in P
  BY <1>2
<1> QED BY <1>3

(* What changes one value changes the sum by as much.                      *)
LEMMA SumUpdate ==
  ASSUME NEW S, IsFiniteSet(S), NEW z \in S,
         NEW f, \A x \in S : f[x] \in Nat, NEW e, \A x \in S : e[x] \in Nat,
         \A x \in S \ {z} : e[x] = f[x]
  PROVE  SumFunctionOnSet(e, S) = SumFunctionOnSet(f, S) - f[z] + e[z]
<1> DEFINE T == S \ {z}
<1>1. IsFiniteSet(T)
  BY FS_RemoveElement
<1>2. SumFunctionOnSet(f, S) = f[z] + SumFunctionOnSet(f, T)
  BY SumRemove
<1>3. SumFunctionOnSet(e, S) = e[z] + SumFunctionOnSet(e, T)
  BY SumRemove
<1>4. SumFunctionOnSet(e, T) = SumFunctionOnSet(f, T)
  <2>1. \A x \in T : e[x] = f[x]
    OBVIOUS
  <2> HIDE DEF T
  <2> QED BY <1>1, <2>1, SumEqual
<1>5. SumFunctionOnSet(f, T) \in Nat /\ f[z] \in Nat /\ e[z] \in Nat
  BY <1>1, SumType
<1> HIDE DEF T
<1> QED BY <1>2, <1>3, <1>4, <1>5

LEMMA SumZero ==
  ASSUME NEW S, IsFiniteSet(S), NEW f, \A x \in S : f[x] = 0
  PROVE  SumFunctionOnSet(f, S) = 0
<1> DEFINE P == {T \in SUBSET S : SumFunctionOnSet(f, T) = 0}
<1>1. ASSUME NEW T \in SUBSET S, \A x \in T : T \ {x} \in P
      PROVE  T \in P
  <2>1. CASE T = {}
    BY <2>1, SumEmpty
  <2>2. CASE T # {}
    <3>1. Pick(T) \in T
      BY <2>2 DEF Pick
    <3>2. SumFunctionOnSet(f, T \ {Pick(T)}) = 0 /\ f[Pick(T)] = 0
      BY <1>1, <3>1
    <3>3. IsFiniteSet(T)
      BY FS_Subset
    <3>4. SumFunctionOnSet(f, T) = 0
      BY <2>2, <3>2, <3>3, SumPick
    <3> QED BY <3>4
  <2> QED BY <2>1, <2>2
<1>2. P = SUBSET S
  <2>1. P \in SUBSET SUBSET S
    OBVIOUS
  <2> HIDE DEF P
  <2> QED BY <1>1, <2>1, SubsetInduction
<1> QED BY <1>2

(* One number more.                                                        *)
LEMMA SumOneMore ==
  ASSUME NEW n \in Nat, NEW f, \A i \in 1..n : f[i] \in Nat,
         NEW e, \A i \in 1..n : e[i] = f[i], e[n + 1] \in Nat
  PROVE  SumFunctionOnSet(e, 1..(n + 1)) = SumFunctionOnSet(f, 1..n) + e[n + 1]
<1>1. /\ IsFiniteSet(1..(n + 1)) /\ IsFiniteSet(1..n)
      /\ (1..(n + 1)) \ {n + 1} = 1..n /\ n + 1 \in 1..(n + 1)
  <2>1. IsFiniteSet(1..(n + 1)) /\ IsFiniteSet(1..n)
    BY FS_Interval
  <2>2. (1..(n + 1)) \ {n + 1} = 1..n /\ n + 1 \in 1..(n + 1)
    OBVIOUS
  <2> QED BY <2>1, <2>2
<1>2. \A i \in 1..(n + 1) : e[i] \in Nat
  <2>1. \A i \in 1..(n + 1) : i \in 1..n \/ i = n + 1
    OBVIOUS
  <2> QED BY <2>1
<1>3. SumFunctionOnSet(e, 1..(n + 1)) = e[n + 1] + SumFunctionOnSet(e, 1..n)
  BY <1>1, <1>2, SumRemove
<1>4. SumFunctionOnSet(e, 1..n) = SumFunctionOnSet(f, 1..n)
  BY <1>1, SumEqual
<1>5. SumFunctionOnSet(f, 1..n) \in Nat
  BY <1>1, SumType
<1> QED BY <1>3, <1>4, <1>5
-----------------------------------------------------------------------------
Marked(deaths) == {i \in 1..Len(deaths) : deaths[i].finishingBlow}
Claimed(deaths, last) == Cardinality(Marked(deaths)) + (IF last # NoId THEN 1 ELSE 0)
ClaimedBy(b) == Claimed(b.m_death, b.m_lastFinishingBlow)

(* What a handler leaves alone that is no melee and no death. *)
SameBlows(b, c) == /\ c.m_death = b.m_death
                   /\ c.m_lastFinishingBlow = b.m_lastFinishingBlow
-----------------------------------------------------------------------------
(* The marked deaths can be counted. *)
LEMMA MarkedFinite ==
  ASSUME NEW deaths \in Seq(Death)
  PROVE  /\ IsFiniteSet(Marked(deaths))
         /\ Cardinality(Marked(deaths)) \in Nat
<1>1. Len(deaths) \in Nat
  OBVIOUS
<1>2. IsFiniteSet(1..Len(deaths)) /\ Marked(deaths) \subseteq 1..Len(deaths)
  BY <1>1, FS_Interval DEF Marked
<1>3. IsFiniteSet(Marked(deaths))
  BY <1>2, FS_Subset
<1> QED BY <1>3, FS_CardinalityType

(* Of no deaths none is marked. *)
LEMMA NoneClaimed ==
  ASSUME NEW last
  PROVE  Claimed(<< >>, last) = IF last # NoId THEN 1 ELSE 0
<1>1. Marked(<< >>) = {}
  BY DEF Marked
<1> QED BY <1>1, FS_EmptySet DEF Claimed

(* One more death is one more marked, if it is. *)
LEMMA MarkedOneMore ==
  ASSUME NEW deaths \in Seq(Death), NEW x \in Death
  PROVE  Cardinality(Marked(Append(deaths, x)))
           = Cardinality(Marked(deaths)) + (IF x.finishingBlow THEN 1 ELSE 0)
<1> DEFINE more == Append(deaths, x)
<1>1. /\ Len(more) = Len(deaths) + 1 /\ Len(deaths) \in Nat
      /\ \A i \in 1..Len(deaths) : more[i] = deaths[i]
      /\ more[Len(deaths) + 1] = x
  BY AppendProperties
<1> HIDE DEF more
<1>2. \A i \in 1..Len(more) : i \in 1..Len(deaths) \/ i = Len(deaths) + 1
  BY <1>1
<1>3. IsFiniteSet(Marked(deaths)) /\ Cardinality(Marked(deaths)) \in Nat
  BY MarkedFinite
<1>4. CASE x.finishingBlow
  <2>1. Marked(more) = Marked(deaths) \union {Len(deaths) + 1}
    BY <1>1, <1>2, <1>4 DEF Marked
  <2>2. Len(deaths) + 1 \notin Marked(deaths)
    BY <1>1 DEF Marked
  <2>3. Cardinality(Marked(more)) = Cardinality(Marked(deaths)) + 1
    BY <1>3, <2>1, <2>2, FS_AddElement
  <2> QED BY <1>4, <2>3 DEF more
<1>5. CASE ~x.finishingBlow
  <2>1. Marked(more) = Marked(deaths)
    BY <1>1, <1>2, <1>5 DEF Marked
  <2> QED BY <1>3, <1>5, <2>1 DEF more
<1> QED BY <1>4, <1>5
-----------------------------------------------------------------------------
(* Interning names is not about blows. *)
LEMMA EngageBlows ==
  ASSUME NEW b, GoodBattle(b), NEW now \in Int, NEW a \in Action
  PROVE  SameBlows(b, Engage(b, now, a))
<1> DEFINE st == Start(b, now)
           pc == Intern(Intern(st.m_pc, a.source), a.target)
           e  == [st EXCEPT !.m_pc = pc]
<1>1. /\ st \in BattleState /\ st.m_death = b.m_death
      /\ st.m_lastFinishingBlow = b.m_lastFinishingBlow
  BY GoodParts, StartType
<1>2. Engage(b, now, a) = e
  BY DEF Engage
<1> HIDE DEF st, pc
<1>3. e.m_death = st.m_death /\ e.m_lastFinishingBlow = st.m_lastFinishingBlow
  BY <1>1 DEF BattleState
<1> HIDE DEF e
<1> QED BY <1>1, <1>2, <1>3 DEF SameBlows

(* A swing, and a hit that is no finishing blow. *)
LEMMA StruckBlows ==
  ASSUME NEW e \in BattleState, NEW now \in Int, NEW fights \in Seq(Fight),
         NEW last \in [Special -> Nat]
  PROVE  SameBlows(e, Keepalive([e EXCEPT !.m_fight = fights, !.m_last = last], now))
<1> DEFINE c == [e EXCEPT !.m_fight = fights, !.m_last = last]
<1>1. c \in BattleState /\ SameBlows(e, c)
  BY DEF BattleState, SameBlows
<1> HIDE DEF c
<1>2. SameBlows(e, Keepalive(c, now))
  BY <1>1, KeepaliveType DEF SameBlows
<1> QED BY <1>2 DEF c

(* Battle_melee: the one blow remembered is the last. *)
LEMMA MeleeBlows ==
  ASSUME NEW b, GoodBattle(b), NEW now \in Int, NEW a \in Action,
         a.source \in Name, a.target \in Name
  PROVE  /\ Melee(b, now, a).m_death = b.m_death
         /\ ~IsBlow(a) => SameBlows(b, Melee(b, now, a))
<1> DEFINE e      == Engage(b, now, a)
           s      == PCIndex(e.m_pc, a.source)
           t      == PCIndex(e.m_pc, a.target)
           fights == GetFight(e.m_fight, now, s, t)
           i      == FightPosition(fights, s, t)
           class  == HitClass(e.m_last, a.damage)
           h      == Hit(fights[i], now, a.verb, class, a.damage)
           last   == [c \in Special |-> IF c = class THEN 0 ELSE e.m_last[c]]
           struck == [fights EXCEPT ![i] = h]
           c      == [e EXCEPT !.m_fight = struck, !.m_last = last]
<1>1. GoodBattle(e) /\ s \in 1..Len(e.m_pc) /\ t \in 1..Len(e.m_pc)
  BY EngageFinds
<1>2. SameBlows(b, e)
  BY EngageBlows
<1>3. CASE IsBlow(a)
  <2> DEFINE d == [e EXCEPT !.m_lastFinishingBlow = t]
  <2>1. Melee(b, now, a) = d
    BY <1>3 DEF Melee, IsBlow
  <2> HIDE DEF e, t
  <2>2. d.m_death = e.m_death
    BY <1>1, GoodParts DEF BattleState
  <2> HIDE DEF d
  <2> QED BY <1>2, <1>3, <2>1, <2>2 DEF SameBlows
<1>4. CASE ~IsBlow(a)
  <2>1. Melee(b, now, a) = Keepalive(c, now)
    BY <1>4 DEF Melee, IsBlow
  <2> HIDE DEF e, s, t
  <2>2. /\ Len(e.m_pc) \in Nat /\ FightsOver(e.m_fight, Len(e.m_pc))
        /\ e \in BattleState /\ e.m_last \in [Special -> Nat]
    BY <1>1, GoodParts
  <2>3. FightsOver(fights, Len(e.m_pc)) /\ i \in 1..Len(fights)
    BY <1>1, <2>2, GetFightFinds
  <2> HIDE DEF fights, i
  <2>4. fights[i] \in Fight
    BY <2>3 DEF FightsOver
  <2>5. a.verb \in Verb /\ a.damage \in Nat /\ class \in Class
    BY HitClassType DEF Action
  <2> HIDE DEF class
  <2>6. h \in Fight /\ h.sourceId = fights[i].sourceId /\ h.targetId = fights[i].targetId
    <3> DEFINE f == fights[i]
               verb == a.verb
               much == a.damage
    <3>1. /\ h = Hit(f, now, verb, class, much) /\ f \in Fight
          /\ verb \in Verb /\ much \in Nat /\ class \in Class
      BY <2>4, <2>5
    <3> HIDE DEF f, verb, much, h
    <3>2. h \in Fight /\ h.sourceId = f.sourceId /\ h.targetId = f.targetId
      BY <3>1, HitType
    <3> QED BY <3>2 DEF f
  <2>7. last \in [Special -> Nat]
    BY <2>2
  <2> HIDE DEF h, last
  <2>8. struck \in Seq(Fight)
    BY <2>2, <2>3, <2>6, UpdateFight DEF FightsOver
  <2> HIDE DEF struck
  <2>9. SameBlows(e, Keepalive(c, now))
    BY <2>2, <2>7, <2>8, StruckBlows
  <2> HIDE DEF c
  <2> QED BY <1>2, <2>1, <2>9 DEF SameBlows
<1> QED BY <1>3, <1>4

(* Battle_miss. *)
LEMMA MissBlows ==
  ASSUME NEW b, GoodBattle(b), NEW now \in Int, NEW a \in Action,
         a.source \in Name, a.target \in Name, a.type \in Evasion
  PROVE  SameBlows(b, Miss(b, now, a))
<1> DEFINE e      == Engage(b, now, a)
           s      == PCIndex(e.m_pc, a.source)
           t      == PCIndex(e.m_pc, a.target)
           fights == GetFight(e.m_fight, now, s, t)
           i      == FightPosition(fights, s, t)
           struck == [fights EXCEPT ![i] = Evade(fights[i], now, a.verb, a.type)]
           c      == [e EXCEPT !.m_fight = struck]
<1>1. e \in BattleState /\ SameBlows(b, e)
  BY EngageFinds, EngageBlows, GoodParts
<1>2. Miss(b, now, a) = Keepalive(c, now)
  BY DEF Miss
<1> HIDE DEF e, struck
<1>3. SameBlows(e, c)
  BY <1>1 DEF BattleState, SameBlows
<1>4. Keepalive(c, now).m_death = c.m_death
      /\ Keepalive(c, now).m_lastFinishingBlow = c.m_lastFinishingBlow
  BY <1>1 DEF Keepalive, BattleState
<1> HIDE DEF c
<1> QED BY <1>1, <1>2, <1>3, <1>4 DEF SameBlows

(* Battle_magic: a spell is no finishing blow, however hard it hits. *)
LEMMA MagicBlows ==
  ASSUME NEW b, GoodBattle(b), NEW now \in Int, NEW a \in Action,
         a.source \in Name, a.target \in Name, a.type = "MAGIC"
  PROVE  SameBlows(b, Magic(b, now, a))
<1> DEFINE m      == Melee(b, now, a)
           e      == Engage(m, now, a)
           s      == PCIndex(e.m_pc, a.source)
           t      == PCIndex(e.m_pc, a.target)
           fights == GetFight(e.m_fight, now, s, t)
           i      == FightPosition(fights, s, t)
           counted == [fights EXCEPT ![i].m_magic.hits = @ + 1,
                                     ![i].m_magic.damage = @ + a.damage,
                                     ![i].end = now]
           c      == [e EXCEPT !.m_fight = counted]
<1>1. GoodBattle(m) /\ SameBlows(b, m)
  BY MeleeGood, MeleeBlows DEF IsBlow
<1>2. Magic(b, now, a) = Keepalive(c, now)
  BY DEF Magic
<1> HIDE DEF m
<1>3. e \in BattleState /\ SameBlows(m, e)
  BY <1>1, EngageFinds, EngageBlows, GoodParts
<1> HIDE DEF e, counted
<1>4. SameBlows(e, c)
  BY <1>3 DEF BattleState, SameBlows
<1>5. Keepalive(c, now).m_death = c.m_death
      /\ Keepalive(c, now).m_lastFinishingBlow = c.m_lastFinishingBlow
  BY <1>3 DEF Keepalive, BattleState
<1> HIDE DEF c
<1> QED BY <1>1, <1>2, <1>3, <1>4, <1>5 DEF SameBlows

(* Battle_heal. *)
LEMMA HealBlows ==
  ASSUME NEW b, GoodBattle(b), NEW now \in Int, NEW a \in Action
  PROVE  SameBlows(b, Heal(b, now, a))
<1> DEFINE st == Start(b, now)
           c  == [st EXCEPT !.m_totalHeals = st.m_totalHeals + a.damage]
<1>1. st \in BattleState /\ SameBlows(b, st)
  BY GoodParts, StartType DEF SameBlows
<1>2. Heal(b, now, a) = Keepalive(c, now)
  BY DEF Heal
<1> HIDE DEF st
<1>3. SameBlows(st, c)
  BY <1>1 DEF BattleState, SameBlows
<1>4. Keepalive(c, now).m_death = c.m_death
      /\ Keepalive(c, now).m_lastFinishingBlow = c.m_lastFinishingBlow
  BY <1>1 DEF Keepalive, BattleState
<1> HIDE DEF c
<1> QED BY <1>1, <1>2, <1>3, <1>4 DEF SameBlows

(* Battle_death: the blow that marks a death is forgotten. *)
LEMMA DieBlows ==
  ASSUME NEW b, GoodBattle(b), NEW now \in Int, NEW a \in Action, a.target \in Name
  PROVE  ClaimedBy(Die(b, now, a)) = ClaimedBy(b)
<1> DEFINE e == Engage(b, now, a)
           s == PCIndex(e.m_pc, a.source)
           t == PCIndex(e.m_pc, a.target)
           finishing == t = e.m_lastFinishingBlow
           d == [sourceId |-> s, targetId |-> t, finishingBlow |-> finishing]
           deaths == Append(e.m_death, d)
           blow == IF finishing THEN NoId ELSE e.m_lastFinishingBlow
           c == [e EXCEPT !.m_death = deaths, !.m_lastFinishingBlow = blow]
<1>1. /\ GoodBattle(e) /\ SameBlows(b, e)
      /\ s \in 0..Len(e.m_pc) /\ t \in 1..Len(e.m_pc)
  BY EngageFinds, EngageBlows
<1>2. Die(b, now, a) = Keepalive(c, now)
  BY DEF Die
<1> HIDE DEF e, s, t
<1>3. e \in BattleState /\ Len(e.m_pc) \in Nat /\ e.m_death \in Seq(Death)
  BY <1>1, GoodParts DEF DeathsOver
<1>4. finishing \in BOOLEAN
  OBVIOUS
<1>5. d \in Death /\ d.finishingBlow = finishing
  BY <1>1, <1>3, <1>4 DEF Death
<1>6. finishing => e.m_lastFinishingBlow # NoId
  BY <1>1, <1>3 DEF NoId
<1> HIDE DEF d, finishing
<1>7. Cardinality(Marked(deaths))
        = Cardinality(Marked(e.m_death)) + (IF finishing THEN 1 ELSE 0)
  BY <1>3, <1>5, MarkedOneMore
<1>8. Cardinality(Marked(e.m_death)) \in Nat
  BY <1>3, MarkedFinite
<1>9. Claimed(deaths, blow) = Claimed(e.m_death, e.m_lastFinishingBlow)
  <2> HIDE DEF deaths
  <2>1. CASE finishing
    BY <1>6, <1>7, <1>8, <2>1 DEF Claimed
  <2>2. CASE ~finishing
    BY <1>7, <1>8, <2>2 DEF Claimed
  <2> QED BY <2>1, <2>2
<1> HIDE DEF deaths, blow
<1>10. c.m_death = deaths /\ c.m_lastFinishingBlow = blow
  BY <1>3 DEF BattleState
<1>11. Keepalive(c, now).m_death = c.m_death
       /\ Keepalive(c, now).m_lastFinishingBlow = c.m_lastFinishingBlow
  BY <1>3 DEF Keepalive, BattleState
<1> HIDE DEF c
<1> QED BY <1>1, <1>2, <1>9, <1>10, <1>11 DEF ClaimedBy, SameBlows
-----------------------------------------------------------------------------
(* What the battle a handler finds has claimed, the history has counted.    *)
LEMMA CurrentClaims ==
  ASSUME IInv, FinishingBlowsDealt, NEW d
  PROVE  ClaimedBy(Current(d)) <= IF IsOver(battle, d) THEN 0 ELSE blows
<1>1. CASE IsOver(battle, d)
  <2>1. Reset(battle).m_death = << >> /\ Reset(battle).m_lastFinishingBlow = NoId
    BY DEF IInv, TypeOK, Reset, BattleState
  <2>2. Current(d) = Reset(battle)
    BY <1>1 DEF Current
  <2>3. ClaimedBy(Current(d)) = 0
    BY <2>1, <2>2, NoneClaimed DEF ClaimedBy
  <2> QED BY <1>1, <2>3
<1>2. CASE ~IsOver(battle, d)
  BY <1>2 DEF Current, FinishingBlowsDealt, FinishingDeaths, ClaimedBy, Claimed, Marked
<1> QED BY <1>1, <1>2

(* The inductive step, one case per action. *)
LEMMA NextClaims ==
  ASSUME IInv, FinishingBlowsDealt, [Next]_vars
  PROVE  FinishingBlowsDealt'
<1> DEFINE PaidFor(b, n) == ClaimedBy(b) <= n
<1>1. FinishingBlowsDealt' <=> PaidFor(battle', blows')
  BY DEF FinishingBlowsDealt, FinishingDeaths, ClaimedBy, Claimed, Marked
<1>2. PaidFor(battle, blows)
  BY DEF FinishingBlowsDealt, FinishingDeaths, ClaimedBy, Claimed, Marked
<1>3. CASE UNCHANGED vars
  BY <1>1, <1>2, <1>3 DEF vars, history
<1>4. ASSUME NEW d \in Dates, Skip(d) \/ Stop(d)
      PROVE  FinishingBlowsDealt'
  <2>1. battle' = battle /\ blows' = blows
    BY <1>4 DEF Skip, Stop, history
  <2> QED BY <1>1, <1>2, <2>1 DEF ClaimedBy, Claimed, Marked
<1>5. CASE Undated
  <2>1. battle' = battle /\ blows' = blows
    BY <1>5 DEF Undated, history
  <2> QED BY <1>1, <1>2, <2>1 DEF ClaimedBy, Claimed, Marked
<1>6. CASE Finish
  <2>1. /\ battle'.m_death = << >> /\ blows' = blows
        /\ battle'.m_lastFinishingBlow = battle.m_lastFinishingBlow
    BY <1>6 DEF Finish, Dtor, IInv, TypeOK, BattleState, history
  <2>2. Cardinality(Marked(battle.m_death)) \in Nat /\ blows \in Nat
    BY MarkedFinite DEF IInv, TypeOK, BattleState
  <2> QED BY <1>1, <1>2, <2>1, <2>2, NoneClaimed DEF ClaimedBy, Claimed
<1>7. ASSUME NEW d \in Dates, NEW a \in LogLines, TellMe(d, a)
      PROVE  FinishingBlowsDealt'
  <2> DEFINE before == IF IsOver(battle, d) THEN 0 ELSE blows
             b == Current(d)
  <2>1. running
    BY <1>7 DEF TellMe, DoMelee, DoMiss, DoCrit, DoCrip, DoHolyBlade, DoMagic, DoHeal,
                DoDeath, DoNothing, Accepts, Reads
  <2>2. GoodBattle(b) /\ b \in BattleState
    BY <2>1, CurrentGood, GoodParts
  <2>3. ClaimedBy(b) <= before /\ before \in Nat
    BY CurrentClaims DEF IInv, TypeOK
  <2>4. Cardinality(Marked(b.m_death)) \in Nat
    BY <2>2, MarkedFinite DEF BattleState
  <2>5. /\ a \in Action /\ d \in Int
        /\ a.type \in {"MELEE", "MAGIC"} \union Evasion => a.source \in Name /\ a.target \in Name
        /\ a.type = "DEATH" => a.target \in Name
    BY LogAssumption, DatesAssumption
  <2>6. blows' = before + (IF IsBlow(a) THEN 1 ELSE 0)
    BY <1>7 DEF TellMe, DoMelee, DoMiss, DoCrit, DoCrip, DoHolyBlade, DoMagic, DoHeal,
                DoDeath, DoNothing, Remembers
  <2> HIDE DEF before, b
  <2>7. ASSUME SameBlows(b, battle')
        PROVE  FinishingBlowsDealt'
    <3>1. ClaimedBy(battle') = ClaimedBy(b)
      BY <2>7 DEF SameBlows, ClaimedBy
    <3>2. ClaimedBy(battle') \in Nat
      BY <2>4, <3>1 DEF ClaimedBy, Claimed
    <3>3. ClaimedBy(battle') <= blows'
      BY <2>3, <2>6, <3>1, <3>2
    <3> QED BY <1>1, <3>3
  <2>8. CASE DoMelee(d, a)
    <3>1. battle' = Melee(b, d, a) /\ a.type = "MELEE"
      BY <2>8 DEF DoMelee, b
    <3>2. battle'.m_death = b.m_death /\ (~IsBlow(a) => SameBlows(b, battle'))
      BY <2>2, <2>5, <3>1, MeleeBlows
    <3>3. CASE IsBlow(a)
      BY <1>1, <2>3, <2>4, <2>6, <3>2, <3>3 DEF ClaimedBy, Claimed
    <3> QED BY <2>7, <3>2, <3>3
  <2>9. CASE DoMiss(d, a)
    BY <2>2, <2>5, <2>7, <2>9, MissBlows DEF DoMiss, b
  <2>10. CASE DoCrit(d, a) \/ DoCrip(d, a) \/ DoHolyBlade(d, a)
    <3>1. \E class \in Special : battle' = Announce(b, class, a)
      BY <2>10 DEF DoCrit, DoCrip, DoHolyBlade, Special, b
    <3>2. SameBlows(b, battle')
      BY <2>2, <3>1 DEF Announce, BattleState, SameBlows
    <3> QED BY <2>7, <3>2
  <2>11. CASE DoMagic(d, a)
    BY <2>2, <2>5, <2>7, <2>11, MagicBlows DEF DoMagic, b
  <2>12. CASE DoHeal(d, a)
    BY <2>2, <2>5, <2>7, <2>12, HealBlows DEF DoHeal, b
  <2>13. CASE DoDeath(d, a)
    <3>1. ClaimedBy(battle') = ClaimedBy(b)
      BY <2>2, <2>5, <2>13, DieBlows DEF DoDeath, b
    <3>2. ClaimedBy(battle') \in Nat
      BY <2>4, <3>1 DEF ClaimedBy, Claimed
    <3>3. ClaimedBy(battle') <= blows'
      BY <2>3, <2>6, <3>1, <3>2
    <3> QED BY <1>1, <3>3
  <2>14. CASE DoNothing(d, a)
    BY <2>7, <2>14 DEF DoNothing, SameBlows, b
  <2> QED BY <1>7, <2>8, <2>9, <2>10, <2>11, <2>12, <2>13, <2>14 DEF TellMe
<1> QED BY <1>3, <1>4, <1>5, <1>6, <1>7 DEF Next

(* On every log no finishing blow marks two deaths, and no death is marked *)
(* without one (Battle_melee, Battle_death and Battle_reset).              *)
THEOREM BlowsPaidFor == Spec => []FinishingBlowsDealt
<1>1. Init => FinishingBlowsDealt
  <2> SUFFICES ASSUME Init PROVE FinishingBlowsDealt
    OBVIOUS
  <2>1. battle.m_death = << >> /\ battle.m_lastFinishingBlow = NoId /\ blows = 0
    BY DEF Init, NewBattle
  <2> QED BY <2>1, NoneClaimed DEF FinishingBlowsDealt, FinishingDeaths, Claimed, Marked
<1>2. IInv /\ FinishingBlowsDealt /\ [Next]_vars => FinishingBlowsDealt'
  BY NextClaims
<1> QED BY <1>1, <1>2, Inductive, PTL DEF Spec
-----------------------------------------------------------------------------
(* What a total adds up, as functions of the counters. *)
HitsOf     == [m \in MeleeDamage |-> MeleeDamage_hits(m)]
DamageOf   == [m \in MeleeDamage |-> MeleeDamage_damage(m)]
SwingsOf   == [m \in MeleeDamage |-> MeleeDamage_swings(m)]
ClassOf(c) == [m \in MeleeDamage |-> m.hits[c]]
Weights    == {w \in [MeleeDamage -> Nat] : w[NewMelee] = 0}

(* With --by-verb the counters of the fight itself are never used, without *)
(* it those of the verbs are not.                                          *)
Shaped(f) == IF ByVerb THEN f.m_melee = NewMelee
             ELSE f.m_byVerb = [v \in Verb |-> NewMelee]
Weighed(f, w) == IF ByVerb THEN SumFunctionOnSet([v \in Verb |-> w[f.m_byVerb[v]]], Verb)
                 ELSE w[f.m_melee]
-----------------------------------------------------------------------------
LEMMA NewMeleeZero ==
  /\ \A c \in Class : NewMelee.hits[c] = 0 /\ NewMelee.damage[c] = 0
  /\ \A v \in Evasion : NewMelee.evaded[v] = 0
BY DEF NewMelee

LEMMA ClassNames ==
  /\ Class = {"plain", "crit", "crip", "holy"}
  /\ Evasion = {"MISS", "PARRY", "DODGE", "RIPOSTE", "BLOCK", "ABSORB"}
BY DEF Class, Special, Evasion

LEMMA WeightsOf ==
  /\ HitsOf \in Weights /\ DamageOf \in Weights /\ SwingsOf \in Weights
  /\ \A c \in Class : ClassOf(c) \in Weights
<1>1. \A m \in MeleeDamage : /\ \A c \in Class : m.hits[c] \in Nat /\ m.damage[c] \in Nat
                             /\ \A v \in Evasion : m.evaded[v] \in Nat
  BY DEF MeleeDamage
<1>2. \A m \in MeleeDamage : MeleeDamage_hits(m) \in Nat /\ MeleeDamage_damage(m) \in Nat
  BY <1>1, ClassNames DEF MeleeDamage_hits, MeleeDamage_damage, OverClasses
<1>3. \A m \in MeleeDamage : MeleeDamage_swings(m) \in Nat
  BY <1>1, <1>2, ClassNames DEF MeleeDamage_swings, MeleeDamage_avoided
<1>4. /\ MeleeDamage_hits(NewMelee) = 0 /\ MeleeDamage_damage(NewMelee) = 0
      /\ MeleeDamage_swings(NewMelee) = 0
  BY NewMeleeZero, ClassNames
     DEF MeleeDamage_hits, MeleeDamage_damage, OverClasses, MeleeDamage_swings,
         MeleeDamage_avoided
<1>5. \A c \in Class : ClassOf(c) \in Weights
  BY <1>1, NewMeleeType, NewMeleeZero DEF ClassOf, Weights
<1> QED BY <1>2, <1>3, <1>4, <1>5, NewMeleeType DEF HitsOf, DamageOf, SwingsOf, Weights

(* The verbs of a fight can be added up. *)
LEMMA VerbsWeigh ==
  ASSUME NEW f \in Fight, NEW w \in Weights
  PROVE  \A v \in Verb : f.m_byVerb[v] \in MeleeDamage /\ w[f.m_byVerb[v]] \in Nat
BY DEF Fight, Weights

LEMMA WeighedType ==
  ASSUME NEW f \in Fight, NEW w \in Weights
  PROVE  Weighed(f, w) \in Nat
<1>1. CASE ByVerb
  <2> DEFINE e == [v \in Verb |-> w[f.m_byVerb[v]]]
  <2>1. \A v \in Verb : e[v] \in Nat
    BY VerbsWeigh
  <2> HIDE DEF e
  <2>2. SumFunctionOnSet(e, Verb) \in Nat
    BY <2>1, VerbsAssumption, SumType
  <2> QED BY <1>1, <2>2 DEF Weighed, e
<1>2. CASE ~ByVerb
  BY <1>2 DEF Weighed, Fight, Weights
<1> QED BY <1>1, <1>2

(* The totals of battle.c are these sums, whichever counters are in use. *)
LEMMA UnusedVerbs ==
  ASSUME NEW f \in Fight, NEW w \in Weights
  PROVE  /\ ~ByVerbUsed(f) => SumFunctionOnSet([v \in Verb |-> w[f.m_byVerb[v]]], Verb) = 0
         /\ ~ByVerb /\ Shaped(f) => ~ByVerbUsed(f)
<1> DEFINE e == [v \in Verb |-> w[f.m_byVerb[v]]]
<1>1. ASSUME ~ByVerbUsed(f)
      PROVE  SumFunctionOnSet(e, Verb) = 0
  <2>1. \A v \in Verb : e[v] = 0
    BY <1>1 DEF ByVerbUsed, Weights
  <2> HIDE DEF e
  <2> QED BY <2>1, VerbsAssumption, SumZero
<1>2. ~ByVerb /\ Shaped(f) => ~ByVerbUsed(f)
  BY DEF Shaped, ByVerbUsed
<1> QED BY <1>1, <1>2

LEMMA TotalWeighed ==
  ASSUME NEW f \in Fight, Shaped(f), NEW w \in Weights
  PROVE  Weighed(f, w) = IF ByVerbUsed(f)
                         THEN SumFunctionOnSet([v \in Verb |-> w[f.m_byVerb[v]]], Verb)
                         ELSE w[f.m_melee]
<1>1. CASE ByVerb
  <2>1. w[f.m_melee] = 0
    BY <1>1 DEF Shaped, Weights
  <2> QED BY <1>1, <2>1, UnusedVerbs DEF Weighed
<1>2. CASE ~ByVerb
  BY <1>2, UnusedVerbs DEF Weighed
<1> QED BY <1>1, <1>2

LEMMA FightTotals ==
  ASSUME NEW f \in Fight, Shaped(f)
  PROVE  /\ Fight_hits(f) = Weighed(f, HitsOf)
         /\ Fight_damage(f) = Weighed(f, DamageOf)
         /\ Fight_swings(f) = Weighed(f, SwingsOf)
<1>1. f.m_melee \in MeleeDamage /\ \A v \in Verb : f.m_byVerb[v] \in MeleeDamage
  BY DEF Fight
<1>2. Fight_hits(f) = Weighed(f, HitsOf)
  <2>1. /\ [v \in Verb |-> MeleeDamage_hits(f.m_byVerb[v])]
             = [v \in Verb |-> HitsOf[f.m_byVerb[v]]]
        /\ MeleeDamage_hits(f.m_melee) = HitsOf[f.m_melee]
    BY <1>1 DEF HitsOf
  <2> QED BY <2>1, WeightsOf, TotalWeighed DEF Fight_hits, Total, SumFunction
<1>3. Fight_damage(f) = Weighed(f, DamageOf)
  <2>1. /\ [v \in Verb |-> MeleeDamage_damage(f.m_byVerb[v])]
             = [v \in Verb |-> DamageOf[f.m_byVerb[v]]]
        /\ MeleeDamage_damage(f.m_melee) = DamageOf[f.m_melee]
    BY <1>1 DEF DamageOf
  <2> QED BY <2>1, WeightsOf, TotalWeighed DEF Fight_damage, Total, SumFunction
<1>4. Fight_swings(f) = Weighed(f, SwingsOf)
  <2>1. /\ [v \in Verb |-> MeleeDamage_swings(f.m_byVerb[v])]
             = [v \in Verb |-> SwingsOf[f.m_byVerb[v]]]
        /\ MeleeDamage_swings(f.m_melee) = SwingsOf[f.m_melee]
    BY <1>1 DEF SwingsOf
  <2> QED BY <2>1, WeightsOf, TotalWeighed DEF Fight_swings, Total, SumFunction
<1> QED BY <1>2, <1>3, <1>4

LEMMA ClassTotal ==
  ASSUME NEW f \in Fight, Shaped(f), NEW c \in Class
  PROVE  f.m_melee.hits[c] + SumFunction([v \in Verb |-> f.m_byVerb[v].hits[c]])
           = Weighed(f, ClassOf(c))
<1> DEFINE w == ClassOf(c)
           e == [v \in Verb |-> w[f.m_byVerb[v]]]
<1>1. f.m_melee \in MeleeDamage /\ \A v \in Verb : f.m_byVerb[v] \in MeleeDamage
  BY DEF Fight
<1>2. w \in Weights /\ [v \in Verb |-> f.m_byVerb[v].hits[c]] = e /\ f.m_melee.hits[c] = w[f.m_melee]
  BY <1>1, WeightsOf DEF ClassOf
<1>3. SumFunction(e) = SumFunctionOnSet(e, Verb)
  BY DEF SumFunction
<1> HIDE DEF w
<1>4. CASE ByVerb
  <2>1. w[f.m_melee] = 0
    BY <1>2, <1>4 DEF Shaped, Weights
  <2>2. SumFunctionOnSet(e, Verb) \in Nat /\ SumFunctionOnSet(e, Verb) = Weighed(f, w)
    BY <1>2, <1>4, WeighedType DEF Weighed
  <2> QED BY <1>2, <1>3, <2>1, <2>2 DEF w
<1>5. CASE ~ByVerb
  <2>1. SumFunctionOnSet(e, Verb) = 0
    BY <1>2, <1>5, UnusedVerbs
  <2>2. w[f.m_melee] \in Nat /\ w[f.m_melee] = Weighed(f, w)
    BY <1>1, <1>2, <1>5 DEF Weighed, Weights
  <2> QED BY <1>2, <1>3, <2>1, <2>2 DEF w
<1> QED BY <1>4, <1>5
-----------------------------------------------------------------------------
(* Counting in the counters of a verb weighs as much as it adds to them. *)
LEMMA WeighedSame ==
  ASSUME NEW f, NEW g, g.m_melee = f.m_melee, g.m_byVerb = f.m_byVerb
  PROVE  (Shaped(g) <=> Shaped(f)) /\ \A w : Weighed(g, w) = Weighed(f, w)
BY DEF Shaped, Weighed

LEMMA WeighedSet ==
  ASSUME NEW f \in Fight, Shaped(f), NEW verb \in Verb, NEW m \in MeleeDamage,
         NEW w \in Weights
  PROVE  LET g == SetCounters(f, verb, m)
         IN  /\ Shaped(g) /\ g.m_magic = f.m_magic
             /\ Weighed(g, w) = Weighed(f, w) - w[Counters(f, verb)] + w[m]
<1> DEFINE g == SetCounters(f, verb, m)
<1>1. g \in Fight /\ Weighed(f, w) \in Nat /\ w[m] \in Nat
  BY SetCountersType, WeighedType DEF Weights
<1>2. CASE ByVerb
  <2> DEFINE e == [v \in Verb |-> w[f.m_byVerb[v]]]
             d == [v \in Verb |-> w[g.m_byVerb[v]]]
  <2>1. /\ g.m_melee = f.m_melee /\ g.m_magic = f.m_magic
        /\ \A v \in Verb : g.m_byVerb[v] = IF v = verb THEN m ELSE f.m_byVerb[v]
    BY <1>2 DEF SetCounters, Fight
  <2> HIDE DEF g
  <2>2. /\ \A v \in Verb : e[v] \in Nat /\ d[v] \in Nat
        /\ \A v \in Verb \ {verb} : d[v] = e[v]
        /\ d[verb] = w[m] /\ e[verb] = w[f.m_byVerb[verb]]
    BY <1>1, <2>1, VerbsWeigh
  <2> HIDE DEF e, d
  <2>3. SumFunctionOnSet(d, Verb) = SumFunctionOnSet(e, Verb) - e[verb] + d[verb]
    BY <2>2, VerbsAssumption, SumUpdate
  <2>4. /\ Weighed(g, w) = SumFunctionOnSet(d, Verb)
        /\ Weighed(f, w) = SumFunctionOnSet(e, Verb)
        /\ Counters(f, verb) = f.m_byVerb[verb]
        /\ Shaped(g)
    BY <1>2, <2>1 DEF Weighed, Counters, Shaped, e, d
  <2> QED BY <2>1, <2>2, <2>3, <2>4 DEF g
<1>3. CASE ~ByVerb
  <2>1. g.m_melee = m /\ g.m_byVerb = f.m_byVerb /\ g.m_magic = f.m_magic
    BY <1>3 DEF SetCounters, Fight
  <2>2. Weighed(g, w) = w[m] /\ Weighed(f, w) = w[Counters(f, verb)] /\ Shaped(g)
    BY <1>3, <2>1 DEF Weighed, Counters, Shaped
  <2> HIDE DEF g
  <2>3. Weighed(g, w) = Weighed(f, w) - w[Counters(f, verb)] + w[m]
    BY <1>1, <2>2
  <2> QED BY <2>1, <2>2, <2>3 DEF g
<1> QED BY <1>2, <1>3

(* A hit is one more hit and swing, of its class, and so much damage.      *)
LEMMA HitWeighs ==
  ASSUME NEW f \in Fight, Shaped(f), NEW now \in Int, NEW verb \in Verb,
         NEW class \in Class, NEW damage \in Nat
  PROVE  LET h == Hit(f, now, verb, class, damage)
         IN  /\ Shaped(h) /\ h.m_magic = f.m_magic
             /\ Weighed(h, HitsOf) = Weighed(f, HitsOf) + 1
             /\ Weighed(h, DamageOf) = Weighed(f, DamageOf) + damage
             /\ Weighed(h, SwingsOf) = Weighed(f, SwingsOf) + 1
             /\ \A c \in Class : Weighed(h, ClassOf(c))
                                   = Weighed(f, ClassOf(c)) + (IF c = class THEN 1 ELSE 0)
<1> DEFINE m == Counters(f, verb)
           n == [m EXCEPT !.hits[class] = @ + 1, !.damage[class] = @ + damage]
           g == [f EXCEPT !.end = now]
           h == SetCounters(g, verb, n)
<1>1. m \in MeleeDamage
  BY DEF Counters, Fight
<1>2. /\ g \in Fight /\ g.m_melee = f.m_melee /\ g.m_byVerb = f.m_byVerb
      /\ g.m_magic = f.m_magic /\ Counters(g, verb) = m
  BY DEF Fight, Counters
<1>3. Shaped(g) /\ \A w : Weighed(g, w) = Weighed(f, w)
  BY <1>2, WeighedSame
<1>4. Hit(f, now, verb, class, damage) = h
  BY DEF Hit
<1> HIDE DEF m, g
<1>5. /\ n \in MeleeDamage
      /\ \A c \in Class : n.hits[c] = m.hits[c] + (IF c = class THEN 1 ELSE 0)
      /\ \A c \in Class : n.damage[c] = m.damage[c] + (IF c = class THEN damage ELSE 0)
      /\ n.evaded = m.evaded
      /\ \A c \in Class : m.hits[c] \in Nat /\ m.damage[c] \in Nat
  <2>1. m.hits \in [Class -> Nat] /\ m.damage \in [Class -> Nat] /\ m.evaded \in [Evasion -> Nat]
    BY <1>1 DEF MeleeDamage
  <2> DEFINE hits == [m.hits EXCEPT ![class] = @ + 1]
             dealts == [m.damage EXCEPT ![class] = @ + damage]
  <2>2. n.hits = hits /\ n.damage = dealts /\ n.evaded = m.evaded
    BY <1>1 DEF MeleeDamage
  <2>3. n \in MeleeDamage
    <3>1. m.hits[class] + 1 \in Nat /\ m.damage[class] + damage \in Nat
      BY <2>1
    <3> QED BY <1>1, <3>1 DEF MeleeDamage
  <2>4. /\ \A c \in Class : hits[c] = m.hits[c] + (IF c = class THEN 1 ELSE 0)
        /\ \A c \in Class : dealts[c] = m.damage[c] + (IF c = class THEN damage ELSE 0)
    BY <2>1
  <2> HIDE DEF n, hits, dealts
  <2> QED BY <2>1, <2>2, <2>3, <2>4
<1> HIDE DEF n
<1>6. /\ MeleeDamage_hits(n) = MeleeDamage_hits(m) + 1
      /\ MeleeDamage_damage(n) = MeleeDamage_damage(m) + damage
  BY <1>5, ClassNames DEF MeleeDamage_hits, MeleeDamage_damage, OverClasses
<1>7. MeleeDamage_swings(n) = MeleeDamage_swings(m) + 1
  <2>1. /\ MeleeDamage_avoided(n) = MeleeDamage_avoided(m) /\ MeleeDamage_avoided(m) \in Nat
        /\ m.evaded["MISS"] \in Nat /\ n.evaded["MISS"] = m.evaded["MISS"]
    BY <1>1, <1>5, ClassNames DEF MeleeDamage_avoided, MeleeDamage
  <2>2. MeleeDamage_hits(m) \in Nat
    BY <1>5, ClassNames DEF MeleeDamage_hits, OverClasses
  <2> QED BY <1>6, <2>1, <2>2 DEF MeleeDamage_swings
<1>8. \A w \in Weights : /\ Shaped(h) /\ h.m_magic = f.m_magic
                         /\ Weighed(h, w) = Weighed(f, w) - w[m] + w[n]
                         /\ Weighed(f, w) \in Nat /\ w[m] \in Nat /\ w[n] \in Nat
  <2> SUFFICES ASSUME NEW w \in Weights
               PROVE  /\ Shaped(h) /\ h.m_magic = f.m_magic
                      /\ Weighed(h, w) = Weighed(f, w) - w[m] + w[n]
                      /\ Weighed(f, w) \in Nat /\ w[m] \in Nat /\ w[n] \in Nat
    OBVIOUS
  <2>1. /\ Shaped(h) /\ h.m_magic = g.m_magic
        /\ Weighed(h, w) = Weighed(g, w) - w[m] + w[n]
    BY <1>2, <1>3, <1>5, WeighedSet
  <2> HIDE DEF h
  <2> QED BY <1>1, <1>2, <1>3, <1>5, <2>1, WeighedType DEF Weights
<1> HIDE DEF h
<1>9. /\ HitsOf[n] = HitsOf[m] + 1 /\ DamageOf[n] = DamageOf[m] + damage
      /\ SwingsOf[n] = SwingsOf[m] + 1
      /\ \A c \in Class : ClassOf(c)[n] = ClassOf(c)[m] + (IF c = class THEN 1 ELSE 0)
  BY <1>1, <1>5, <1>6, <1>7 DEF HitsOf, DamageOf, SwingsOf, ClassOf
<1>10. /\ Weighed(h, HitsOf) = Weighed(f, HitsOf) + 1
       /\ Weighed(h, DamageOf) = Weighed(f, DamageOf) + damage
       /\ Weighed(h, SwingsOf) = Weighed(f, SwingsOf) + 1
  BY <1>8, <1>9, WeightsOf
<1>11. \A c \in Class : Weighed(h, ClassOf(c))
                          = Weighed(f, ClassOf(c)) + (IF c = class THEN 1 ELSE 0)
  BY <1>8, <1>9, WeightsOf
<1> QED BY <1>4, <1>8, <1>10, <1>11, WeightsOf

(* A swing that did not hit is one more swing: each evasion is counted in   *)
(* one place of the totals.                                                 *)
LEMMA EvadeWeighs ==
  ASSUME NEW f \in Fight, Shaped(f), NEW now \in Int, NEW verb \in Verb,
         NEW evasion \in Evasion
  PROVE  LET h == Evade(f, now, verb, evasion)
         IN  /\ Shaped(h) /\ h.m_magic = f.m_magic
             /\ Weighed(h, HitsOf) = Weighed(f, HitsOf)
             /\ Weighed(h, DamageOf) = Weighed(f, DamageOf)
             /\ Weighed(h, SwingsOf) = Weighed(f, SwingsOf) + 1
             /\ \A c \in Class : Weighed(h, ClassOf(c)) = Weighed(f, ClassOf(c))
<1> DEFINE m == Counters(f, verb)
           n == [m EXCEPT !.evaded[evasion] = @ + 1]
           g == [f EXCEPT !.end = now]
           h == SetCounters(g, verb, n)
<1>1. m \in MeleeDamage
  BY DEF Counters, Fight
<1>2. /\ g \in Fight /\ g.m_melee = f.m_melee /\ g.m_byVerb = f.m_byVerb
      /\ g.m_magic = f.m_magic /\ Counters(g, verb) = m
  BY DEF Fight, Counters
<1>3. Shaped(g) /\ \A w : Weighed(g, w) = Weighed(f, w)
  BY <1>2, WeighedSame
<1>4. Evade(f, now, verb, evasion) = h
  BY DEF Evade
<1> HIDE DEF m, g
<1>5. /\ n \in MeleeDamage /\ n.hits = m.hits /\ n.damage = m.damage
      /\ \A v \in Evasion : n.evaded[v] = m.evaded[v] + (IF v = evasion THEN 1 ELSE 0)
      /\ \A v \in Evasion : m.evaded[v] \in Nat
      /\ \A c \in Class : m.hits[c] \in Nat
  <2>1. m.hits \in [Class -> Nat] /\ m.evaded \in [Evasion -> Nat]
    BY <1>1 DEF MeleeDamage
  <2>2. n \in MeleeDamage
    BY <1>1 DEF MeleeDamage
  <2> DEFINE more == [m.evaded EXCEPT ![evasion] = @ + 1]
  <2>3. n.hits = m.hits /\ n.damage = m.damage /\ n.evaded = more
    BY <1>1 DEF MeleeDamage
  <2>4. \A v \in Evasion : more[v] = m.evaded[v] + (IF v = evasion THEN 1 ELSE 0)
    BY <2>1
  <2> HIDE DEF n, more
  <2> QED BY <2>1, <2>2, <2>3, <2>4
<1> HIDE DEF n
<1>6. /\ MeleeDamage_hits(n) = MeleeDamage_hits(m)
      /\ MeleeDamage_damage(n) = MeleeDamage_damage(m)
  BY <1>5 DEF MeleeDamage_hits, MeleeDamage_damage
<1>7. MeleeDamage_swings(n) = MeleeDamage_swings(m) + 1
  <2>1. MeleeDamage_hits(m) \in Nat
    BY <1>5, ClassNames DEF MeleeDamage_hits, OverClasses
  <2> QED BY <1>5, <1>6, <2>1, ClassNames DEF MeleeDamage_swings, MeleeDamage_avoided
<1>8. \A w \in Weights : /\ Shaped(h) /\ h.m_magic = f.m_magic
                         /\ Weighed(h, w) = Weighed(f, w) - w[m] + w[n]
                         /\ Weighed(f, w) \in Nat /\ w[m] \in Nat /\ w[n] \in Nat
  <2> SUFFICES ASSUME NEW w \in Weights
               PROVE  /\ Shaped(h) /\ h.m_magic = f.m_magic
                      /\ Weighed(h, w) = Weighed(f, w) - w[m] + w[n]
                      /\ Weighed(f, w) \in Nat /\ w[m] \in Nat /\ w[n] \in Nat
    OBVIOUS
  <2>1. /\ Shaped(h) /\ h.m_magic = g.m_magic
        /\ Weighed(h, w) = Weighed(g, w) - w[m] + w[n]
    BY <1>2, <1>3, <1>5, WeighedSet
  <2> HIDE DEF h
  <2> QED BY <1>1, <1>2, <1>3, <1>5, <2>1, WeighedType DEF Weights
<1> HIDE DEF h
<1>9. /\ HitsOf[n] = HitsOf[m] /\ DamageOf[n] = DamageOf[m]
      /\ SwingsOf[n] = SwingsOf[m] + 1
      /\ \A c \in Class : ClassOf(c)[n] = ClassOf(c)[m]
  BY <1>1, <1>5, <1>6, <1>7 DEF HitsOf, DamageOf, SwingsOf, ClassOf
<1>10. /\ Weighed(h, HitsOf) = Weighed(f, HitsOf)
       /\ Weighed(h, DamageOf) = Weighed(f, DamageOf)
       /\ Weighed(h, SwingsOf) = Weighed(f, SwingsOf) + 1
  BY <1>8, <1>9, WeightsOf
<1>11. \A c \in Class : Weighed(h, ClassOf(c)) = Weighed(f, ClassOf(c))
  BY <1>8, <1>9, WeightsOf
<1> QED BY <1>4, <1>8, <1>10, <1>11, WeightsOf
-----------------------------------------------------------------------------
(* All the fights of a battle together. *)
WeighedAll(fights, w) ==
  SumFunctionOnSet([i \in 1..Len(fights) |-> Weighed(fights[i], w)], 1..Len(fights))

(* What each of them keeps: spells weigh no more than the fight. *)
MagicWithin(f) == /\ f.m_magic.hits <= Weighed(f, HitsOf)
                  /\ f.m_magic.damage <= Weighed(f, DamageOf)
Kept(fights) == \A i \in 1..Len(fights) : Shaped(fights[i]) /\ MagicWithin(fights[i])

LEMMA WeighedAllType ==
  ASSUME NEW fights \in Seq(Fight), NEW w \in Weights
  PROVE  WeighedAll(fights, w) \in Nat
<1> DEFINE e == [i \in 1..Len(fights) |-> Weighed(fights[i], w)]
<1>1. Len(fights) \in Nat /\ \A i \in 1..Len(fights) : fights[i] \in Fight
  OBVIOUS
<1>2. IsFiniteSet(1..Len(fights))
  BY <1>1, FS_Interval
<1>3. \A i \in 1..Len(fights) : e[i] \in Nat
  BY <1>1, WeighedType
<1> HIDE DEF e
<1>4. SumFunctionOnSet(e, 1..Len(fights)) \in Nat
  BY <1>2, <1>3, SumType
<1> QED BY <1>4 DEF WeighedAll, e

LEMMA NoFights == Kept(<< >>) /\ \A w : WeighedAll(<< >>, w) = 0
<1>1. 1..Len(<< >>) = {}
  OBVIOUS
<1> QED BY <1>1, SumEmpty DEF WeighedAll, Kept

(* A fight that is pushed weighs nothing. *)
LEMMA NewFightWeighs ==
  ASSUME NEW s \in Nat, NEW t \in Nat, NEW now \in Int
  PROVE  LET f == NewFight(s, t, now)
         IN  /\ f \in Fight /\ Shaped(f) /\ MagicWithin(f)
             /\ \A w \in Weights : Weighed(f, w) = 0
<1> DEFINE f == NewFight(s, t, now)
<1>1. /\ f \in Fight /\ f.m_melee = NewMelee /\ f.m_byVerb = [v \in Verb |-> NewMelee]
      /\ f.m_magic = [hits |-> 0, damage |-> 0]
  BY NewMeleeType DEF NewFight, Fight
<1> HIDE DEF f
<1>2. Shaped(f)
  BY <1>1 DEF Shaped
<1>3. ASSUME NEW w \in Weights
      PROVE  Weighed(f, w) = 0
  <2>1. ~ByVerbUsed(f) /\ w[f.m_melee] = 0
    BY <1>1 DEF ByVerbUsed, Weights
  <2> QED BY <1>1, <1>2, <2>1, TotalWeighed
<1>4. MagicWithin(f)
  BY <1>1, <1>3, WeightsOf DEF MagicWithin
<1> QED BY <1>1, <1>2, <1>3, <1>4 DEF f

LEMMA PushWeighs ==
  ASSUME NEW fights \in Seq(Fight), Kept(fights), NEW s \in Nat, NEW t \in Nat,
         NEW now \in Int
  PROVE  LET more == Append(fights, NewFight(s, t, now))
         IN  Kept(more) /\ \A w \in Weights : WeighedAll(more, w) = WeighedAll(fights, w)
<1> DEFINE f == NewFight(s, t, now)
           more == Append(fights, f)
<1>1. f \in Fight /\ Shaped(f) /\ MagicWithin(f) /\ \A w \in Weights : Weighed(f, w) = 0
  BY NewFightWeighs
<1> HIDE DEF f
<1>2. /\ more \in Seq(Fight) /\ Len(more) = Len(fights) + 1 /\ Len(fights) \in Nat
      /\ \A i \in 1..Len(fights) : more[i] = fights[i]
      /\ more[Len(fights) + 1] = f
  BY <1>1, AppendProperties
<1> HIDE DEF more
<1>3. Kept(more)
  <2>1. \A i \in 1..Len(more) : i \in 1..Len(fights) \/ i = Len(fights) + 1
    BY <1>2
  <2> QED BY <1>1, <1>2, <2>1 DEF Kept
<1>4. ASSUME NEW w \in Weights
      PROVE  WeighedAll(more, w) = WeighedAll(fights, w)
  <2> DEFINE n == Len(fights)
             e == [i \in 1..n |-> Weighed(fights[i], w)]
             d == [i \in 1..Len(more) |-> Weighed(more[i], w)]
  <2>1. /\ n \in Nat /\ Len(more) = n + 1
        /\ \A i \in 1..n : i \in 1..Len(more) /\ e[i] \in Nat /\ d[i] = e[i]
        /\ d[n + 1] = 0
    <3>1. \A i \in 1..n : i \in 1..Len(more) /\ fights[i] \in Fight
      BY <1>2
    <3>2. n + 1 \in 1..Len(more)
      BY <1>2
    <3> QED BY <1>1, <1>2, <3>1, <3>2, WeighedType
  <2>2. WeighedAll(more, w) = SumFunctionOnSet(d, 1..(n + 1))
    BY <2>1 DEF WeighedAll
  <2>3. WeighedAll(fights, w) = SumFunctionOnSet(e, 1..n)
    BY DEF WeighedAll
  <2>4. IsFiniteSet(1..n)
    BY <2>1, FS_Interval
  <2> HIDE DEF e, d, n
  <2>5. SumFunctionOnSet(d, 1..(n + 1)) = SumFunctionOnSet(e, 1..n) + d[n + 1]
    <3>1. d[n + 1] \in Nat
      BY <2>1
    <3> QED BY <2>1, <3>1, SumOneMore
  <2>6. SumFunctionOnSet(e, 1..n) \in Nat
    BY <2>1, <2>4, SumType
  <2> QED BY <2>1, <2>2, <2>3, <2>5, <2>6
<1> QED BY <1>3, <1>4 DEF more, f

(* Counting in one fight weighs what it adds to that fight. *)
LEMMA UpdateWeighs ==
  ASSUME NEW fights \in Seq(Fight), Kept(fights), NEW i, i \in 1..Len(fights),
         NEW f \in Fight, Shaped(f), MagicWithin(f)
  PROVE  LET new == [fights EXCEPT ![i] = f]
         IN  /\ Kept(new)
             /\ \A w \in Weights : WeighedAll(new, w)
                  = WeighedAll(fights, w) - Weighed(fights[i], w) + Weighed(f, w)
<1> DEFINE new == [fights EXCEPT ![i] = f]
<1>1. /\ new \in Seq(Fight) /\ Len(new) = Len(fights) /\ Len(fights) \in Nat
      /\ \A j \in 1..Len(fights) : new[j] = IF j = i THEN f ELSE fights[j]
  BY ExceptSeq
<1> HIDE DEF new
<1>2. Kept(new)
  BY <1>1 DEF Kept
<1>3. ASSUME NEW w \in Weights
      PROVE  WeighedAll(new, w) = WeighedAll(fights, w) - Weighed(fights[i], w) + Weighed(f, w)
  <2> DEFINE places == 1..Len(fights)
             e == [j \in places |-> Weighed(fights[j], w)]
             d == [j \in places |-> Weighed(new[j], w)]
  <2>1. \A j \in places : fights[j] \in Fight /\ new[j] \in Fight
    BY <1>1
  <2>2. /\ \A j \in places : e[j] \in Nat /\ d[j] \in Nat
        /\ \A j \in places \ {i} : d[j] = e[j]
        /\ e[i] = Weighed(fights[i], w) /\ d[i] = Weighed(f, w)
    BY <1>1, <2>1, WeighedType
  <2>3. WeighedAll(new, w) = SumFunctionOnSet(d, places) /\ WeighedAll(fights, w) = SumFunctionOnSet(e, places)
    BY <1>1 DEF WeighedAll
  <2>4. IsFiniteSet(places) /\ i \in places
    BY <1>1, FS_Interval
  <2> HIDE DEF e, d, places
  <2>5. SumFunctionOnSet(d, places) = SumFunctionOnSet(e, places) - e[i] + d[i]
    <3>1. IsFiniteSet(places)
      BY <2>4
    <3>2. i \in places
      BY <2>4
    <3>3. \A j \in places : e[j] \in Nat
      BY <2>2
    <3>4. \A j \in places : d[j] \in Nat
      BY <2>2
    <3>5. \A j \in places \ {i} : d[j] = e[j]
      BY <2>2
    <3> QED BY ONLY <3>1, <3>2, <3>3, <3>4, <3>5, SumUpdate
  <2> QED BY <2>2, <2>3, <2>5
<1> QED BY <1>2, <1>3 DEF new
-----------------------------------------------------------------------------
(* A battle whose fights hold what is claimed, and whose special hits, with *)
(* the ones still to come, were announced.                                  *)
Awaited(last, c) == IF last[c] # 0 THEN 1 ELSE 0
Counted(b, told, damage, swings) ==
  /\ Kept(b.m_fight)
  /\ WeighedAll(b.m_fight, DamageOf) = damage
  /\ WeighedAll(b.m_fight, SwingsOf) = swings
  /\ \A c \in Special :
       WeighedAll(b.m_fight, ClassOf(c)) + Awaited(b.m_last, c) <= told[c]

SameCounts(b, c) == c.m_fight = b.m_fight /\ c.m_last = b.m_last
LEMMA CountedSame ==
  ASSUME NEW b, NEW c, SameCounts(b, c), NEW told, NEW damage, NEW swings,
         Counted(b, told, damage, swings)
  PROVE  Counted(c, told, damage, swings)
BY DEF SameCounts, Counted, Awaited

LEMMA KeepaliveCounts ==
  ASSUME NEW b \in BattleState, NEW now \in Int
  PROVE  SameCounts(b, Keepalive(b, now))
BY KeepaliveType DEF SameCounts

LEMMA EngageCounts ==
  ASSUME NEW b, GoodBattle(b), NEW now \in Int, NEW a \in Action
  PROVE  SameCounts(b, Engage(b, now, a))
<1> DEFINE st == Start(b, now)
           pc == Intern(Intern(st.m_pc, a.source), a.target)
           e  == [st EXCEPT !.m_pc = pc]
<1>1. st \in BattleState /\ st.m_fight = b.m_fight /\ st.m_last = b.m_last
  BY GoodParts, StartType
<1>2. Engage(b, now, a) = e
  BY DEF Engage
<1> HIDE DEF st, pc
<1>3. e.m_fight = st.m_fight /\ e.m_last = st.m_last
  BY <1>1 DEF BattleState
<1> HIDE DEF e
<1> QED BY <1>1, <1>2, <1>3 DEF SameCounts

(* The fight asked for is found, or pushed and weighs nothing yet. *)
LEMMA GetFightCounts ==
  ASSUME NEW fights \in Seq(Fight), Kept(fights), NEW s \in Nat, NEW t \in Nat,
         NEW now \in Int
  PROVE  LET g == GetFight(fights, now, s, t)
         IN  Kept(g) /\ \A w \in Weights : WeighedAll(g, w) = WeighedAll(fights, w)
BY PushWeighs DEF GetFight

(* Both of a line's names interned and its fight found: what Battle_melee, *)
(* Battle_miss and Battle_magic begin with.                                *)
LEMMA FoundCounts ==
  ASSUME NEW b, GoodBattle(b), NEW now \in Int, NEW a \in Action,
         a.source \in Name, a.target \in Name, NEW told, NEW damage, NEW swings,
         Counted(b, told, damage, swings)
  PROVE  LET e      == Engage(b, now, a)
             s      == PCIndex(e.m_pc, a.source)
             t      == PCIndex(e.m_pc, a.target)
             fights == GetFight(e.m_fight, now, s, t)
             i      == FightPosition(fights, s, t)
         IN  /\ e \in BattleState /\ e.m_last = b.m_last /\ e.m_last \in [Special -> Nat]
             /\ s \in 1..Len(e.m_pc) /\ t \in 1..Len(e.m_pc)
             /\ Len(e.m_pc) \in Nat
             /\ FightsOver(fights, Len(e.m_pc)) /\ fights \in Seq(Fight)
             /\ i \in 1..Len(fights) /\ fights[i] \in Fight
             /\ fights[i].sourceId = s /\ fights[i].targetId = t
             /\ Kept(fights)
             /\ \A w \in Weights : WeighedAll(fights, w) = WeighedAll(b.m_fight, w)
<1> DEFINE e      == Engage(b, now, a)
           s      == PCIndex(e.m_pc, a.source)
           t      == PCIndex(e.m_pc, a.target)
           fights == GetFight(e.m_fight, now, s, t)
           i      == FightPosition(fights, s, t)
<1>1. GoodBattle(e) /\ s \in 1..Len(e.m_pc) /\ t \in 1..Len(e.m_pc)
  BY EngageFinds
<1>2. e.m_fight = b.m_fight /\ e.m_last = b.m_last
  BY EngageCounts DEF SameCounts
<1> HIDE DEF e, s, t
<1>3. /\ e \in BattleState /\ Len(e.m_pc) \in Nat /\ FightsOver(e.m_fight, Len(e.m_pc))
      /\ e.m_last \in [Special -> Nat]
  BY <1>1, GoodParts
<1>4. /\ FightsOver(fights, Len(e.m_pc)) /\ i \in 1..Len(fights)
      /\ fights[i].sourceId = s /\ fights[i].targetId = t
  BY <1>1, <1>3, GetFightFinds
<1>5. Kept(fights) /\ \A w \in Weights : WeighedAll(fights, w) = WeighedAll(e.m_fight, w)
  <2>1. e.m_fight \in Seq(Fight) /\ Kept(e.m_fight) /\ s \in Nat /\ t \in Nat
    BY <1>1, <1>2, <1>3 DEF FightsOver, Counted
  <2> QED BY <2>1, GetFightCounts
<1> HIDE DEF fights, i
<1>6. fights \in Seq(Fight) /\ fights[i] \in Fight
  BY <1>4 DEF FightsOver
<1> QED BY <1>1, <1>2, <1>3, <1>4, <1>5, <1>6 DEF e, s, t, fights, i

(* The hit is of a special class only when one of its damage was announced,*)
(* which no later hit can claim again.                                     *)
LEMMA ClassAwaited ==
  ASSUME NEW last \in [Special -> Nat], NEW damage \in Nat, damage > 0
  PROVE  LET class == HitClass(last, damage)
         IN  class \in Special => last[class] # 0
BY DEF HitClass, Special

(* Battle_melee, of anything but a finishing blow.  Its fight, too, is left *)
(* with room for the spell that Battle_magic counts next.                   *)
LEMMA MeleeCounts ==
  ASSUME NEW b, GoodBattle(b), NEW now \in Int, NEW a \in Action,
         a.source \in Name, a.target \in Name, ~IsBlow(a), a.damage > 0,
         NEW told \in [Special -> Nat], NEW damage \in Nat, NEW swings \in Nat,
         Counted(b, told, damage, swings)
  PROVE  LET m == Melee(b, now, a)
             s == PCIndex(m.m_pc, a.source)
             t == PCIndex(m.m_pc, a.target)
         IN  /\ Counted(m, told, damage + a.damage, swings + 1)
             /\ s \in 1..Len(m.m_pc) /\ t \in 1..Len(m.m_pc)
             /\ \E i \in 1..Len(m.m_fight) :
                  LET f == m.m_fight[i]
                  IN  /\ f.sourceId = s /\ f.targetId = t
                      /\ f.m_magic.hits + 1 <= Weighed(f, HitsOf)
                      /\ f.m_magic.damage + a.damage <= Weighed(f, DamageOf)
<1> DEFINE e      == Engage(b, now, a)
           s      == PCIndex(e.m_pc, a.source)
           t      == PCIndex(e.m_pc, a.target)
           fights == GetFight(e.m_fight, now, s, t)
           i      == FightPosition(fights, s, t)
           class  == HitClass(e.m_last, a.damage)
           h      == Hit(fights[i], now, a.verb, class, a.damage)
           last   == [c \in Special |-> IF c = class THEN 0 ELSE e.m_last[c]]
           struck == [fights EXCEPT ![i] = h]
           c      == [e EXCEPT !.m_fight = struck, !.m_last = last]
           m      == Melee(b, now, a)
<1>1. /\ e \in BattleState /\ e.m_last = b.m_last /\ e.m_last \in [Special -> Nat]
      /\ s \in 1..Len(e.m_pc) /\ t \in 1..Len(e.m_pc)
      /\ fights \in Seq(Fight)
      /\ i \in 1..Len(fights) /\ fights[i] \in Fight
      /\ fights[i].sourceId = s /\ fights[i].targetId = t
      /\ Kept(fights)
      /\ \A w \in Weights : WeighedAll(fights, w) = WeighedAll(b.m_fight, w)
  BY FoundCounts
<1>2. m = Keepalive(c, now)
  BY DEF Melee, IsBlow
<1>3. a.verb \in Verb /\ a.damage \in Nat
  BY DEF Action
<1> HIDE DEF e, s, t, fights, i, m
<1>4. class \in Class /\ (class \in Special => b.m_last[class] # 0)
  BY <1>1, <1>3, HitClassType, ClassAwaited
<1> HIDE DEF class
<1>5. /\ h \in Fight /\ h.sourceId = s /\ h.targetId = t
      /\ Shaped(h) /\ h.m_magic = fights[i].m_magic
      /\ Weighed(h, HitsOf) = Weighed(fights[i], HitsOf) + 1
      /\ Weighed(h, DamageOf) = Weighed(fights[i], DamageOf) + a.damage
      /\ Weighed(h, SwingsOf) = Weighed(fights[i], SwingsOf) + 1
      /\ \A k \in Class : Weighed(h, ClassOf(k))
                            = Weighed(fights[i], ClassOf(k)) + (IF k = class THEN 1 ELSE 0)
  <2>1. Shaped(fights[i])
    BY <1>1 DEF Kept
  <2> DEFINE f == fights[i]
             verb == a.verb
             much == a.damage
  <2>2. f \in Fight /\ Shaped(f) /\ verb \in Verb /\ much \in Nat /\ class \in Class
    BY <1>1, <1>3, <1>4, <2>1
  <2>3. f.sourceId = s /\ f.targetId = t /\ h = Hit(f, now, verb, class, much)
    BY <1>1
  <2> HIDE DEF f, verb, much, h
  <2>4. h \in Fight /\ h.sourceId = s /\ h.targetId = t
    BY <2>2, <2>3, HitType
  <2>5. /\ Shaped(h) /\ h.m_magic = f.m_magic
        /\ Weighed(h, HitsOf) = Weighed(f, HitsOf) + 1
        /\ Weighed(h, DamageOf) = Weighed(f, DamageOf) + much
        /\ Weighed(h, SwingsOf) = Weighed(f, SwingsOf) + 1
        /\ \A k \in Class : Weighed(h, ClassOf(k))
                              = Weighed(f, ClassOf(k)) + (IF k = class THEN 1 ELSE 0)
    BY <2>2, <2>3, HitWeighs
  <2> QED BY <2>4, <2>5 DEF f, much
<1>6. /\ fights[i].m_magic.hits \in Nat /\ fights[i].m_magic.damage \in Nat
      /\ \A w \in Weights : Weighed(fights[i], w) \in Nat
  BY <1>1, WeighedType DEF Fight
<1> HIDE DEF h
<1>7. /\ MagicWithin(h)
      /\ h.m_magic.hits + 1 <= Weighed(h, HitsOf)
      /\ h.m_magic.damage + a.damage <= Weighed(h, DamageOf)
  <2>1. MagicWithin(fights[i])
    BY <1>1 DEF Kept
  <2> QED BY <1>3, <1>5, <1>6, <2>1, WeightsOf DEF MagicWithin
<1>8. /\ Kept(struck)
      /\ \A w \in Weights : WeighedAll(struck, w)
           = WeighedAll(fights, w) - Weighed(fights[i], w) + Weighed(h, w)
  BY <1>1, <1>5, <1>7, UpdateWeighs
<1>9. Len(struck) = Len(fights) /\ struck[i] = h /\ struck \in Seq(Fight)
  BY <1>1, <1>5, ExceptSeq
<1>10. \A w \in Weights : WeighedAll(b.m_fight, w) \in Nat
  <2>1. \A w \in Weights : WeighedAll(fights, w) \in Nat
    BY <1>1, WeighedAllType
  <2> QED BY <1>1, <2>1
<1> HIDE DEF struck
<1>11. last \in [Special -> Nat]
  BY <1>1
<1>12. c \in BattleState /\ c.m_fight = struck /\ c.m_last = last /\ c.m_pc = e.m_pc
  <2> HIDE DEF last
  <2> QED BY <1>1, <1>9, <1>11 DEF BattleState
<1> HIDE DEF c
<1>13. m.m_fight = struck /\ m.m_last = last /\ m.m_pc = e.m_pc
  BY <1>2, <1>12, KeepaliveType
<1>14. /\ WeighedAll(struck, DamageOf) = damage + a.damage
       /\ WeighedAll(struck, SwingsOf) = swings + 1
  <2>1. ASSUME NEW w \in Weights, NEW n \in Nat, NEW old \in Nat,
               WeighedAll(b.m_fight, w) = old,
               Weighed(h, w) = Weighed(fights[i], w) + n
        PROVE  WeighedAll(struck, w) = old + n
    <3>1. /\ WeighedAll(struck, w) = WeighedAll(fights, w) - Weighed(fights[i], w) + Weighed(h, w)
          /\ WeighedAll(fights, w) = old /\ Weighed(fights[i], w) \in Nat
      BY <1>1, <1>6, <1>8, <2>1
    <3> DEFINE x == Weighed(fights[i], w)
    <3>2. WeighedAll(struck, w) = old - x + (x + n) /\ x \in Nat
      BY <2>1, <3>1
    <3> HIDE DEF x
    <3>3. old - x + (x + n) = old + n
      BY ONLY <3>2, n \in Nat, old \in Nat
    <3> QED BY <3>2, <3>3
  <2>2. WeighedAll(b.m_fight, DamageOf) = damage /\ WeighedAll(b.m_fight, SwingsOf) = swings
    BY DEF Counted
  <2> QED BY <1>3, <1>5, <2>1, <2>2, WeightsOf
<1>15. ASSUME NEW k \in Special
       PROVE  WeighedAll(struck, ClassOf(k)) + Awaited(last, k) <= told[k]
  <2>1. k \in Class /\ ClassOf(k) \in Weights
    BY WeightsOf DEF Class
  <2>2. WeighedAll(struck, ClassOf(k))
          = WeighedAll(b.m_fight, ClassOf(k)) + (IF k = class THEN 1 ELSE 0)
    <3> DEFINE w == ClassOf(k)
               x == Weighed(fights[i], w)
               one == IF k = class THEN 1 ELSE 0
    <3>1. Weighed(h, w) = x + one
      BY <1>5, <2>1
    <3>2. w \in Weights
      BY <2>1
    <3> HIDE DEF w
    <3>3. WeighedAll(struck, w) = WeighedAll(fights, w) - x + Weighed(h, w)
      BY <1>8, <3>2
    <3>4. /\ WeighedAll(fights, w) = WeighedAll(b.m_fight, w)
          /\ WeighedAll(b.m_fight, w) \in Nat
      BY <1>1, <1>10, <3>2
    <3>5. x \in Nat /\ one \in Nat
      BY <1>6, <3>2
    <3> HIDE DEF x, one
    <3> QED BY <3>1, <3>3, <3>4, <3>5 DEF w, one
  <2>3. WeighedAll(b.m_fight, ClassOf(k)) + Awaited(b.m_last, k) <= told[k]
    BY DEF Counted
  <2>4. CASE k = class
    BY <1>1, <1>4, <1>10, <2>1, <2>2, <2>3, <2>4 DEF Awaited
  <2>5. CASE k # class
    BY <1>1, <1>10, <2>1, <2>2, <2>3, <2>5 DEF Awaited
  <2> QED BY <2>4, <2>5
<1> HIDE DEF last
<1>16. Counted(m, told, damage + a.damage, swings + 1)
  BY <1>8, <1>13, <1>14, <1>15 DEF Counted
<1>17. \E j \in 1..Len(m.m_fight) :
         LET f == m.m_fight[j]
         IN  /\ f.sourceId = s /\ f.targetId = t
             /\ f.m_magic.hits + 1 <= Weighed(f, HitsOf)
             /\ f.m_magic.damage + a.damage <= Weighed(f, DamageOf)
  BY <1>1, <1>5, <1>7, <1>9, <1>13
<1>18. PCIndex(m.m_pc, a.source) = s /\ PCIndex(m.m_pc, a.target) = t
  BY <1>13 DEF s, t
<1> QED BY <1>1, <1>13, <1>16, <1>17, <1>18 DEF m

(* A finishing blow counts in no fight. *)
LEMMA BlowCounts ==
  ASSUME NEW b, GoodBattle(b), NEW now \in Int, NEW a \in Action,
         a.source \in Name, a.target \in Name, IsBlow(a)
  PROVE  SameCounts(b, Melee(b, now, a))
<1> DEFINE e == Engage(b, now, a)
           t == PCIndex(e.m_pc, a.target)
           d == [e EXCEPT !.m_lastFinishingBlow = t]
<1>1. e \in BattleState /\ SameCounts(b, e)
  BY EngageFinds, EngageCounts, GoodParts
<1>2. Melee(b, now, a) = d
  BY DEF Melee, IsBlow
<1> HIDE DEF e, t
<1>3. SameCounts(e, d)
  BY <1>1 DEF BattleState, SameCounts
<1> HIDE DEF d
<1> QED BY <1>1, <1>2, <1>3 DEF SameCounts

(* Battle_miss. *)
LEMMA MissCounts ==
  ASSUME NEW b, GoodBattle(b), NEW now \in Int, NEW a \in Action,
         a.source \in Name, a.target \in Name, a.type \in Evasion,
         NEW told \in [Special -> Nat], NEW damage \in Nat, NEW swings \in Nat,
         Counted(b, told, damage, swings)
  PROVE  Counted(Miss(b, now, a), told, damage, swings + 1)
<1> DEFINE e      == Engage(b, now, a)
           s      == PCIndex(e.m_pc, a.source)
           t      == PCIndex(e.m_pc, a.target)
           fights == GetFight(e.m_fight, now, s, t)
           i      == FightPosition(fights, s, t)
           f      == fights[i]
           h      == Evade(f, now, a.verb, a.type)
           struck == [fights EXCEPT ![i] = h]
           c      == [e EXCEPT !.m_fight = struck]
<1>1. /\ e \in BattleState /\ e.m_last = b.m_last
      /\ fights \in Seq(Fight) /\ i \in 1..Len(fights) /\ f \in Fight
      /\ Kept(fights)
      /\ \A w \in Weights : WeighedAll(fights, w) = WeighedAll(b.m_fight, w)
  BY FoundCounts
<1>2. Miss(b, now, a) = Keepalive(c, now)
  BY DEF Miss
<1>3. a.verb \in Verb
  BY DEF Action
<1>4. Shaped(f) /\ MagicWithin(f)
  BY <1>1 DEF Kept
<1> HIDE DEF e, s, t, fights, i
<1>5. /\ h \in Fight /\ Shaped(h) /\ h.m_magic = f.m_magic
      /\ Weighed(h, HitsOf) = Weighed(f, HitsOf)
      /\ Weighed(h, DamageOf) = Weighed(f, DamageOf)
      /\ Weighed(h, SwingsOf) = Weighed(f, SwingsOf) + 1
      /\ \A k \in Class : Weighed(h, ClassOf(k)) = Weighed(f, ClassOf(k))
  <2> DEFINE verb == a.verb
             evasion == a.type
  <2>1. verb \in Verb /\ evasion \in Evasion /\ h = Evade(f, now, verb, evasion)
    BY <1>3
  <2> HIDE DEF f, h, verb, evasion
  <2> QED BY <1>1, <1>4, <2>1, EvadeType, EvadeWeighs
<1>6. \A w \in Weights : Weighed(f, w) \in Nat
  BY <1>1, WeighedType
<1> HIDE DEF h
<1>7. MagicWithin(h)
  BY <1>4, <1>5 DEF MagicWithin
<1>8. /\ Kept(struck)
      /\ \A w \in Weights : WeighedAll(struck, w)
           = WeighedAll(fights, w) - Weighed(f, w) + Weighed(h, w)
  BY <1>1, <1>5, <1>7, UpdateWeighs
<1>9. struck \in Seq(Fight)
  BY <1>1, <1>5, ExceptSeq
<1>10. \A w \in Weights : WeighedAll(b.m_fight, w) \in Nat
  <2>1. \A w \in Weights : WeighedAll(fights, w) \in Nat
    BY <1>1, WeighedAllType
  <2> QED BY <1>1, <2>1
<1> HIDE DEF struck, f
<1>11. c \in BattleState /\ c.m_fight = struck /\ c.m_last = b.m_last
  BY <1>1, <1>9 DEF BattleState
<1> HIDE DEF c
<1>12. Miss(b, now, a).m_fight = struck /\ Miss(b, now, a).m_last = b.m_last
  BY <1>2, <1>11, KeepaliveType
<1>13. /\ WeighedAll(struck, DamageOf) = damage
       /\ WeighedAll(struck, SwingsOf) = swings + 1
       /\ \A k \in Special : WeighedAll(struck, ClassOf(k)) = WeighedAll(b.m_fight, ClassOf(k))
  <2>1. ASSUME NEW w \in Weights, NEW n \in Nat, NEW old \in Nat,
               WeighedAll(b.m_fight, w) = old,
               Weighed(h, w) = Weighed(f, w) + n
        PROVE  WeighedAll(struck, w) = old + n
    <3>1. /\ WeighedAll(struck, w) = WeighedAll(fights, w) - Weighed(f, w) + Weighed(h, w)
          /\ WeighedAll(fights, w) = old /\ Weighed(f, w) \in Nat
      BY <1>1, <1>6, <1>8, <2>1
    <3> QED BY <2>1, <3>1
  <2>2. ASSUME NEW w \in Weights, NEW old \in Nat, WeighedAll(b.m_fight, w) = old,
               Weighed(h, w) = Weighed(f, w)
        PROVE  WeighedAll(struck, w) = old
    <3>1. Weighed(h, w) = Weighed(f, w) + 0
      BY <1>6, <2>2
    <3> QED BY <2>1, <2>2, <3>1
  <2>3. WeighedAll(b.m_fight, DamageOf) = damage /\ WeighedAll(b.m_fight, SwingsOf) = swings
    BY DEF Counted
  <2>4. \A k \in Special : k \in Class /\ ClassOf(k) \in Weights
    BY WeightsOf DEF Class
  <2> QED BY <1>5, <1>10, <2>1, <2>2, <2>3, <2>4, WeightsOf
<1> QED BY <1>8, <1>12, <1>13 DEF Counted, Awaited

(* Battle_magic finds the fight that Battle_melee has counted the hit in.   *)
LEMMA MagicCounts ==
  ASSUME NEW b, GoodBattle(b), NEW now \in Int, NEW a \in Action,
         a.source \in Name, a.target \in Name, a.type = "MAGIC", a.damage > 0,
         NEW told \in [Special -> Nat], NEW damage \in Nat, NEW swings \in Nat,
         Counted(b, told, damage, swings)
  PROVE  Counted(Magic(b, now, a), told, damage + a.damage, swings + 1)
<1> DEFINE m      == Melee(b, now, a)
           e      == Engage(m, now, a)
           s      == PCIndex(e.m_pc, a.source)
           t      == PCIndex(e.m_pc, a.target)
           fights == GetFight(e.m_fight, now, s, t)
           i      == FightPosition(fights, s, t)
           f      == fights[i]
           h      == [f EXCEPT !.m_magic.hits = @ + 1,
                               !.m_magic.damage = @ + a.damage,
                               !.end = now]
           counted == [fights EXCEPT ![i].m_magic.hits = @ + 1,
                                     ![i].m_magic.damage = @ + a.damage,
                                     ![i].end = now]
           struck == [fights EXCEPT ![i] = h]
           c      == [e EXCEPT !.m_fight = counted]
           ms     == PCIndex(m.m_pc, a.source)
           mt     == PCIndex(m.m_pc, a.target)
<1>1. GoodBattle(m)
  BY MeleeGood
<1>2. /\ Counted(m, told, damage + a.damage, swings + 1)
      /\ ms \in 1..Len(m.m_pc) /\ mt \in 1..Len(m.m_pc)
      /\ \E j \in 1..Len(m.m_fight) :
           LET g == m.m_fight[j]
           IN  /\ g.sourceId = ms /\ g.targetId = mt
               /\ g.m_magic.hits + 1 <= Weighed(g, HitsOf)
               /\ g.m_magic.damage + a.damage <= Weighed(g, DamageOf)
  BY MeleeCounts DEF IsBlow
<1>3. Magic(b, now, a) = Keepalive(c, now)
  BY DEF Magic
<1> HIDE DEF m
<1>4. /\ e \in BattleState /\ e.m_last = m.m_last
      /\ s \in 1..Len(e.m_pc) /\ t \in 1..Len(e.m_pc) /\ Len(e.m_pc) \in Nat
      /\ FightsOver(fights, Len(e.m_pc)) /\ fights \in Seq(Fight)
      /\ i \in 1..Len(fights) /\ f \in Fight
      /\ f.sourceId = s /\ f.targetId = t
      /\ Kept(fights)
      /\ \A w \in Weights : WeighedAll(fights, w) = WeighedAll(m.m_fight, w)
  BY <1>1, <1>2, FoundCounts
<1>5. e.m_fight = m.m_fight
  BY <1>1, EngageCounts DEF SameCounts
<1>6. e.m_pc = m.m_pc /\ s = ms /\ t = mt
  <2>1. Start(m, now).m_pc = m.m_pc /\ Start(m, now) \in BattleState
    BY <1>1, GoodParts, StartType
  <2>2. ms # NoId /\ mt # NoId
    BY <1>1, <1>2, GoodParts DEF NoId
  <2>3. Intern(m.m_pc, a.source) = m.m_pc /\ Intern(m.m_pc, a.target) = m.m_pc
    BY <2>2 DEF Intern
  <2>4. e.m_pc = m.m_pc
    BY <2>1, <2>3 DEF Engage, BattleState
  <2> QED BY <2>4
<1> HIDE DEF ms, mt
<1>7. f.m_magic.hits + 1 <= Weighed(f, HitsOf) /\ f.m_magic.damage + a.damage <= Weighed(f, DamageOf)
  <2>1. PICK j \in 1..Len(m.m_fight) :
           /\ m.m_fight[j].sourceId = ms /\ m.m_fight[j].targetId = mt
           /\ m.m_fight[j].m_magic.hits + 1 <= Weighed(m.m_fight[j], HitsOf)
           /\ m.m_fight[j].m_magic.damage + a.damage <= Weighed(m.m_fight[j], DamageOf)
    BY <1>2
  <2>2. m.m_fight \in Seq(Fight)
    BY <1>1, GoodParts DEF BattleState
  <2>3. FightPosition(m.m_fight, ms, mt) # NoId
    BY <2>1, <2>2, FightPositionFinds
  <2>4. fights = m.m_fight
    BY <1>5, <1>6, <2>3 DEF GetFight
  <2>5. i = j
    <3>1. \A x, y \in 1..Len(fights) : /\ fights[x].sourceId = fights[y].sourceId
                                       /\ fights[x].targetId = fights[y].targetId
                                       => x = y
      BY <1>4 DEF FightsOver
    <3>2. /\ i \in 1..Len(fights) /\ j \in 1..Len(fights)
          /\ fights[i].sourceId = fights[j].sourceId
          /\ fights[i].targetId = fights[j].targetId
      BY <1>4, <1>6, <2>1, <2>4
    <3> QED BY <3>1, <3>2
  <2> QED BY <2>1, <2>4, <2>5
<1>8. a.damage \in Nat
  BY DEF Action
<1> HIDE DEF e, s, t, fights, i
<1>9. counted = struck
  BY <1>4 DEF Fight
<1>10. /\ h \in Fight /\ h.m_melee = f.m_melee /\ h.m_byVerb = f.m_byVerb
       /\ h.m_magic.hits = f.m_magic.hits + 1
       /\ h.m_magic.damage = f.m_magic.damage + a.damage
  <2>1. h \in Fight
    BY <1>4, <1>8, MagicCountType
  <2> QED BY <1>4, <2>1 DEF Fight
<1> HIDE DEF f, h
<1>11. Shaped(h) /\ \A w : Weighed(h, w) = Weighed(f, w)
  <2>1. Shaped(f)
    BY <1>4 DEF Kept, f
  <2> QED BY <1>10, <2>1, WeighedSame
<1>12. MagicWithin(h)
  BY <1>7, <1>10, <1>11 DEF MagicWithin
<1>13. /\ Kept(struck)
       /\ \A w \in Weights : WeighedAll(struck, w) = WeighedAll(m.m_fight, w)
  <2>1. /\ Kept(struck)
        /\ \A w \in Weights : WeighedAll(struck, w)
             = WeighedAll(fights, w) - Weighed(f, w) + Weighed(h, w)
    BY <1>4, <1>10, <1>11, <1>12, UpdateWeighs DEF f
  <2>2. ASSUME NEW w, w \in Weights
        PROVE  WeighedAll(struck, w) = WeighedAll(m.m_fight, w)
    <3>1. Weighed(f, w) \in Nat /\ WeighedAll(fights, w) \in Nat
      BY <1>4, <2>2, WeighedType, WeighedAllType
    <3>2. WeighedAll(struck, w) = WeighedAll(fights, w) - Weighed(f, w) + Weighed(h, w)
      BY <2>1, <2>2
    <3>3. Weighed(h, w) = Weighed(f, w)
      BY <1>11
    <3>4. WeighedAll(fights, w) = WeighedAll(m.m_fight, w)
      BY <1>4, <2>2
    <3>5. WeighedAll(struck, w) = WeighedAll(fights, w)
      <4> DEFINE x == Weighed(f, w)
                 y == WeighedAll(fights, w)
      <4>1. x \in Nat /\ y \in Nat /\ WeighedAll(struck, w) = y - x + x
        BY <3>1, <3>2, <3>3
      <4> HIDE DEF x, y
      <4>2. WeighedAll(struck, w) = y
        BY ONLY <4>1
      <4> QED BY <4>2 DEF y
    <3> QED BY <3>4, <3>5
  <2> QED BY <2>1, <2>2
<1>14. struck \in Seq(Fight)
  BY <1>4, <1>10, ExceptSeq
<1> HIDE DEF struck, counted
<1>15. c \in BattleState /\ c.m_fight = struck /\ c.m_last = m.m_last
  BY <1>4, <1>9, <1>14 DEF BattleState
<1> HIDE DEF c
<1>16. Magic(b, now, a).m_fight = struck /\ Magic(b, now, a).m_last = m.m_last
  <2> DEFINE k == Keepalive(c, now)
  <2>1. k.m_fight = c.m_fight /\ k.m_last = c.m_last
    BY <1>15, KeepaliveType
  <2>2. Magic(b, now, a) = k
    BY <1>3
  <2> HIDE DEF k
  <2> QED BY <1>15, <2>1, <2>2
<1>17. \A k \in Special : ClassOf(k) \in Weights
  BY WeightsOf DEF Class
<1> QED BY <1>2, <1>13, <1>16, <1>17, WeightsOf DEF Counted, Awaited

(* Battle_heal and Battle_death leave the fights alone. *)
LEMMA HealCounts ==
  ASSUME NEW b, GoodBattle(b), NEW now \in Int, NEW a \in Action
  PROVE  SameCounts(b, Heal(b, now, a))
<1> DEFINE st == Start(b, now)
           c  == [st EXCEPT !.m_totalHeals = st.m_totalHeals + a.damage]
<1>1. st \in BattleState /\ SameCounts(b, st)
  BY GoodParts, StartType DEF SameCounts
<1>2. Heal(b, now, a) = Keepalive(c, now)
  BY DEF Heal
<1> HIDE DEF st
<1>3. SameCounts(st, Keepalive(c, now))
  BY <1>1 DEF Keepalive, BattleState, SameCounts
<1> HIDE DEF c
<1> QED BY <1>1, <1>2, <1>3 DEF SameCounts

LEMMA DieCounts ==
  ASSUME NEW b, GoodBattle(b), NEW now \in Int, NEW a \in Action
  PROVE  SameCounts(b, Die(b, now, a))
<1> DEFINE e == Engage(b, now, a)
           s == PCIndex(e.m_pc, a.source)
           t == PCIndex(e.m_pc, a.target)
           finishing == t = e.m_lastFinishingBlow
           deaths == Append(e.m_death, [sourceId |-> s, targetId |-> t,
                                        finishingBlow |-> finishing])
           blow == IF finishing THEN NoId ELSE e.m_lastFinishingBlow
           c == [e EXCEPT !.m_death = deaths, !.m_lastFinishingBlow = blow]
<1>1. e \in BattleState /\ SameCounts(b, e)
  BY EngageFinds, EngageCounts, GoodParts
<1>2. Die(b, now, a) = Keepalive(c, now)
  BY DEF Die
<1> HIDE DEF e, deaths, blow
<1>3. SameCounts(e, Keepalive(c, now))
  BY <1>1 DEF Keepalive, BattleState, SameCounts
<1> HIDE DEF c
<1> QED BY <1>1, <1>2, <1>3 DEF SameCounts

(* Battle_crit, Battle_crip, Battle_holyBlade: one more is awaited at most, *)
(* and one more was announced.                                              *)
LEMMA AnnounceCounts ==
  ASSUME NEW b, GoodBattle(b), NEW class \in Special, NEW a \in Action,
         NEW told \in [Special -> Nat], NEW damage, NEW swings,
         Counted(b, told, damage, swings)
  PROVE  Counted(Announce(b, class, a), [told EXCEPT ![class] = @ + 1], damage, swings)
<1> DEFINE c == Announce(b, class, a)
           more == [told EXCEPT ![class] = @ + 1]
<1>1. /\ c.m_fight = b.m_fight
      /\ \A k \in Special \ {class} : c.m_last[k] = b.m_last[k]
  BY GoodParts DEF Announce, BattleState
<1> HIDE DEF c
<1>2. /\ more[class] = told[class] + 1 /\ \A k \in Special \ {class} : more[k] = told[k]
      /\ \A k \in Special : told[k] \in Nat
  OBVIOUS
<1> HIDE DEF more
<1>3. \A k \in Special : WeighedAll(b.m_fight, ClassOf(k)) \in Nat
  <2>1. b.m_fight \in Seq(Fight)
    BY GoodParts DEF BattleState
  <2>2. \A k \in Special : ClassOf(k) \in Weights
    BY WeightsOf DEF Class
  <2> QED BY <2>1, <2>2, WeighedAllType
<1>4. ASSUME NEW k \in Special
      PROVE  WeighedAll(c.m_fight, ClassOf(k)) + Awaited(c.m_last, k) <= more[k]
  <2>1. WeighedAll(b.m_fight, ClassOf(k)) + Awaited(b.m_last, k) <= told[k]
    BY DEF Counted
  <2> QED BY <1>1, <1>2, <1>3, <2>1 DEF Awaited
<1> QED BY <1>1, <1>4 DEF Counted, c, more

(* Battle_reset. *)
LEMMA ResetCounts ==
  ASSUME NEW b \in BattleState
  PROVE  Counted(Reset(b), NothingAnnounced, 0, 0)
<1>1. Reset(b).m_fight = << >> /\ Reset(b).m_last = [c \in Special |-> 0]
  BY DEF Reset, BattleState
<1> QED BY <1>1, NoFights DEF Counted, Awaited, NothingAnnounced
-----------------------------------------------------------------------------
(* The inductive invariant: the battle of a program that runs holds what   *)
(* the history counted; main() destroys it at the end, and only what was   *)
(* announced is still remembered.                                          *)
CInv == /\ running => Counted(battle, announced, dealt, swung)
        /\ ~running => /\ battle.m_fight = << >>
                       /\ \A c \in Special : Awaited(battle.m_last, c) <= announced[c]

(* What the battle a handler finds holds, the history has counted. *)
LEMMA CurrentCounts ==
  ASSUME IInv, CInv, running, NEW d
  PROVE  Counted(Current(d), IF IsOver(battle, d) THEN NothingAnnounced ELSE announced,
                 IF IsOver(battle, d) THEN 0 ELSE dealt,
                 IF IsOver(battle, d) THEN 0 ELSE swung)
<1>1. battle \in BattleState
  BY DEF IInv, TypeOK
<1> QED BY <1>1, ResetCounts DEF Current, CInv

(* The inductive step, one case per action. *)
LEMMA NextCounts ==
  ASSUME IInv, CInv, [Next]_vars
  PROVE  CInv'
<1>1. CASE UNCHANGED vars
  BY <1>1 DEF vars, history, CInv
<1>2. ASSUME NEW d \in Dates, Skip(d) \/ Stop(d)
      PROVE  CInv'
  BY <1>2 DEF Skip, Stop, Reads, history, CInv
<1>3. CASE Undated
  BY <1>3 DEF Undated, history, CInv
<1>4. CASE Finish
  <2>1. /\ battle'.m_fight = << >> /\ battle'.m_last = battle.m_last
        /\ announced' = announced /\ running /\ ~running'
    BY <1>4 DEF Finish, Dtor, IInv, TypeOK, BattleState, history
  <2>2. ASSUME NEW c \in Special
        PROVE  Awaited(battle.m_last, c) <= announced[c]
    <3>1. WeighedAll(battle.m_fight, ClassOf(c)) + Awaited(battle.m_last, c) <= announced[c]
      BY <2>1 DEF CInv, Counted
    <3>2. battle.m_fight \in Seq(Fight) /\ announced[c] \in Nat
      BY DEF IInv, TypeOK, BattleState
    <3>3. WeighedAll(battle.m_fight, ClassOf(c)) \in Nat
      BY <3>2, WeightsOf, WeighedAllType DEF Class
    <3> QED BY <3>1, <3>2, <3>3 DEF Awaited
  <2> QED BY <2>1, <2>2 DEF CInv
<1>5. ASSUME NEW d \in Dates, NEW a \in LogLines, TellMe(d, a)
      PROVE  CInv'
  <2> DEFINE b == Current(d)
             told == IF IsOver(battle, d) THEN NothingAnnounced ELSE announced
             damage == IF IsOver(battle, d) THEN 0 ELSE dealt
             swings == IF IsOver(battle, d) THEN 0 ELSE swung
             hits == a.type \in {"MELEE", "MAGIC"} /\ ~IsBlow(a)
             Recalls(class) ==
               /\ announced' = IF class \in Special THEN [told EXCEPT ![class] = @ + 1]
                               ELSE told
               /\ dealt' = damage + (IF hits THEN a.damage ELSE 0)
               /\ swung' = swings + (IF hits \/ a.type \in Evasion THEN 1 ELSE 0)
  <2>1. running /\ running'
    BY <1>5 DEF TellMe, DoMelee, DoMiss, DoCrit, DoCrip, DoHolyBlade, DoMagic, DoHeal,
                DoDeath, DoNothing, Accepts, Reads
  <2>2. GoodBattle(b)
    BY <2>1, CurrentGood
  <2>3. Counted(b, told, damage, swings)
    BY <2>1, CurrentCounts
  <2>4. told \in [Special -> Nat] /\ damage \in Nat /\ swings \in Nat
    BY DEF IInv, TypeOK, NothingAnnounced
  <2>5. \A class : Remembers(d, a, class) => Recalls(class)
    BY DEF Remembers
  <2> HIDE DEF b, told, damage, swings
  <2>6. /\ a \in Action /\ d \in Int /\ a.damage \in Nat
        /\ a.type \in {"MELEE", "MAGIC"} \union Evasion => a.source \in Name /\ a.target \in Name
        /\ a.type \in {"MELEE", "MAGIC"} => a.damage > 0
    BY LogAssumption, DatesAssumption DEF Action
  <2>7. ASSUME Counted(battle', announced', dealt', swung')
        PROVE  CInv'
    BY <2>1, <2>7 DEF CInv
  <2>8. ASSUME SameCounts(b, battle'), Recalls("plain"), ~hits, a.type \notin Evasion
        PROVE  CInv'
    <3>1. announced' = told /\ dealt' = damage /\ swung' = swings
      BY <2>4, <2>8 DEF Special
    <3> QED BY <2>3, <2>7, <2>8, <3>1, CountedSame
  <2>9. CASE DoMelee(d, a)
    <3>1. battle' = Melee(b, d, a) /\ a.type = "MELEE" /\ Recalls("plain")
      BY <2>5, <2>9 DEF DoMelee, b
    <3>2. CASE IsBlow(a)
      <4>1. a.type \notin Evasion
        BY <3>1 DEF Evasion
      <4>2. SameCounts(b, battle')
        BY <2>2, <2>6, <3>1, <3>2, BlowCounts
      <4> QED BY <2>8, <3>1, <3>2, <4>1, <4>2
    <3>3. CASE ~IsBlow(a)
      <4>1. announced' = told /\ dealt' = damage + a.damage /\ swung' = swings + 1
        BY <3>1, <3>3 DEF Special
      <4>2. Counted(battle', told, damage + a.damage, swings + 1)
        BY <2>2, <2>3, <2>4, <2>6, <3>1, <3>3, MeleeCounts
      <4> QED BY <2>7, <4>1, <4>2
    <3> QED BY <3>2, <3>3
  <2>10. CASE DoMiss(d, a)
    <3>1. battle' = Miss(b, d, a) /\ a.type \in Evasion /\ Recalls("plain")
      BY <2>5, <2>10 DEF DoMiss, b
    <3>2. announced' = told /\ dealt' = damage /\ swung' = swings + 1
      BY <2>4, <3>1 DEF Special, Evasion
    <3>3. Counted(battle', told, damage, swings + 1)
      BY <2>2, <2>3, <2>4, <2>6, <3>1, MissCounts
    <3> QED BY <2>7, <3>2, <3>3
  <2>11. ASSUME NEW class \in Special, battle' = Announce(b, class, a), Recalls(class),
                a.type \in {"CRIT", "CRIP", "HOLYBLADE"}
         PROVE  CInv'
    <3>1. /\ announced' = [told EXCEPT ![class] = @ + 1]
          /\ dealt' = damage /\ swung' = swings
      BY <2>4, <2>11 DEF Evasion
    <3>2. Counted(battle', [told EXCEPT ![class] = @ + 1], damage, swings)
      BY <2>2, <2>3, <2>4, <2>6, <2>11, AnnounceCounts
    <3> QED BY <2>7, <3>1, <3>2
  <2>12. CASE DoCrit(d, a)
    BY <2>5, <2>11, <2>12 DEF DoCrit, Special, b
  <2>13. CASE DoCrip(d, a)
    BY <2>5, <2>11, <2>13 DEF DoCrip, Special, b
  <2>14. CASE DoHolyBlade(d, a)
    BY <2>5, <2>11, <2>14 DEF DoHolyBlade, Special, b
  <2>15. CASE DoMagic(d, a)
    <3>1. battle' = Magic(b, d, a) /\ a.type = "MAGIC" /\ Recalls("plain")
      BY <2>5, <2>15 DEF DoMagic, b
    <3>2. announced' = told /\ dealt' = damage + a.damage /\ swung' = swings + 1
      BY <3>1 DEF Special, IsBlow
    <3>3. Counted(battle', told, damage + a.damage, swings + 1)
      BY <2>2, <2>3, <2>4, <2>6, <3>1, MagicCounts
    <3> QED BY <2>7, <3>2, <3>3
  <2>16. CASE DoHeal(d, a)
    <3>1. battle' = Heal(b, d, a) /\ a.type = "HEAL" /\ Recalls("plain")
      BY <2>5, <2>16 DEF DoHeal, b
    <3> QED BY <2>2, <2>6, <2>8, <3>1, HealCounts DEF Evasion
  <2>17. CASE DoDeath(d, a)
    <3>1. battle' = Die(b, d, a) /\ a.type = "DEATH" /\ Recalls("plain")
      BY <2>5, <2>17 DEF DoDeath, b
    <3> QED BY <2>2, <2>6, <2>8, <3>1, DieCounts DEF Evasion
  <2>18. CASE DoNothing(d, a)
    <3>1. battle' = b /\ a.type = "UNKNOWN" /\ Recalls("plain")
      BY <2>5, <2>18 DEF DoNothing, b
    <3> QED BY <2>8, <3>1 DEF Evasion, SameCounts
  <2> QED BY <1>5, <2>9, <2>10, <2>12, <2>13, <2>14, <2>15, <2>16, <2>17, <2>18 DEF TellMe
<1> QED BY <1>1, <1>2, <1>3, <1>4, <1>5 DEF Next

(* What the invariant says of the totals the report prints. *)
LEMMA ShowsMagicWithinFight ==
  ASSUME IInv, CInv
  PROVE  MagicWithinFight
<1>1. battle.m_fight \in Seq(Fight)
  BY DEF IInv, TypeOK, BattleState
<1>2. Kept(battle.m_fight)
  BY NoFights DEF CInv, Counted
<1>3. ASSUME NEW i \in 1..Len(battle.m_fight)
      PROVE  LET f == battle.m_fight[i]
             IN  f.m_magic.hits <= Fight_hits(f) /\ f.m_magic.damage <= Fight_damage(f)
  BY <1>1, <1>2, FightTotals DEF Kept, MagicWithin
<1> QED BY <1>3 DEF MagicWithinFight

LEMMA ShowsNothingLost ==
  ASSUME IInv, CInv
  PROVE  NothingLost
<1> DEFINE fights == battle.m_fight
<1>1. /\ fights \in Seq(Fight) /\ Len(fights) \in Nat
      /\ \A i \in 1..Len(fights) : fights[i] \in Fight
  BY DEF IInv, TypeOK, BattleState
<1>2. running => Kept(fights)
  BY DEF CInv, Counted
<1>3. running => \A i \in 1..Len(fights) :
                   /\ Fight_damage(fights[i]) = Weighed(fights[i], DamageOf)
                   /\ Fight_swings(fights[i]) = Weighed(fights[i], SwingsOf)
  BY <1>1, <1>2, FightTotals DEF Kept
<1>4. running => /\ SumFunction([i \in 1..Len(fights) |-> Fight_damage(fights[i])])
                      = WeighedAll(fights, DamageOf)
                 /\ SumFunction([i \in 1..Len(fights) |-> Fight_swings(fights[i])])
                      = WeighedAll(fights, SwingsOf)
  <2>1. running => /\ [i \in 1..Len(fights) |-> Fight_damage(fights[i])]
                        = [i \in 1..Len(fights) |-> Weighed(fights[i], DamageOf)]
                   /\ [i \in 1..Len(fights) |-> Fight_swings(fights[i])]
                        = [i \in 1..Len(fights) |-> Weighed(fights[i], SwingsOf)]
    BY <1>3, Zenon
  <2> QED BY <2>1 DEF SumFunction, WeighedAll
<1>5. running => WeighedAll(fights, DamageOf) = dealt /\ WeighedAll(fights, SwingsOf) = swung
  BY DEF CInv, Counted
<1> QED BY <1>4, <1>5 DEF NothingLost

LEMMA ShowsSpecialsAnnounced ==
  ASSUME IInv, CInv
  PROVE  SpecialsAnnounced
<1> DEFINE fights == battle.m_fight
           OfClass(c, f) == f.m_melee.hits[c]
                            + SumFunction([v \in Verb |-> f.m_byVerb[v].hits[c]])
<1>1. \A i \in 1..Len(fights) : fights[i] \in Fight
  BY DEF IInv, TypeOK, BattleState
<1>2. Kept(fights)
  BY NoFights DEF CInv, Counted
<1>3. ASSUME NEW c \in Special
      PROVE  ClassHits(c) = WeighedAll(fights, ClassOf(c))
  <2>1. \A i \in 1..Len(fights) : OfClass(c, fights[i]) = Weighed(fights[i], ClassOf(c))
    BY <1>1, <1>2, ClassTotal DEF Kept, Class
  <2>2. ClassHits(c) = SumFunction([i \in 1..Len(fights) |-> OfClass(c, fights[i])])
    BY DEF ClassHits
  <2> HIDE DEF OfClass
  <2>3. [i \in 1..Len(fights) |-> OfClass(c, fights[i])]
          = [i \in 1..Len(fights) |-> Weighed(fights[i], ClassOf(c))]
    BY <2>1, Zenon
  <2> QED BY <2>2, <2>3 DEF SumFunction, WeighedAll
<1>4. ASSUME NEW c \in Special
      PROVE  WeighedAll(fights, ClassOf(c)) + Awaited(battle.m_last, c) <= announced[c]
  <2>1. CASE running
    BY <2>1 DEF CInv, Counted
  <2>2. CASE ~running
    <3>1. WeighedAll(fights, ClassOf(c)) = 0
      BY <2>2, NoFights DEF CInv
    <3> QED BY <2>2, <3>1 DEF CInv, Awaited
  <2> QED BY <2>1, <2>2
<1> QED BY <1>3, <1>4 DEF SpecialsAnnounced, Awaited

(* The fights of a battle hold what was counted on every log. *)
THEOREM CountsInductive == Spec => [](IInv /\ CInv)
<1>1. Init => CInv
  <2> SUFFICES ASSUME Init PROVE CInv
    OBVIOUS
  <2>1. /\ battle.m_fight = << >> /\ battle.m_last = [c \in Special |-> 0] /\ running
        /\ announced = NothingAnnounced /\ dealt = 0 /\ swung = 0
    BY DEF Init, NewBattle
  <2> QED BY <2>1, NoFights DEF CInv, Counted, Awaited, NothingAnnounced
<1>2. IInv /\ CInv /\ [Next]_vars => CInv'
  BY NextCounts
<1> QED BY <1>1, <1>2, Inductive, PTL DEF Spec

(* On every log a spell or a damage shield is in the totals of its fight,  *)
(* too: the magic line of the report never claims more than the fight      *)
(* (Battle_magic, whose call of Battle_melee counts the hit first).        *)
THEOREM SpellsWithinFight == Spec => []MagicWithinFight
<1>1. IInv /\ CInv => MagicWithinFight
  BY ShowsMagicWithinFight
<1> QED BY <1>1, CountsInductive, PTL

(* On every log the fights hold all the damage and every swing of the      *)
(* lines accepted since the last reset, and nothing else: none is lost or  *)
(* counted twice between verbs, classes of hits, magic and fights.         *)
THEOREM EveryLineCounted == Spec => []NothingLost
<1>1. IInv /\ CInv => NothingLost
  BY ShowsNothingLost
<1> QED BY <1>1, CountsInductive, PTL

(* On every log a hit is only counted as a critical hit, a crippling blow  *)
(* or a holy blade if a line of its battle announced one, and no           *)
(* announcement serves two hits (m_lastCrit, m_lastCrip, m_lastHolyBlade). *)
THEOREM SpecialsPaidFor == Spec => []SpecialsAnnounced
<1>1. IInv /\ CInv => SpecialsAnnounced
  BY ShowsSpecialsAnnounced
<1> QED BY <1>1, CountsInductive, PTL
-----------------------------------------------------------------------------
(* Induction over 0..N, with a set for the property. *)
LEMMA UpTo ==
  ASSUME NEW N \in Nat, NEW P, 0 \in P, \A n \in 1..N : n - 1 \in P => n \in P
  PROVE  N \in P
<1> DEFINE Q == {s \in SUBSET (1..N) : \A n \in 0..N : s = 1..n => n \in P}
<1>1. ASSUME NEW s \in SUBSET (1..N), \A x \in s : s \ {x} \in Q, NEW n \in 0..N, s = 1..n
      PROVE  n \in P
  <2>1. CASE n = 0
    BY <2>1
  <2>2. CASE n # 0
    <3>1. n \in s /\ n \in 1..N /\ n - 1 \in 0..N
      BY <1>1, <2>2
    <3>2. s \ {n} = 1..(n - 1)
      BY <1>1, <3>1
    <3> QED BY <1>1, <3>1, <3>2
  <2> QED BY <2>1, <2>2
<1>2. \A s \in SUBSET (1..N) : (\A x \in s : s \ {x} \in Q) => s \in Q
  BY <1>1
<1>3. IsFiniteSet(1..N) /\ Q \in SUBSET SUBSET (1..N)
  BY FS_Interval
<1>4. Q = SUBSET (1..N)
  <2> HIDE DEF Q
  <2> QED BY <1>2, <1>3, SubsetInduction
<1>5. 1..N \in SUBSET (1..N) /\ N \in 0..N
  OBVIOUS
<1>6. 1..N \in Q
  <2> HIDE DEF Q
  <2> QED BY <1>4, <1>5
<1> QED BY <1>5, <1>6

(* A set of numbers up to N, but the empty one, has a greatest. *)
LEMMA GreatestIndex ==
  ASSUME NEW N \in Nat, NEW T \in SUBSET (1..N), T # {}
  PROVE  Max(T) \in T /\ \A y \in T : y <= Max(T)
<1> DEFINE U == {N + 1 - x : x \in T}
<1>1. U \in SUBSET (1..N) /\ U # {}
  <2>1. \A x \in T : N + 1 - x \in 1..N
    OBVIOUS
  <2>2. PICK x : x \in T
    OBVIOUS
  <2>3. N + 1 - x \in U
    BY <2>2
  <2> QED BY <2>1, <2>3
<1>2. PICK u \in U : \A y \in U : u <= y
  <2> HIDE DEF U
  <2> QED BY <1>1, LeastIndex
<1>3. PICK x \in T : u = N + 1 - x
  BY <1>2
<1>4. \A y \in T : x >= y
  <2> SUFFICES ASSUME NEW y \in T PROVE x >= y
    OBVIOUS
  <2>1. N + 1 - y \in U /\ y \in Int /\ x \in Int
    OBVIOUS
  <2>2. u <= N + 1 - y
    BY <1>2, <2>1
  <2> QED BY <1>3, <2>1, <2>2
<1>5. Max(T) \in T /\ \A y \in T : Max(T) >= y
  BY <1>3, <1>4 DEF Max
<1> QED BY <1>5
-----------------------------------------------------------------------------
(* FlattenSeq of the community module SequencesExt: a recursion over the   *)
(* sequences, which has a solution.                                        *)
Flattens(seqs, g) ==
  g = [i \in 1..Len(seqs) |-> IF i = 1 THEN seqs[i] ELSE g[i-1] \o seqs[i]]

LEMMA FlattenSolved ==
  ASSUME NEW seqs, Len(seqs) \in Nat
  PROVE  \E g : Flattens(seqs, g)
<1> DEFINE N == Len(seqs)
           Rhs(g, i) == IF i = 1 THEN seqs[i] ELSE g[i-1] \o seqs[i]
           Solves(n, g) == g = [i \in 1..N |-> g[i]] /\ \A i \in 1..n : g[i] = Rhs(g, i)
           P == {n \in 0..N : \E g : Solves(n, g)}
<1>1. 0 \in P
  <2> DEFINE g == [i \in 1..N |-> 0]
  <2>1. Solves(0, g)
    OBVIOUS
  <2> HIDE DEF g
  <2> QED BY <2>1
<1>2. ASSUME NEW n \in 1..N, n - 1 \in P
      PROVE  n \in P
  <2>1. PICK g : Solves(n - 1, g)
    BY <1>2
  <2> DEFINE h == [i \in 1..N |-> Rhs(g, i)]
  <2>2. \A i \in 1..n : h[i] = Rhs(h, i)
    <3> SUFFICES ASSUME NEW i \in 1..n PROVE h[i] = Rhs(h, i)
      OBVIOUS
    <3>1. i \in 1..N /\ h[i] = Rhs(g, i)
      OBVIOUS
    <3>2. CASE i = 1
      BY <3>1, <3>2
    <3>3. CASE i # 1
      <4>1. i - 1 \in 1..(n - 1) /\ i - 1 \in 1..N
        BY <3>3
      <4>2. g[i - 1] = Rhs(g, i - 1) /\ h[i - 1] = Rhs(g, i - 1)
        BY <2>1, <4>1
      <4> HIDE DEF h
      <4> QED BY <3>1, <3>3, <4>2
    <3> QED BY <3>2, <3>3
  <2>3. h = [i \in 1..N |-> h[i]]
    OBVIOUS
  <2> HIDE DEF h, Rhs
  <2>4. Solves(n, h)
    BY <2>2, <2>3
  <2>5. \E e : Solves(n, e)
    BY <2>4
  <2> HIDE DEF Solves
  <2> QED BY <2>5
<1>3. N \in P
  <2>1. N \in Nat
    OBVIOUS
  <2> HIDE DEF P, N
  <2> QED BY <1>1, <1>2, <2>1, UpTo
<1>4. PICK g : Solves(N, g)
  BY <1>3
<1>5. g = [i \in 1..N |-> Rhs(g, i)]
  <2> HIDE DEF Rhs
  <2> QED BY <1>4
<1> QED BY <1>5 DEF Flattens

(* What is in a concatenation. *)
LEMMA ConcatRange ==
  ASSUME NEW S, NEW s \in Seq(S), NEW t \in Seq(S)
  PROVE  /\ s \o t \in Seq(S)
         /\ \A x : x \in Range(s \o t) <=> x \in Range(s) \/ x \in Range(t)
<1> DEFINE m == Len(s)
           n == Len(t)
           st == s \o t
<1>1. /\ m \in Nat /\ n \in Nat /\ st \in Seq(S) /\ Len(st) = m + n
      /\ \A i \in 1..m : st[i] = s[i]
      /\ \A i \in 1..(m + n) : i > m => st[i] = t[i - m]
  OBVIOUS
<1>2. DOMAIN s = 1..m /\ DOMAIN t = 1..n /\ DOMAIN st = 1..(m + n)
  BY <1>1
<1> HIDE DEF m, n, st
<1>3. ASSUME NEW x, x \in Range(st)
      PROVE  x \in Range(s) \/ x \in Range(t)
  <2>1. PICK i \in 1..(m + n) : x = st[i]
    BY <1>2, <1>3 DEF Range
  <2>2. CASE i <= m
    <3>1. i \in 1..m
      BY <1>1, <2>2
    <3> QED BY <1>1, <1>2, <2>1, <3>1 DEF Range
  <2>3. CASE i > m
    <3>1. i - m \in 1..n
      BY <1>1, <2>3
    <3> QED BY <1>1, <1>2, <2>1, <2>3, <3>1 DEF Range
  <2> QED BY <1>1, <2>2, <2>3
<1>4. ASSUME NEW x, x \in Range(s)
      PROVE  x \in Range(st)
  <2>1. PICK i \in 1..m : x = s[i]
    BY <1>2, <1>4 DEF Range
  <2>2. i \in 1..(m + n)
    BY <1>1
  <2> QED BY <1>1, <1>2, <2>1, <2>2 DEF Range
<1>5. ASSUME NEW x, x \in Range(t)
      PROVE  x \in Range(st)
  <2>1. PICK i \in 1..n : x = t[i]
    BY <1>2, <1>5 DEF Range
  <2>2. m + i \in 1..(m + n) /\ m + i > m /\ (m + i) - m = i
    BY <1>1
  <2>3. st[m + i] = x
    BY <1>1, <2>1, <2>2
  <2> QED BY <1>2, <2>2, <2>3 DEF Range
<1> QED BY <1>1, <1>3, <1>4, <1>5 DEF st

(* So what is in a flattened sequence is what is in one of its parts. *)
LEMMA FlattenRange ==
  ASSUME NEW S, NEW seqs \in Seq(Seq(S))
  PROVE  /\ FlattenSeq(seqs) \in Seq(S)
         /\ \A x : x \in Range(FlattenSeq(seqs))
                     <=> \E i \in 1..Len(seqs) : x \in Range(seqs[i])
<1> DEFINE N == Len(seqs)
           g == CHOOSE f : Flattens(seqs, f)
           Holds(n) == \A x : x \in Range(g[n]) <=> \E i \in 1..n : x \in Range(seqs[i])
           P == {n \in 0..N : n # 0 => g[n] \in Seq(S) /\ Holds(n)}
<1>1. N \in Nat /\ \A i \in 1..N : seqs[i] \in Seq(S)
  OBVIOUS
<1>2. Flattens(seqs, g)
  BY <1>1, FlattenSolved
<1>3. FlattenSeq(seqs) = IF N = 0 THEN seqs ELSE g[N]
  BY DEF FlattenSeq, Flattens
<1>4. \A i \in 1..N : g[i] = IF i = 1 THEN seqs[i] ELSE g[i-1] \o seqs[i]
  <2> HIDE DEF g
  <2> QED BY <1>2 DEF Flattens
<1> HIDE DEF g
<1>5. 0 \in P
  BY <1>1
<1>6. ASSUME NEW n \in 1..N, n - 1 \in P
      PROVE  n \in P
  <2>1. CASE n = 1
    <3>1. g[n] = seqs[1] /\ seqs[1] \in Seq(S) /\ 1..n = {1}
      <4>1. n \in 1..N /\ 1..n = {1}
        BY <2>1
      <4>2. g[n] = seqs[n] /\ seqs[n] \in Seq(S)
        BY <1>1, <1>4, <2>1, <4>1
      <4> QED BY <2>1, <4>1, <4>2
    <3>2. Holds(n)
      BY <3>1
    <3> QED BY <1>1, <2>1, <3>1, <3>2
  <2>2. CASE n # 1
    <3>1. g[n] = g[n - 1] \o seqs[n] /\ seqs[n] \in Seq(S)
      BY <1>1, <1>4, <2>2
    <3>2. n - 1 # 0 /\ \A i : i \in 1..n <=> i \in 1..(n - 1) \/ i = n
      BY <1>1, <2>2
    <3>3. g[n - 1] \in Seq(S) /\ Holds(n - 1)
      <4> HIDE DEF Holds
      <4> QED BY <1>6, <3>2
    <3>4. /\ g[n] \in Seq(S)
          /\ \A x : x \in Range(g[n]) <=> x \in Range(g[n - 1]) \/ x \in Range(seqs[n])
      BY <3>1, <3>3, ConcatRange
    <3>5. Holds(n)
      BY <3>2, <3>3, <3>4
    <3> HIDE DEF Holds
    <3> QED BY <3>4, <3>5
  <2> QED BY <2>1, <2>2
<1>7. N \in P
  <2> HIDE DEF P, N
  <2> QED BY <1>1, <1>5, <1>6, UpTo
<1>8. CASE N = 0
  <2>1. FlattenSeq(seqs) = << >> /\ Range(<< >>) = {} /\ << >> \in Seq(S) /\ 1..Len(seqs) = {}
    BY <1>3, <1>8 DEF Range
  <2> QED BY <2>1
<1>9. CASE N # 0
  BY <1>3, <1>7, <1>9
<1> QED BY <1>8, <1>9
-----------------------------------------------------------------------------
(* The passes of Battle_sort: FoldLeft of the community module, a recursion *)
(* over the sets of the steps that are done.                                *)
Passes(fights, steps, g) ==
  g = [s \in SUBSET (DOMAIN steps) |->
         IF s = {} THEN fights ELSE SwapIfLess(g[s \ {Max(s)}], steps[Max(s)])]

LEMMA PassesSolved ==
  ASSUME NEW fights, NEW steps, NEW N \in Nat, DOMAIN steps = 1..N
  PROVE  \E g : Passes(fights, steps, g)
<1> DEFINE D == SUBSET (1..N)
           Rhs(g, s) == IF s = {} THEN fights
                        ELSE SwapIfLess(g[s \ {Max(s)}], steps[Max(s)])
           Solves(n, g) == g = [s \in D |-> g[s]] /\ \A s \in SUBSET (1..n) : g[s] = Rhs(g, s)
           P == {n \in 0..N : \E g : Solves(n, g)}
<1>1. 0 \in P
  <2> DEFINE g == [s \in D |-> fights]
  <2>1. 1..0 = {} /\ {} \in D
    OBVIOUS
  <2>2. Solves(0, g)
    BY <2>1
  <2> HIDE DEF g, Solves
  <2>3. 0 \in 0..N
    OBVIOUS
  <2> QED BY <2>2, <2>3
<1>2. ASSUME NEW n \in 1..N, n - 1 \in P
      PROVE  n \in P
  <2>1. PICK g : Solves(n - 1, g)
    <3> HIDE DEF Solves
    <3> QED BY <1>2
  <2> DEFINE h == [s \in D |-> Rhs(g, s)]
  <2>2. ASSUME NEW s \in SUBSET (1..n)
        PROVE  h[s] = Rhs(h, s)
    <3>1. s \in D /\ h[s] = Rhs(g, s)
      <4>1. 1..n \subseteq 1..N
        OBVIOUS
      <4> QED BY <4>1
    <3>2. CASE s = {}
      BY <3>1, <3>2
    <3>3. CASE s # {}
      <4> DEFINE r == s \ {Max(s)}
      <4>1. Max(s) \in s /\ \A y \in s : y <= Max(s)
        <5>1. n \in Nat /\ s \in SUBSET (1..n)
          OBVIOUS
        <5> QED BY ONLY <3>3, <5>1, GreatestIndex
      <4>2. r \in SUBSET (1..(n - 1)) /\ r \in D
        <5> DEFINE m == Max(s)
        <5>1. m \in s /\ \A y \in s : y <= m
          BY <4>1
        <5> HIDE DEF m
        <5>2. \A y \in s \ {m} : y \in 1..(n - 1)
          BY <5>1
        <5> QED BY <3>1, <5>2 DEF m
      <4> HIDE DEF r
      <4>3. g[r] = Rhs(g, r) /\ r \in D
        <5> HIDE DEF Rhs
        <5> QED BY <2>1, <4>2
      <4>4. h[r] = Rhs(g, r)
        BY <4>3
      <4>5. h[r] = g[r]
        BY <4>3, <4>4
      <4> HIDE DEF h
      <4> QED BY <3>1, <3>3, <4>5 DEF r
    <3> QED BY <3>2, <3>3
  <2>3. h = [s \in D |-> h[s]]
    OBVIOUS
  <2> HIDE DEF h, Rhs
  <2>4. Solves(n, h)
    BY <2>2, <2>3
  <2>5. \E e : Solves(n, e)
    BY <2>4
  <2> HIDE DEF Solves
  <2> QED BY <2>5
<1>3. N \in P
  <2> HIDE DEF P
  <2> QED BY <1>1, <1>2, UpTo
<1>4. PICK g : Solves(N, g)
  <2> HIDE DEF Solves
  <2> QED BY <1>3
<1>5. g = [s \in D |-> Rhs(g, s)]
  <2> HIDE DEF Rhs
  <2> QED BY <1>4
<1> QED BY <1>5 DEF Passes

(* An exchange leaves the fights that are there. *)
Rearranged(fights, g) ==
  g \in Seq(Fight) /\ Len(g) = Len(fights) /\ \A x : x \in Range(g) <=> x \in Range(fights)

LEMMA SwapKeeps ==
  ASSUME NEW fights \in Seq(Fight), NEW j \in Nat \ {0}, j + 1 <= Len(fights)
  PROVE  Rearranged(fights, SwapIfLess(fights, j))
<1> DEFINE n == Len(fights)
           l == fights[j]
           r == fights[j + 1]
           g == [fights EXCEPT ![j] = r, ![j + 1] = l]
<1>1. n \in Nat /\ j \in 1..n /\ j + 1 \in 1..n /\ j # j + 1
  OBVIOUS
<1>2. SwapIfLess(fights, j) \in {fights, g}
  BY DEF SwapIfLess
<1>3. /\ g \in Seq(Fight) /\ Len(g) = n /\ DOMAIN g = 1..n /\ DOMAIN fights = 1..n
      /\ g[j] = r /\ g[j + 1] = l /\ \A i \in 1..n : i # j /\ i # j + 1 => g[i] = fights[i]
  <2>1. /\ fights \in [1..n -> Fight] /\ l \in Fight /\ r \in Fight
    BY <1>1
  <2>2. g \in [1..n -> Fight]
    BY <2>1
  <2>3. g \in Seq(Fight) /\ Len(g) = n
    BY <1>1, <2>2
  <2> QED BY <1>1, <2>1, <2>2, <2>3
<1> HIDE DEF n, l, r, g
<1>4. l = fights[j] /\ r = fights[j + 1]
  BY DEF l, r
<1>5. ASSUME NEW x
      PROVE  x \in Range(g) <=> x \in Range(fights)
  <2>1. ASSUME NEW i \in 1..n, x = g[i] PROVE \E k \in 1..n : x = fights[k]
    BY <1>1, <1>3, <1>4, <2>1
  <2>2. ASSUME NEW i \in 1..n, x = fights[i] PROVE \E k \in 1..n : x = g[k]
    BY <1>1, <1>3, <1>4, <2>2
  <2> QED BY <1>3, <2>1, <2>2 DEF Range
<1> QED BY <1>2, <1>3, <1>5 DEF Rearranged, n

(* The steps of the two loops compare neighbours. *)
LEMMA StepsWithin ==
  ASSUME NEW n \in Nat, n >= 2
  PROVE  BubbleSteps(n) \in Seq(1..(n - 1))
<1> DEFINE seqs == [i \in 1..(n - 1) |-> [j \in 1..(n - i) |-> j]]
<1>1. ASSUME NEW i \in 1..(n - 1)
      PROVE  [j \in 1..(n - i) |-> j] \in Seq(1..(n - 1))
  <2>1. n - i \in Nat /\ \A j \in 1..(n - i) : j \in 1..(n - 1)
    OBVIOUS
  <2>2. [j \in 1..(n - i) |-> j] \in [1..(n - i) -> 1..(n - 1)]
    BY <2>1
  <2> QED BY <2>1, <2>2
<1>2. seqs \in Seq(Seq(1..(n - 1)))
  <2>1. seqs \in [1..(n - 1) -> Seq(1..(n - 1))] /\ n - 1 \in Nat
    BY <1>1
  <2> QED BY <2>1
<1>3. BubbleSteps(n) = FlattenSeq(seqs)
  BY DEF BubbleSteps
<1> QED BY <1>2, <1>3, FlattenRange

LEMMA SortKeeps ==
  ASSUME NEW fights \in Seq(Fight)
  PROVE  Rearranged(fights, Sort(fights))
<1>1. CASE Len(fights) < 2
  BY <1>1 DEF Sort, Rearranged
<1>2. CASE Len(fights) >= 2
  <2> DEFINE n == Len(fights)
             steps == BubbleSteps(n)
             N == Len(steps)
             g == CHOOSE f : Passes(fights, steps, f)
             P == {s \in SUBSET (1..N) : Rearranged(fights, g[s])}
  <2>1. n \in Nat /\ steps \in Seq(1..(n - 1))
    BY <1>2, StepsWithin
  <2>2. N \in Nat /\ DOMAIN steps = 1..N /\ \A i \in 1..N : steps[i] \in 1..(n - 1)
    BY <2>1
  <2>3. Passes(fights, steps, g)
    <3> HIDE DEF steps, N
    <3> QED BY <2>2, PassesSolved
  <2>4. Sort(fights) = g[1..N]
    <3>1. Sort(fights) = FoldLeft(SwapIfLess, fights, steps)
      BY <1>2 DEF Sort
    <3> HIDE DEF steps, N
    <3>2. FoldLeft(SwapIfLess, fights, steps) = g[DOMAIN steps]
      BY DEF FoldLeft, MapThenFoldSet, Passes
    <3> QED BY <2>2, <3>1, <3>2
  <2> HIDE DEF steps, N, g
  <2>5. ASSUME NEW s \in SUBSET (1..N), \A x \in s : s \ {x} \in P
        PROVE  s \in P
    <3>1. g[s] = IF s = {} THEN fights ELSE SwapIfLess(g[s \ {Max(s)}], steps[Max(s)])
      BY <2>2, <2>3 DEF Passes
    <3>2. CASE s = {}
      BY <3>1, <3>2 DEF Rearranged
    <3>3. CASE s # {}
      <4> DEFINE h == g[s \ {Max(s)}]
                 j == steps[Max(s)]
      <4>1. Max(s) \in s
        BY <2>2, <3>3, GreatestIndex
      <4>2. Rearranged(fights, h) /\ j \in 1..(n - 1)
        BY <2>2, <2>5, <4>1
      <4>3. g[s] = SwapIfLess(h, j)
        BY <3>1, <3>3
      <4> HIDE DEF h, j
      <4>4. h \in Seq(Fight) /\ j \in Nat \ {0} /\ j + 1 <= Len(h)
        BY <2>1, <4>2 DEF Rearranged
      <4>5. Rearranged(h, g[s])
        BY <4>3, <4>4, SwapKeeps
      <4>6. Rearranged(fights, g[s])
        BY <4>2, <4>5 DEF Rearranged
      <4> QED BY <4>6
    <3> QED BY <3>2, <3>3
  <2>6. P = SUBSET (1..N)
    <3>1. IsFiniteSet(1..N) /\ P \in SUBSET SUBSET (1..N)
      BY <2>2, FS_Interval
    <3> HIDE DEF P
    <3> QED BY <2>5, <3>1, SubsetInduction
  <2> QED BY <2>4, <2>6
<1>3. Len(fights) \in Nat
  OBVIOUS
<1> QED BY <1>1, <1>2, <1>3
-----------------------------------------------------------------------------
(* The accounts of a battle: a fight is the account of its pair of names.  *)
PairOf(b, f) == <<b.m_pc[f.sourceId], b.m_pc[f.targetId]>>
TotalsOf(f)  == [hits |-> Fight_hits(f), damage |-> Fight_damage(f), swings |-> Fight_swings(f)]

LEMMA FightParts ==
  ASSUME NEW b, GoodBattle(b)
  PROVE  /\ b.m_fight \in Seq(Fight) /\ Len(b.m_fight) \in Nat
         /\ b.m_pc \in Seq(Name) /\ Len(b.m_pc) \in Nat
         /\ \A i \in 1..Len(b.m_fight) : /\ b.m_fight[i] \in Fight
                                         /\ b.m_fight[i].sourceId \in 1..Len(b.m_pc)
                                         /\ b.m_fight[i].targetId \in 1..Len(b.m_pc)
BY GoodParts DEF FightsOver, BattleState

(* No two fights are between the same names. *)
LEMMA PairsDiffer ==
  ASSUME NEW b, GoodBattle(b), NEW i \in 1..Len(b.m_fight), NEW j \in 1..Len(b.m_fight),
         PairOf(b, b.m_fight[i]) = PairOf(b, b.m_fight[j])
  PROVE  i = j
<1>1. /\ b.m_fight[i].sourceId = b.m_fight[j].sourceId
      /\ b.m_fight[i].targetId = b.m_fight[j].targetId
  BY FightParts DEF PairOf, GoodBattle, Interned
<1> QED BY <1>1, GoodParts DEF FightsOver

LEMMA AccountIs ==
  ASSUME NEW b, GoodBattle(b)
  PROVE  /\ Account(b) = [p \in DOMAIN Account(b) |-> Account(b)[p]]
         /\ DOMAIN Account(b) = {PairOf(b, b.m_fight[i]) : i \in 1..Len(b.m_fight)}
         /\ \A i \in 1..Len(b.m_fight) :
              Account(b)[PairOf(b, b.m_fight[i])] = TotalsOf(b.m_fight[i])
<1> DEFINE Pairs      == {PairOf(b, b.m_fight[i]) : i \in 1..Len(b.m_fight)}
           IndexOf(p) == CHOOSE i \in 1..Len(b.m_fight) : PairOf(b, b.m_fight[i]) = p
<1>1. Account(b) = [p \in Pairs |-> TotalsOf(b.m_fight[IndexOf(p)])]
  BY DEF Account, PairOf, TotalsOf
<1>2. ASSUME NEW i \in 1..Len(b.m_fight)
      PROVE  IndexOf(PairOf(b, b.m_fight[i])) = i
  <2> DEFINE k == IndexOf(PairOf(b, b.m_fight[i]))
  <2>1. k \in 1..Len(b.m_fight) /\ PairOf(b, b.m_fight[k]) = PairOf(b, b.m_fight[i])
    OBVIOUS
  <2> HIDE DEF k
  <2>2. k = i
    BY <2>1, PairsDiffer
  <2> QED BY <2>2 DEF k
<1> HIDE DEF IndexOf
<1>3. ASSUME NEW i \in 1..Len(b.m_fight)
      PROVE  Account(b)[PairOf(b, b.m_fight[i])] = TotalsOf(b.m_fight[i])
  <2>1. PairOf(b, b.m_fight[i]) \in Pairs
    OBVIOUS
  <2> HIDE DEF Pairs
  <2> QED BY <1>1, <1>2, <2>1
<1>4. /\ Account(b) = [p \in DOMAIN Account(b) |-> Account(b)[p]]
      /\ DOMAIN Account(b) = Pairs
  <2> HIDE DEF Pairs
  <2> QED BY <1>1
<1> QED BY <1>3, <1>4

(* A battle without fights. *)
LEMMA AccountEmpty ==
  ASSUME NEW b, b.m_fight = << >>
  PROVE  Account(b) = Ledger!Empty
<1>1. 1..Len(b.m_fight) = {}
  OBVIOUS
<1> QED BY <1>1 DEF Account, Ledger!Empty
-----------------------------------------------------------------------------
(* What a handler may do to the fights: nothing that shows in the accounts, *)
(* or one more swing in one of them, which may be new.                      *)
PcMore(b, c) == /\ Len(b.m_pc) <= Len(c.m_pc)
                /\ \A i \in 1..Len(b.m_pc) : c.m_pc[i] = b.m_pc[i]
SameIds(f, g) == g.sourceId = f.sourceId /\ g.targetId = f.targetId
OneMore(old, new) ==
  /\ new.swings = old.swings + 1
  /\ \/ new.hits = old.hits + 1 /\ new.damage >= old.damage
     \/ new.hits = old.hits     /\ new.damage = old.damage
Unstruck(b, c) ==
  /\ PcMore(b, c)
  /\ Len(c.m_fight) = Len(b.m_fight)
  /\ \A j \in 1..Len(b.m_fight) : /\ SameIds(b.m_fight[j], c.m_fight[j])
                                  /\ TotalsOf(c.m_fight[j]) = TotalsOf(b.m_fight[j])
Struck(b, c, i) ==
  /\ PcMore(b, c)
  /\ i \in 1..Len(c.m_fight)
  /\ \/ Len(c.m_fight) = Len(b.m_fight)
     \/ Len(c.m_fight) = Len(b.m_fight) + 1 /\ i = Len(c.m_fight)
  /\ \A j \in 1..Len(b.m_fight) : SameIds(b.m_fight[j], c.m_fight[j])
  /\ \A j \in 1..Len(b.m_fight) : j # i => TotalsOf(c.m_fight[j]) = TotalsOf(b.m_fight[j])
  /\ OneMore(IF i \in 1..Len(b.m_fight) THEN TotalsOf(b.m_fight[i]) ELSE Ledger!Totals,
             TotalsOf(c.m_fight[i]))

LEMMA SamePairs ==
  ASSUME NEW b, GoodBattle(b), NEW c, PcMore(b, c), NEW j \in 1..Len(b.m_fight),
         SameIds(b.m_fight[j], c.m_fight[j])
  PROVE  PairOf(c, c.m_fight[j]) = PairOf(b, b.m_fight[j])
<1> DEFINE f == b.m_fight[j]
           g == c.m_fight[j]
<1>1. f.sourceId \in 1..Len(b.m_pc) /\ f.targetId \in 1..Len(b.m_pc)
  BY FightParts
<1>2. g.sourceId = f.sourceId /\ g.targetId = f.targetId
  BY DEF SameIds
<1> HIDE DEF f, g
<1>3. PairOf(c, g) = PairOf(b, f)
  BY <1>1, <1>2 DEF PcMore, PairOf
<1> QED BY <1>3 DEF f, g

LEMMA AccountSame ==
  ASSUME NEW b, GoodBattle(b), NEW c, GoodBattle(c), Unstruck(b, c)
  PROVE  Account(c) = Account(b)
<1> DEFINE n == Len(b.m_fight)
           m == Len(c.m_fight)
           pb == [j \in 1..n |-> PairOf(b, b.m_fight[j])]
           pc == [j \in 1..m |-> PairOf(c, c.m_fight[j])]
<1>1. /\ m = n
      /\ \A j \in 1..n : pc[j] = pb[j] /\ TotalsOf(c.m_fight[j]) = TotalsOf(b.m_fight[j])
  BY SamePairs DEF Unstruck
<1>2. /\ Account(b) = [p \in DOMAIN Account(b) |-> Account(b)[p]]
      /\ DOMAIN Account(b) = {pb[i] : i \in 1..n}
      /\ \A i \in 1..n : Account(b)[pb[i]] = TotalsOf(b.m_fight[i])
  BY AccountIs, ZenonT(60)
<1>3. /\ Account(c) = [p \in DOMAIN Account(c) |-> Account(c)[p]]
      /\ DOMAIN Account(c) = {pc[i] : i \in 1..m}
      /\ \A i \in 1..m : Account(c)[pc[i]] = TotalsOf(c.m_fight[i])
  BY AccountIs, ZenonT(60)
<1> HIDE DEF n, m, pb, pc
<1>4. DOMAIN Account(c) = DOMAIN Account(b)
  BY <1>1, <1>2, <1>3
<1>5. ASSUME NEW p \in DOMAIN Account(b)
      PROVE  Account(c)[p] = Account(b)[p]
  <2>1. PICK i \in 1..n : p = pb[i]
    BY <1>2
  <2> QED BY <1>1, <1>2, <1>3, <2>1
<1> QED BY <1>2, <1>3, <1>4, <1>5

(* Ledger!Enter, of two accounts. *)
Entered(acc, new, p) ==
  /\ DOMAIN new = DOMAIN acc \union {p}
  /\ \A q \in DOMAIN acc \ {p} : new[q] = acc[q]
  /\ OneMore(IF p \in DOMAIN acc THEN acc[p] ELSE Ledger!Totals, new[p])

LEMMA AccountStruck ==
  ASSUME NEW b, GoodBattle(b), NEW c, GoodBattle(c), NEW i, Struck(b, c, i)
  PROVE  LET p == PairOf(c, c.m_fight[i])
         IN  p \in Name \X Name /\ Entered(Account(b), Account(c), p)
<1> DEFINE n == Len(b.m_fight)
           m == Len(c.m_fight)
           pb == [j \in 1..n |-> PairOf(b, b.m_fight[j])]
           pc == [j \in 1..m |-> PairOf(c, c.m_fight[j])]
           tb == [j \in 1..n |-> TotalsOf(b.m_fight[j])]
           tc == [j \in 1..m |-> TotalsOf(c.m_fight[j])]
           p  == pc[i]
<1>1. /\ n \in Nat /\ m \in Nat /\ i \in 1..m
      /\ m = n \/ (m = n + 1 /\ i = m)
  BY FightParts DEF Struck
<1>2. /\ \A j \in 1..n : j \in 1..m
      /\ \A j \in 1..m : j \in 1..n \/ j = i
  BY <1>1
<1>3. /\ \A j \in 1..n : pc[j] = pb[j]
      /\ \A j \in 1..n : j # i => tc[j] = tb[j]
      /\ OneMore(IF i \in 1..n THEN tb[i] ELSE Ledger!Totals, tc[i])
  BY <1>1, <1>2, SamePairs DEF Struck
<1>4. /\ DOMAIN Account(b) = {pb[j] : j \in 1..n}
      /\ \A j \in 1..n : Account(b)[pb[j]] = tb[j]
  BY AccountIs, ZenonT(60)
<1>5. /\ DOMAIN Account(c) = {pc[j] : j \in 1..m}
      /\ \A j \in 1..m : Account(c)[pc[j]] = tc[j]
  BY AccountIs, ZenonT(60)
<1>6. \A j, k \in 1..m : pc[j] = pc[k] => j = k
  BY PairsDiffer
<1>7. p \in Name \X Name /\ p = PairOf(c, c.m_fight[i])
  <2> DEFINE f == c.m_fight[i]
  <2>1. /\ f.sourceId \in 1..Len(c.m_pc) /\ f.targetId \in 1..Len(c.m_pc)
        /\ c.m_pc \in Seq(Name)
    BY <1>1, FightParts
  <2>2. p = PairOf(c, f)
    BY <1>1
  <2> HIDE DEF f, p
  <2>3. PairOf(c, f) \in Name \X Name
    BY <2>1 DEF PairOf
  <2> QED BY <2>2, <2>3 DEF f
<1> HIDE DEF n, m, pb, pc, tb, tc
<1>8. p \in DOMAIN Account(b) <=> i \in 1..n
  BY <1>1, <1>2, <1>3, <1>4, <1>6
<1>9. DOMAIN Account(c) = DOMAIN Account(b) \union {p}
  BY <1>1, <1>2, <1>3, <1>4, <1>5
<1>10. \A q \in DOMAIN Account(b) \ {p} : Account(c)[q] = Account(b)[q]
  BY <1>1, <1>2, <1>3, <1>4, <1>5
<1>11. OneMore(IF p \in DOMAIN Account(b) THEN Account(b)[p] ELSE Ledger!Totals, Account(c)[p])
  BY <1>1, <1>3, <1>4, <1>5, <1>8
<1> QED BY <1>7, <1>9, <1>10, <1>11 DEF Entered
-----------------------------------------------------------------------------
(* Totals depend on the counters only. *)
LEMMA TotalsSame ==
  ASSUME NEW f, NEW g, g.m_melee = f.m_melee, g.m_byVerb = f.m_byVerb
  PROVE  TotalsOf(g) = TotalsOf(f)
BY DEF TotalsOf, Fight_hits, Fight_damage, Fight_swings, Total, ByVerbUsed

LEMMA TotalsWeighed ==
  ASSUME NEW f \in Fight, Shaped(f)
  PROVE  /\ TotalsOf(f) = [hits |-> Weighed(f, HitsOf), damage |-> Weighed(f, DamageOf),
                           swings |-> Weighed(f, SwingsOf)]
         /\ \A w \in Weights : Weighed(f, w) \in Nat
BY FightTotals, WeighedType DEF TotalsOf

LEMMA NewFightTotals ==
  ASSUME NEW s \in Nat, NEW t \in Nat, NEW now \in Int
  PROVE  TotalsOf(NewFight(s, t, now)) = Ledger!Totals
<1>1. /\ NewFight(s, t, now) \in Fight /\ Shaped(NewFight(s, t, now))
      /\ \A w \in Weights : Weighed(NewFight(s, t, now), w) = 0
  BY NewFightWeighs
<1> QED BY <1>1, TotalsWeighed, WeightsOf DEF Ledger!Totals

(* A hit, and a swing that evaded, are one more swing. *)
LEMMA HitIsOneMore ==
  ASSUME NEW f \in Fight, Shaped(f), NEW now \in Int, NEW verb \in Verb,
         NEW class \in Class, NEW damage \in Nat
  PROVE  OneMore(TotalsOf(f), TotalsOf(Hit(f, now, verb, class, damage)))
<1> DEFINE h == Hit(f, now, verb, class, damage)
<1>1. h \in Fight
  BY HitType
<1>2. /\ Shaped(h)
      /\ Weighed(h, HitsOf) = Weighed(f, HitsOf) + 1
      /\ Weighed(h, DamageOf) = Weighed(f, DamageOf) + damage
      /\ Weighed(h, SwingsOf) = Weighed(f, SwingsOf) + 1
  BY HitWeighs
<1> HIDE DEF h
<1>3. Weighed(f, DamageOf) \in Nat
  BY WeightsOf, WeighedType
<1>4. Weighed(h, DamageOf) >= Weighed(f, DamageOf)
  BY <1>2, <1>3
<1>5. OneMore(TotalsOf(f), TotalsOf(h))
  BY <1>1, <1>2, <1>4, TotalsWeighed DEF OneMore
<1> QED BY <1>5 DEF h

LEMMA EvadeIsOneMore ==
  ASSUME NEW f \in Fight, Shaped(f), NEW now \in Int, NEW verb \in Verb,
         NEW evasion \in Evasion
  PROVE  OneMore(TotalsOf(f), TotalsOf(Evade(f, now, verb, evasion)))
<1> DEFINE h == Evade(f, now, verb, evasion)
<1>1. h \in Fight
  BY EvadeType
<1>2. /\ Shaped(h)
      /\ Weighed(h, HitsOf) = Weighed(f, HitsOf)
      /\ Weighed(h, DamageOf) = Weighed(f, DamageOf)
      /\ Weighed(h, SwingsOf) = Weighed(f, SwingsOf) + 1
  BY EvadeWeighs
<1> HIDE DEF h
<1>3. OneMore(TotalsOf(f), TotalsOf(h))
  BY <1>1, <1>2, TotalsWeighed DEF OneMore
<1> QED BY <1>3 DEF h
-----------------------------------------------------------------------------
(* The fight of a line is found where it was, or pushed at the end. *)
LEMMA GetFightPushes ==
  ASSUME NEW fights \in Seq(Fight), NEW s \in Nat, NEW t \in Nat, NEW now \in Int
  PROVE  LET g == GetFight(fights, now, s, t)
             i == FightPosition(g, s, t)
         IN  /\ g \in Seq(Fight)
             /\ \/ g = fights /\ i \in 1..Len(fights)
                \/ /\ Len(g) = Len(fights) + 1 /\ i = Len(g)
                   /\ g[i] = NewFight(s, t, now)
                   /\ \A j \in 1..Len(fights) : g[j] = fights[j]
<1> DEFINE f == NewFight(s, t, now)
           g == GetFight(fights, now, s, t)
           i == FightPosition(g, s, t)
<1>1. CASE FightPosition(fights, s, t) # NoId
  BY <1>1, FightPositionFinds DEF GetFight, NoId
<1>2. CASE FightPosition(fights, s, t) = NoId
  <2>1. f \in Fight /\ f.sourceId = s /\ f.targetId = t
    BY NewMeleeType DEF NewFight, Fight
  <2>2. g = Append(fights, f)
    BY <1>2 DEF GetFight
  <2> HIDE DEF f, g
  <2>3. /\ g \in Seq(Fight) /\ Len(g) = Len(fights) + 1 /\ Len(fights) \in Nat
        /\ \A j \in 1..Len(fights) : g[j] = fights[j]
        /\ g[Len(fights) + 1] = f
    BY <2>1, <2>2, AppendProperties
  <2>4. \A j \in 1..Len(fights) : ~(fights[j].sourceId = s /\ fights[j].targetId = t)
    BY <1>2, FightPositionFinds
  <2>5. Len(g) \in 1..Len(g)
    BY <2>3
  <2>6. i \in 0..Len(g) /\ i # NoId /\ g[i].sourceId = s /\ g[i].targetId = t
    BY <2>1, <2>3, <2>5, FightPositionFinds
  <2> HIDE DEF i
  <2>7. i = Len(g)
    BY <2>3, <2>4, <2>6 DEF NoId
  <2> QED BY <2>3, <2>7 DEF f, g, i
<1> QED BY <1>1, <1>2

(* One fight, found or pushed, has one more swing. *)
LEMMA StrikeOne ==
  ASSUME NEW b, GoodBattle(b), NEW c, PcMore(b, c), NEW s \in Nat, NEW t \in Nat,
         NEW now \in Int, NEW fights, fights = GetFight(b.m_fight, now, s, t),
         NEW i, i = FightPosition(fights, s, t), NEW h \in Fight,
         SameIds(fights[i], h), OneMore(TotalsOf(fights[i]), TotalsOf(h)),
         c.m_fight = [fights EXCEPT ![i] = h]
  PROVE  Struck(b, c, i)
<1> DEFINE n == Len(b.m_fight)
           g == c.m_fight
<1>1. b.m_fight \in Seq(Fight) /\ n \in Nat
  BY FightParts
<1>2. /\ fights \in Seq(Fight) /\ i \in 1..Len(fights)
      /\ \A j \in 1..n : j \in 1..Len(fights) /\ fights[j] = b.m_fight[j]
      /\ \/ Len(fights) = n
         \/ Len(fights) = n + 1 /\ i = Len(fights)
      /\ i \notin 1..n => TotalsOf(fights[i]) = Ledger!Totals
  <2>1. /\ fights \in Seq(Fight)
        /\ \/ fights = b.m_fight /\ i \in 1..Len(b.m_fight)
           \/ /\ Len(fights) = Len(b.m_fight) + 1 /\ i = Len(fights)
              /\ fights[i] = NewFight(s, t, now)
              /\ \A j \in 1..Len(b.m_fight) : fights[j] = b.m_fight[j]
    BY <1>1, GetFightPushes
  <2>2. TotalsOf(NewFight(s, t, now)) = Ledger!Totals
    BY NewFightTotals
  <2>3. CASE fights = b.m_fight /\ i \in 1..Len(b.m_fight)
    BY <1>1, <2>1, <2>3
  <2>4. CASE /\ Len(fights) = Len(b.m_fight) + 1 /\ i = Len(fights)
             /\ fights[i] = NewFight(s, t, now)
             /\ \A j \in 1..Len(b.m_fight) : fights[j] = b.m_fight[j]
    BY <1>1, <2>1, <2>2, <2>4
  <2> QED BY <2>1, <2>3, <2>4
<1>3. /\ Len(g) = Len(fights) /\ g[i] = h
      /\ \A j \in 1..Len(fights) : j # i => g[j] = fights[j]
  <2>1. fights \in Seq(Fight) /\ i \in 1..Len(fights) /\ h \in Fight
    BY <1>2
  <2> QED BY <2>1, ExceptSeq
<1> HIDE DEF g
<1>4. \A j \in 1..n : SameIds(b.m_fight[j], g[j])
  BY <1>2, <1>3 DEF SameIds
<1>5. \A j \in 1..n : j # i => TotalsOf(g[j]) = TotalsOf(b.m_fight[j])
  BY <1>2, <1>3
<1>6. OneMore(IF i \in 1..n THEN TotalsOf(b.m_fight[i]) ELSE Ledger!Totals, TotalsOf(g[i]))
  BY <1>2, <1>3
<1> QED BY <1>1, <1>2, <1>3, <1>4, <1>5, <1>6 DEF Struck, g

LEMMA EngageKeeps ==
  ASSUME NEW b, GoodBattle(b), NEW now \in Int, NEW a \in Action
  PROVE  /\ PcMore(b, Engage(b, now, a))
         /\ Engage(b, now, a).m_fight = b.m_fight
<1> DEFINE st == Start(b, now)
           p1 == Intern(b.m_pc, a.source)
           p2 == Intern(p1, a.target)
           e  == [st EXCEPT !.m_pc = p2]
<1>1. /\ a.source \in Name \union {NoName} /\ a.target \in Name \union {NoName}
      /\ b.m_pc \in Seq(Name) /\ Interned(b.m_pc)
      /\ st \in BattleState /\ st.m_pc = b.m_pc /\ st.m_fight = b.m_fight
  BY GoodParts, StartType DEF Action, GoodBattle, BattleState
<1>2. /\ p1 \in Seq(Name) /\ Interned(p1) /\ Len(b.m_pc) <= Len(p1)
      /\ \A i \in 1..Len(b.m_pc) : p1[i] = b.m_pc[i]
  BY <1>1, InternKeeps
<1>3. /\ p2 \in Seq(Name) /\ Len(p1) <= Len(p2)
      /\ \A i \in 1..Len(p1) : p2[i] = p1[i]
  BY <1>1, <1>2, InternKeeps
<1>4. Engage(b, now, a) = e
  BY <1>1 DEF Engage
<1> HIDE DEF st, p1, p2
<1>5. e.m_pc = p2 /\ e.m_fight = b.m_fight
  BY <1>1 DEF BattleState
<1>6. Len(b.m_pc) \in Nat /\ Len(p1) \in Nat /\ Len(p2) \in Nat
  BY <1>1, <1>2, <1>3
<1> HIDE DEF e
<1>7. \A i \in 1..Len(b.m_pc) : i \in 1..Len(p1)
  BY <1>2, <1>6
<1>8. PcMore(b, e)
  BY <1>2, <1>3, <1>5, <1>6, <1>7 DEF PcMore
<1> QED BY <1>4, <1>5, <1>8
-----------------------------------------------------------------------------
(* What the handlers that count find, and how a fight they count in shows. *)
LEMMA FightFound ==
  ASSUME NEW b, GoodBattle(b), Kept(b.m_fight), NEW now \in Int, NEW a \in Action,
         a.source \in Name, a.target \in Name
  PROVE  LET e      == Engage(b, now, a)
             s      == PCIndex(e.m_pc, a.source)
             t      == PCIndex(e.m_pc, a.target)
             fights == GetFight(e.m_fight, now, s, t)
             i      == FightPosition(fights, s, t)
         IN  /\ e \in BattleState /\ e.m_last \in [Special -> Nat]
             /\ PcMore(b, e) /\ e.m_fight = b.m_fight
             /\ s \in Nat /\ t \in Nat
             /\ fights \in Seq(Fight) /\ i \in 1..Len(fights)
             /\ fights[i] \in Fight /\ Shaped(fights[i])
<1> DEFINE e      == Engage(b, now, a)
           s      == PCIndex(e.m_pc, a.source)
           t      == PCIndex(e.m_pc, a.target)
           fights == GetFight(e.m_fight, now, s, t)
           i      == FightPosition(fights, s, t)
<1>1. GoodBattle(e) /\ s \in 1..Len(e.m_pc) /\ t \in 1..Len(e.m_pc)
  BY EngageFinds
<1>2. PcMore(b, e) /\ e.m_fight = b.m_fight
  BY EngageKeeps
<1> HIDE DEF e, s, t
<1>3. /\ e \in BattleState /\ Len(e.m_pc) \in Nat /\ FightsOver(e.m_fight, Len(e.m_pc))
      /\ e.m_last \in [Special -> Nat] /\ e.m_fight \in Seq(Fight)
  BY <1>1, GoodParts DEF FightsOver
<1>4. /\ FightsOver(fights, Len(e.m_pc)) /\ i \in 1..Len(fights)
  BY <1>1, <1>3, GetFightFinds
<1>5. s \in Nat /\ t \in Nat
  BY <1>1, <1>3
<1>6. Kept(fights)
  BY <1>2, <1>3, <1>5, GetFightCounts
<1> HIDE DEF fights, i
<1>7. fights \in Seq(Fight) /\ fights[i] \in Fight /\ Shaped(fights[i])
  BY <1>4, <1>6 DEF FightsOver, Kept
<1> QED BY <1>1, <1>2, <1>3, <1>4, <1>5, <1>7 DEF e, s, t, fights, i

(* Battle_melee, of anything but a finishing blow. *)
LEMMA MeleeStrikes ==
  ASSUME NEW b, GoodBattle(b), Kept(b.m_fight), NEW now \in Int, NEW a \in Action,
         a.source \in Name, a.target \in Name, ~IsBlow(a)
  PROVE  LET e      == Engage(b, now, a)
             s      == PCIndex(e.m_pc, a.source)
             t      == PCIndex(e.m_pc, a.target)
             fights == GetFight(e.m_fight, now, s, t)
         IN  /\ Struck(b, Melee(b, now, a), FightPosition(fights, s, t))
             /\ Melee(b, now, a).m_pc = e.m_pc
<1> DEFINE e      == Engage(b, now, a)
           s      == PCIndex(e.m_pc, a.source)
           t      == PCIndex(e.m_pc, a.target)
           fights == GetFight(e.m_fight, now, s, t)
           i      == FightPosition(fights, s, t)
           f      == fights[i]
           class  == HitClass(e.m_last, a.damage)
           h      == Hit(f, now, a.verb, class, a.damage)
           last   == [c \in Special |-> IF c = class THEN 0 ELSE e.m_last[c]]
           struck == [fights EXCEPT ![i] = h]
           c      == [e EXCEPT !.m_fight = struck, !.m_last = last]
           m      == Melee(b, now, a)
<1>1. /\ e \in BattleState /\ e.m_last \in [Special -> Nat]
      /\ PcMore(b, e) /\ e.m_fight = b.m_fight
      /\ s \in Nat /\ t \in Nat
      /\ fights \in Seq(Fight) /\ i \in 1..Len(fights) /\ f \in Fight /\ Shaped(f)
  BY FightFound
<1>2. m = Keepalive(c, now)
  BY DEF Melee, IsBlow
<1>3. fights = GetFight(b.m_fight, now, s, t)
  BY <1>1
<1> HIDE DEF e, s, t, fights, i, m
<1>4. i = FightPosition(fights, s, t)
  BY DEF i
<1>5. h \in Fight /\ SameIds(f, h) /\ OneMore(TotalsOf(f), TotalsOf(h))
  <2> DEFINE verb == a.verb
             much == a.damage
  <2>1. verb \in Verb /\ much \in Nat /\ h = Hit(f, now, verb, class, much)
    BY DEF Action
  <2>2. class \in Class
    BY <1>1, <2>1, HitClassType
  <2> HIDE DEF f, verb, much, h, class
  <2>3. h \in Fight /\ SameIds(f, h)
    BY <1>1, <2>1, <2>2, HitType DEF SameIds
  <2>4. OneMore(TotalsOf(f), TotalsOf(h))
    BY <1>1, <2>1, <2>2, HitIsOneMore
  <2> QED BY <2>3, <2>4
<1> HIDE DEF h, class
<1>6. struck \in Seq(Fight)
  BY <1>1, <1>5, ExceptSeq
<1>7. last \in [Special -> Nat]
  BY <1>1
<1>8. c \in BattleState /\ c.m_fight = struck /\ c.m_pc = e.m_pc
  <2> HIDE DEF last, struck
  <2> QED BY <1>1, <1>6, <1>7 DEF BattleState
<1> HIDE DEF c
<1>9. m.m_fight = struck /\ m.m_pc = e.m_pc
  BY <1>2, <1>8, KeepaliveType
<1>10. PcMore(b, m)
  BY <1>1, <1>9 DEF PcMore
<1>11. Struck(b, m, i)
  BY <1>1, <1>3, <1>4, <1>5, <1>9, <1>10, StrikeOne DEF f
<1> QED BY <1>9, <1>11 DEF m, e, s, t, fights, i

(* Battle_miss. *)
LEMMA MissStrikes ==
  ASSUME NEW b, GoodBattle(b), Kept(b.m_fight), NEW now \in Int, NEW a \in Action,
         a.source \in Name, a.target \in Name, a.type \in Evasion
  PROVE  \E i : Struck(b, Miss(b, now, a), i)
<1> DEFINE e      == Engage(b, now, a)
           s      == PCIndex(e.m_pc, a.source)
           t      == PCIndex(e.m_pc, a.target)
           fights == GetFight(e.m_fight, now, s, t)
           i      == FightPosition(fights, s, t)
           f      == fights[i]
           h      == Evade(f, now, a.verb, a.type)
           struck == [fights EXCEPT ![i] = h]
           c      == [e EXCEPT !.m_fight = struck]
           m      == Miss(b, now, a)
<1>1. /\ e \in BattleState
      /\ PcMore(b, e) /\ e.m_fight = b.m_fight
      /\ s \in Nat /\ t \in Nat
      /\ fights \in Seq(Fight) /\ i \in 1..Len(fights) /\ f \in Fight /\ Shaped(f)
  BY FightFound
<1>2. m = Keepalive(c, now)
  BY DEF Miss
<1>3. fights = GetFight(b.m_fight, now, s, t)
  BY <1>1
<1> HIDE DEF e, s, t, fights, i, m
<1>4. i = FightPosition(fights, s, t)
  BY DEF i
<1>5. h \in Fight /\ SameIds(f, h) /\ OneMore(TotalsOf(f), TotalsOf(h))
  <2> DEFINE verb    == a.verb
             evasion == a.type
  <2>1. verb \in Verb /\ evasion \in Evasion /\ h = Evade(f, now, verb, evasion)
    BY DEF Action
  <2> HIDE DEF f, verb, evasion, h
  <2> QED BY <1>1, <2>1, EvadeType, EvadeIsOneMore DEF SameIds
<1> HIDE DEF h
<1>6. struck \in Seq(Fight)
  BY <1>1, <1>5, ExceptSeq
<1>7. c \in BattleState /\ c.m_fight = struck /\ c.m_pc = e.m_pc
  <2> HIDE DEF struck
  <2> QED BY <1>1, <1>6 DEF BattleState
<1> HIDE DEF c
<1>8. m.m_fight = struck /\ m.m_pc = e.m_pc
  BY <1>2, <1>7, KeepaliveType
<1>9. PcMore(b, m)
  BY <1>1, <1>8 DEF PcMore
<1>10. Struck(b, m, i)
  BY <1>1, <1>3, <1>4, <1>5, <1>8, <1>9, StrikeOne DEF f
<1> QED BY <1>10 DEF m

(* A finishing blow, a heal, a death and an announcement show in no account.*)
LEMMA UnstruckSame ==
  ASSUME NEW b, GoodBattle(b), NEW c, c.m_fight = b.m_fight, PcMore(b, c)
  PROVE  Unstruck(b, c)
BY DEF Unstruck, SameIds

LEMMA PcMoreSame ==
  ASSUME NEW b, GoodBattle(b), NEW c, c.m_pc = b.m_pc
  PROVE  PcMore(b, c)
BY GoodParts DEF PcMore

LEMMA BlowUnstruck ==
  ASSUME NEW b, GoodBattle(b), NEW now \in Int, NEW a \in Action, IsBlow(a),
         a.source \in Name, a.target \in Name
  PROVE  Unstruck(b, Melee(b, now, a))
<1> DEFINE e == Engage(b, now, a)
           t == PCIndex(e.m_pc, a.target)
           c == [e EXCEPT !.m_lastFinishingBlow = t]
<1>1. e \in BattleState /\ PcMore(b, e) /\ e.m_fight = b.m_fight
  BY EngageFinds, EngageKeeps, GoodParts
<1>2. Melee(b, now, a) = c
  BY DEF Melee, IsBlow
<1> HIDE DEF e, t
<1>3. c.m_pc = e.m_pc /\ c.m_fight = b.m_fight
  BY <1>1 DEF BattleState
<1> HIDE DEF c
<1>4. PcMore(b, c)
  BY <1>1, <1>3 DEF PcMore
<1> QED BY <1>2, <1>3, <1>4, UnstruckSame

LEMMA HealUnstruck ==
  ASSUME NEW b, GoodBattle(b), NEW now \in Int, NEW a \in Action
  PROVE  Unstruck(b, Heal(b, now, a))
<1> DEFINE st == Start(b, now)
           total == st.m_totalHeals + a.damage
           c  == [st EXCEPT !.m_totalHeals = total]
<1>1. st \in BattleState /\ st.m_pc = b.m_pc /\ st.m_fight = b.m_fight
  BY GoodParts, StartType
<1>2. Heal(b, now, a) = Keepalive(c, now)
  BY DEF Heal
<1> HIDE DEF st, total
<1>3. /\ Keepalive(c, now).m_fight = b.m_fight
      /\ Keepalive(c, now).m_pc = b.m_pc
  BY <1>1 DEF Keepalive, BattleState
<1> HIDE DEF c
<1> QED BY <1>2, <1>3, UnstruckSame, PcMoreSame

LEMMA DieUnstruck ==
  ASSUME NEW b, GoodBattle(b), NEW now \in Int, NEW a \in Action
  PROVE  Unstruck(b, Die(b, now, a))
<1> DEFINE e == Engage(b, now, a)
           s == PCIndex(e.m_pc, a.source)
           t == PCIndex(e.m_pc, a.target)
           finishing == t = e.m_lastFinishingBlow
           deaths == Append(e.m_death, [sourceId |-> s, targetId |-> t,
                                        finishingBlow |-> finishing])
           blow == IF finishing THEN NoId ELSE e.m_lastFinishingBlow
           c == [e EXCEPT !.m_death = deaths, !.m_lastFinishingBlow = blow]
<1>1. e \in BattleState /\ PcMore(b, e) /\ e.m_fight = b.m_fight
  BY EngageFinds, EngageKeeps, GoodParts
<1>2. Die(b, now, a) = Keepalive(c, now)
  BY DEF Die
<1> HIDE DEF e, deaths, blow
<1>3. /\ Keepalive(c, now).m_fight = b.m_fight
      /\ Keepalive(c, now).m_pc = e.m_pc
  BY <1>1 DEF Keepalive, BattleState
<1> HIDE DEF c
<1>4. PcMore(b, Keepalive(c, now))
  BY <1>1, <1>3 DEF PcMore
<1> QED BY <1>2, <1>3, <1>4, UnstruckSame

LEMMA AnnounceUnstruck ==
  ASSUME NEW b, GoodBattle(b), NEW class, NEW a
  PROVE  Unstruck(b, Announce(b, class, a))
<1>1. Announce(b, class, a).m_fight = b.m_fight /\ Announce(b, class, a).m_pc = b.m_pc
  BY GoodParts DEF Announce, BattleState
<1> QED BY <1>1, UnstruckSame, PcMoreSame
-----------------------------------------------------------------------------
(* A change that shows in no account, after one that does. *)
LEMMA StruckThenUnstruck ==
  ASSUME NEW b, GoodBattle(b), NEW m, GoodBattle(m), NEW c, NEW i,
         Struck(b, m, i), Unstruck(m, c)
  PROVE  Struck(b, c, i)
<1>1. /\ Len(b.m_pc) \in Nat /\ Len(m.m_pc) \in Nat /\ Len(b.m_fight) \in Nat
      /\ Len(m.m_fight) \in Nat
  BY FightParts
<1>2. PcMore(b, m) /\ PcMore(m, c)
  BY DEF Struck, Unstruck
<1>3. /\ Len(m.m_pc) <= Len(c.m_pc)
      /\ \A j \in 1..Len(b.m_pc) : j \in 1..Len(m.m_pc)
      /\ \A j \in 1..Len(b.m_pc) : c.m_pc[j] = b.m_pc[j]
  BY <1>1, <1>2 DEF PcMore
<1>4. PcMore(b, c)
  <2>1. \A l : Len(b.m_pc) <= Len(m.m_pc) /\ Len(m.m_pc) <= l /\ l \in Nat => Len(b.m_pc) <= l
    BY <1>1
  <2>2. Len(b.m_pc) <= Len(m.m_pc)
    BY <1>2 DEF PcMore
  <2> QED BY <1>3, <2>1, <2>2 DEF PcMore
<1> QED BY <1>1, <1>4 DEF Struck, Unstruck, SameIds

(* Battle_magic: counted as magic it shows in no account, but Battle_melee  *)
(* has counted it as a hit.                                                 *)
LEMMA MagicStrikes ==
  ASSUME NEW b, GoodBattle(b), NEW now \in Int, NEW a \in Action,
         a.source \in Name, a.target \in Name, a.type = "MAGIC", a.damage > 0,
         NEW told \in [Special -> Nat], NEW damage \in Nat, NEW swings \in Nat,
         Counted(b, told, damage, swings)
  PROVE  \E i : Struck(b, Magic(b, now, a), i)
<1> DEFINE m      == Melee(b, now, a)
           e      == Engage(m, now, a)
           s      == PCIndex(e.m_pc, a.source)
           t      == PCIndex(e.m_pc, a.target)
           fights == GetFight(e.m_fight, now, s, t)
           i      == FightPosition(fights, s, t)
           f      == fights[i]
           h      == [f EXCEPT !.m_magic.hits = @ + 1,
                               !.m_magic.damage = @ + a.damage,
                               !.end = now]
           counted == [fights EXCEPT ![i].m_magic.hits = @ + 1,
                                     ![i].m_magic.damage = @ + a.damage,
                                     ![i].end = now]
           struck == [fights EXCEPT ![i] = h]
           c      == [e EXCEPT !.m_fight = counted]
           ms     == PCIndex(m.m_pc, a.source)
           mt     == PCIndex(m.m_pc, a.target)
           mg     == Magic(b, now, a)
<1>1. GoodBattle(m)
  BY MeleeGood
<1>2. \E j : Struck(b, m, j)
  <2>1. Kept(b.m_fight) /\ ~IsBlow(a)
    BY DEF Counted, IsBlow
  <2> QED BY <2>1, MeleeStrikes
<1>3. /\ Kept(m.m_fight)
      /\ ms \in 1..Len(m.m_pc) /\ mt \in 1..Len(m.m_pc)
      /\ \E j \in 1..Len(m.m_fight) : /\ m.m_fight[j].sourceId = ms
                                      /\ m.m_fight[j].targetId = mt
  BY MeleeCounts DEF IsBlow, Counted
<1>4. mg = Keepalive(c, now)
  BY DEF Magic
<1> HIDE DEF m, mg
<1>5. /\ e \in BattleState /\ e.m_fight = m.m_fight /\ PcMore(m, e)
      /\ fights \in Seq(Fight) /\ i \in 1..Len(fights) /\ f \in Fight
  BY <1>1, <1>3, FightFound
<1>6. e.m_pc = m.m_pc /\ s = ms /\ t = mt
  <2>1. Start(m, now).m_pc = m.m_pc /\ Start(m, now) \in BattleState
    BY <1>1, GoodParts, StartType
  <2>2. ms # NoId /\ mt # NoId
    BY <1>1, <1>3, GoodParts DEF NoId
  <2>3. Intern(m.m_pc, a.source) = m.m_pc /\ Intern(m.m_pc, a.target) = m.m_pc
    BY <2>2 DEF Intern
  <2>4. e.m_pc = m.m_pc
    BY <2>1, <2>3 DEF Engage, BattleState
  <2> QED BY <2>4
<1> HIDE DEF ms, mt
<1>7. fights = m.m_fight
  <2>1. m.m_fight \in Seq(Fight)
    BY <1>1, FightParts
  <2>2. FightPosition(m.m_fight, ms, mt) # NoId
    BY <1>3, <2>1, FightPositionFinds
  <2> QED BY <1>5, <1>6, <2>2 DEF GetFight
<1>8. a.damage \in Nat
  BY DEF Action
<1> HIDE DEF e, s, t, fights, i
<1>9. counted = struck
  BY <1>5 DEF Fight
<1>10. h \in Fight /\ SameIds(f, h) /\ h.m_melee = f.m_melee /\ h.m_byVerb = f.m_byVerb
  <2>1. h \in Fight
    BY <1>5, <1>8, MagicCountType
  <2> QED BY <1>5, <2>1 DEF Fight, SameIds
<1> HIDE DEF h
<1>11. /\ struck \in Seq(Fight) /\ Len(struck) = Len(fights) /\ struck[i] = h
       /\ \A j \in 1..Len(fights) : j # i => struck[j] = fights[j]
  BY <1>5, <1>10, ExceptSeq
<1>12. \A j \in 1..Len(fights) : /\ SameIds(fights[j], struck[j])
                                 /\ TotalsOf(struck[j]) = TotalsOf(fights[j])
  BY <1>10, <1>11, TotalsSame DEF SameIds, f
<1> HIDE DEF struck, counted, f
<1>13. c \in BattleState /\ c.m_fight = struck /\ c.m_pc = e.m_pc
  BY <1>5, <1>9, <1>11 DEF BattleState
<1> HIDE DEF c
<1>14. mg.m_fight = struck /\ mg.m_pc = m.m_pc
  BY <1>4, <1>6, <1>13, KeepaliveType
<1>15. Unstruck(m, mg)
  BY <1>1, <1>7, <1>11, <1>12, <1>14, PcMoreSame DEF Unstruck
<1> QED BY <1>1, <1>2, <1>15, StruckThenUnstruck DEF mg
-----------------------------------------------------------------------------
(* The rows of a report: those of the fights of each name. *)
RowSet(b) == {Row(b, f) : f \in Fight}
LEMMA RowsOfRange ==
  ASSUME NEW b, NEW fights \in Seq(Fight), NEW pcId
  PROVE  /\ RowsOf(b, fights, pcId) \in Seq(RowSet(b))
         /\ \A x : x \in Range(RowsOf(b, fights, pcId))
              <=> \E k \in 1..Len(fights) : Owner(fights[k]) = pcId /\ x = Row(b, fights[k])
<1> DEFINE S == RowSet(b)
           n == Len(fights)
           Part(k) == IF Owner(fights[k]) = pcId THEN << Row(b, fights[k]) >> ELSE << >>
           seqs == [k \in 1..n |-> Part(k)]
<1>1. RowsOf(b, fights, pcId) = FlattenSeq(seqs)
  BY DEF RowsOf
<1>2. n \in Nat /\ \A k \in 1..n : fights[k] \in Fight
  OBVIOUS
<1>3. ASSUME NEW k \in 1..n
      PROVE  /\ Part(k) \in Seq(S)
             /\ \A x : x \in Range(Part(k)) <=> Owner(fights[k]) = pcId /\ x = Row(b, fights[k])
  <2> DEFINE r == Row(b, fights[k])
  <2>1. r \in S
    BY <1>2 DEF RowSet
  <2> HIDE DEF r, S
  <2>2. << r >> \in Seq(S) /\ << >> \in Seq(S)
    BY <2>1
  <2>3. DOMAIN << r >> = {1} /\ DOMAIN << >> = {}
    OBVIOUS
  <2>4. (\A x : x \in Range(<< r >>) <=> x = r) /\ Range(<< >>) = {}
    <3>1. << r >>[1] = r
      OBVIOUS
    <3> QED BY <2>3, <3>1 DEF Range
  <2>5. CASE Owner(fights[k]) = pcId
    BY <2>2, <2>4, <2>5 DEF r
  <2>6. CASE Owner(fights[k]) # pcId
    BY <2>2, <2>4, <2>6 DEF r
  <2> QED BY <2>5, <2>6
<1> HIDE DEF S, Part
<1>4. seqs \in Seq(Seq(S)) /\ Len(seqs) = n
  <2>1. seqs \in [1..n -> Seq(S)]
    BY <1>3
  <2> QED BY <1>2, <2>1
<1>5. \A k \in 1..n : seqs[k] = Part(k)
  OBVIOUS
<1> HIDE DEF seqs
<1>6. /\ FlattenSeq(seqs) \in Seq(S)
      /\ \A x : x \in Range(FlattenSeq(seqs)) <=> \E k \in 1..Len(seqs) : x \in Range(seqs[k])
  BY <1>4, FlattenRange
<1>7. \A x : x \in Range(FlattenSeq(seqs)) <=> \E k \in 1..n : x \in Range(Part(k))
  BY <1>4, <1>5, <1>6
<1>8. \A x : x \in Range(FlattenSeq(seqs))
               <=> \E k \in 1..n : Owner(fights[k]) = pcId /\ x = Row(b, fights[k])
  BY <1>3, <1>7
<1> QED BY <1>1, <1>6, <1>8 DEF S

(* Every fight has its row, and no row is of anything else. *)
LEMMA RowsRange ==
  ASSUME NEW b, GoodBattle(b)
  PROVE  \A x : x \in Range(Rows(b))
                  <=> \E i \in 1..Len(b.m_fight) : x = Row(b, b.m_fight[i])
<1> DEFINE S == RowSet(b)
           fights == Sort(b.m_fight)
           n == Len(b.m_pc)
           seqs == [pcId \in 1..n |-> RowsOf(b, fights, pcId)]
<1>1. Rows(b) = FlattenSeq(seqs)
  BY DEF Rows
<1>2. /\ b.m_fight \in Seq(Fight) /\ n \in Nat /\ Len(b.m_fight) \in Nat
      /\ \A i \in 1..Len(b.m_fight) : Owner(b.m_fight[i]) \in 1..n
  BY FightParts DEF Owner
<1>3. Rearranged(b.m_fight, fights)
  BY <1>2, SortKeeps
<1>4. fights \in Seq(Fight) /\ Len(fights) = Len(b.m_fight)
  BY <1>3 DEF Rearranged
<1>5. \A f : (\E k \in 1..Len(fights) : f = fights[k])
               <=> \E i \in 1..Len(b.m_fight) : f = b.m_fight[i]
  <2>1. DOMAIN fights = 1..Len(fights) /\ DOMAIN b.m_fight = 1..Len(b.m_fight)
    <3> HIDE DEF fights
    <3> QED BY <1>2, <1>4
  <2>2. \A f : f \in Range(fights) <=> f \in Range(b.m_fight)
    BY <1>3 DEF Rearranged
  <2> HIDE DEF fights
  <2> QED BY <2>1, <2>2 DEF Range
<1> HIDE DEF fights
<1>6. \A pcId \in 1..n :
        /\ RowsOf(b, fights, pcId) \in Seq(S)
        /\ \A x : x \in Range(RowsOf(b, fights, pcId))
             <=> \E k \in 1..Len(fights) : Owner(fights[k]) = pcId /\ x = Row(b, fights[k])
  BY <1>4, RowsOfRange
<1> HIDE DEF S
<1>7. seqs \in Seq(Seq(S)) /\ Len(seqs) = n
  <2>1. seqs \in [1..n -> Seq(S)]
    BY <1>6
  <2> QED BY <1>2, <2>1
<1>8. \A p \in 1..n : seqs[p] = RowsOf(b, fights, p)
  OBVIOUS
<1> HIDE DEF seqs
<1>9. \A x : x \in Range(FlattenSeq(seqs)) <=> \E p \in 1..n : x \in Range(seqs[p])
  BY <1>7, FlattenRange
<1>10. \A x : x \in Range(FlattenSeq(seqs))
         <=> \E p \in 1..n : \E k \in 1..Len(fights) :
               Owner(fights[k]) = p /\ x = Row(b, fights[k])
  BY <1>6, <1>8, <1>9
<1>11. ASSUME NEW x, x \in Range(FlattenSeq(seqs))
       PROVE  \E i \in 1..Len(b.m_fight) : x = Row(b, b.m_fight[i])
  <2>1. PICK k \in 1..Len(fights) : x = Row(b, fights[k])
    BY <1>10, <1>11
  <2>2. PICK i \in 1..Len(b.m_fight) : fights[k] = b.m_fight[i]
    BY <1>5
  <2> QED BY <2>1, <2>2
<1>12. ASSUME NEW i \in 1..Len(b.m_fight)
       PROVE  Row(b, b.m_fight[i]) \in Range(FlattenSeq(seqs))
  <2>1. PICK k \in 1..Len(fights) : b.m_fight[i] = fights[k]
    BY <1>5
  <2>2. Owner(fights[k]) \in 1..n
    BY <1>2, <2>1
  <2> QED BY <1>10, <2>1, <2>2
<1> QED BY <1>1, <1>11, <1>12

(* What a report prints is the account the ledger publishes. *)
LEMMA Printed ==
  ASSUME NEW b, GoodBattle(b), NEW report, report.rows = Rows(b)
  PROVE  AccountPrinted(report) = Ledger!Public(Account(b))
<1> DEFINE n == Len(b.m_fight)
           R == Range(report.rows)
           pair(r) == <<r.source, r.target>>
           p(i) == PairOf(b, b.m_fight[i])
           row(i) == Row(b, b.m_fight[i])
           D == {pair(r) : r \in R}
           RowOf(q) == CHOOSE r \in R : pair(r) = q
           acc == Account(b)
<1>1. AccountPrinted(report) = [q \in D |-> [hits |-> RowOf(q).hits, damage |-> RowOf(q).damage]]
  BY DEF AccountPrinted
<1>2. Ledger!Public(acc) = [q \in DOMAIN acc |-> [hits |-> acc[q].hits, damage |-> acc[q].damage]]
  BY DEF Ledger!Public
<1>3. \A x : x \in R <=> \E i \in 1..n : x = row(i)
  BY RowsRange
<1>4. \A i \in 1..n : /\ pair(row(i)) = p(i)
                      /\ row(i).hits = TotalsOf(b.m_fight[i]).hits
                      /\ row(i).damage = TotalsOf(b.m_fight[i]).damage
  BY DEF Row, PairOf, TotalsOf
<1>5. \A i, j \in 1..n : p(i) = p(j) => i = j
  BY PairsDiffer
<1>6. DOMAIN acc = {p(i) : i \in 1..n} /\ \A i \in 1..n : acc[p(i)] = TotalsOf(b.m_fight[i])
  BY AccountIs
<1> HIDE DEF n, R, pair, p, row, acc
<1>7. D = DOMAIN acc
  BY <1>3, <1>4, <1>6
<1>8. ASSUME NEW q \in DOMAIN acc
      PROVE  RowOf(q).hits = acc[q].hits /\ RowOf(q).damage = acc[q].damage
  <2>1. PICK i \in 1..n : q = p(i)
    BY <1>6
  <2>2. row(i) \in R /\ pair(row(i)) = q
    BY <1>3, <1>4, <2>1
  <2>3. RowOf(q) \in R /\ pair(RowOf(q)) = q
    BY <2>2
  <2> HIDE DEF RowOf
  <2>4. PICK j \in 1..n : RowOf(q) = row(j)
    BY <1>3, <2>3
  <2>5. j = i
    BY <1>4, <1>5, <2>1, <2>3, <2>4
  <2> QED BY <1>4, <1>6, <2>1, <2>4, <2>5
<1> HIDE DEF D, RowOf
<1> QED BY <1>1, <1>2, <1>7, <1>8 DEF acc
-----------------------------------------------------------------------------
(* When the battle begins and ends for a line that joins it. *)
Joined(b, c, d)    == c.m_start = IF b.m_start = -1 THEN d ELSE b.m_start
Prolonged(b, c, d) == Joined(b, c, d) /\ c.m_end = d
Opening(b, c, d)   == Joined(b, c, d) /\ c.m_end = IF b.m_start = -1 THEN d ELSE b.m_end

LEMMA StartOpens ==
  ASSUME NEW b \in BattleState, NEW d \in Int, Within(b, d)
  PROVE  Opening(b, Start(b, d), d)
<1>1. CASE Begun(b, d)
  <2>1. InProgress(b)
    BY <1>1, DatesType DEF Begun, InProgress, Battle_seconds
  <2> QED BY <1>1, <2>1 DEF Start, Begun, Opening, Joined
<1>2. CASE Idle(b)
  <2> DEFINE c == [b EXCEPT !.m_start = d]
  <2>1. Start(b, d) = Keepalive(c, d)
    BY <1>2 DEF Idle, InProgress, Battle_seconds, Start
  <2>2. Keepalive(c, d).m_start = d /\ Keepalive(c, d).m_end = d
    BY DEF Keepalive, BattleState
  <2> HIDE DEF c
  <2> QED BY <1>2, <2>1, <2>2 DEF Idle, Opening, Joined
<1> QED BY <1>1, <1>2 DEF Within

LEMMA EngageOpens ==
  ASSUME NEW b, GoodBattle(b), NEW d \in Int, Within(b, d), NEW a \in Action
  PROVE  Opening(b, Engage(b, d, a), d)
<1> DEFINE st == Start(b, d)
           pc == Intern(Intern(st.m_pc, a.source), a.target)
           e  == [st EXCEPT !.m_pc = pc]
<1>1. st \in BattleState /\ Opening(b, st, d)
  BY GoodParts, StartType, StartOpens
<1>2. Engage(b, d, a) = e
  BY DEF Engage
<1> HIDE DEF st, pc
<1>3. e.m_start = st.m_start /\ e.m_end = st.m_end
  BY <1>1 DEF BattleState
<1> HIDE DEF e
<1> QED BY <1>1, <1>2, <1>3 DEF Opening, Joined

(* Battle_keepalive ends every handler that counts, heals or buries. *)
LEMMA KeepaliveProlongs ==
  ASSUME NEW b, NEW e \in BattleState, NEW d \in Int, Joined(b, e, d),
         NEW c, DOMAIN c = DOMAIN e, c.m_start = e.m_start
  PROVE  Prolonged(b, Keepalive(c, d), d)
<1>1. {"m_start", "m_end", "m_expire"} \subseteq DOMAIN c
  BY DEF BattleState
<1>2. Keepalive(c, d).m_start = c.m_start /\ Keepalive(c, d).m_end = d
  BY <1>1 DEF Keepalive
<1> QED BY <1>2 DEF Prolonged, Joined

LEMMA MeleeProlongs ==
  ASSUME NEW b, GoodBattle(b), NEW d \in Int, Within(b, d), NEW a \in Action, ~IsBlow(a)
  PROVE  Prolonged(b, Melee(b, d, a), d)
<1> DEFINE e      == Engage(b, d, a)
           s      == PCIndex(e.m_pc, a.source)
           t      == PCIndex(e.m_pc, a.target)
           fights == GetFight(e.m_fight, d, s, t)
           i      == FightPosition(fights, s, t)
           class  == HitClass(e.m_last, a.damage)
           last   == [x \in Special |-> IF x = class THEN 0 ELSE e.m_last[x]]
           struck == [fights EXCEPT ![i] = Hit(fights[i], d, a.verb, class, a.damage)]
           c      == [e EXCEPT !.m_fight = struck, !.m_last = last]
<1>1. e \in BattleState /\ Joined(b, e, d)
  BY EngageFinds, EngageOpens, GoodParts DEF Opening
<1>2. Melee(b, d, a) = Keepalive(c, d)
  BY DEF Melee, IsBlow
<1> HIDE DEF e, struck, last
<1>3. DOMAIN c = DOMAIN e /\ c.m_start = e.m_start
  BY <1>1 DEF BattleState
<1> HIDE DEF c
<1> QED BY <1>1, <1>2, <1>3, KeepaliveProlongs

LEMMA MissProlongs ==
  ASSUME NEW b, GoodBattle(b), NEW d \in Int, Within(b, d), NEW a \in Action
  PROVE  Prolonged(b, Miss(b, d, a), d)
<1> DEFINE e      == Engage(b, d, a)
           s      == PCIndex(e.m_pc, a.source)
           t      == PCIndex(e.m_pc, a.target)
           fights == GetFight(e.m_fight, d, s, t)
           i      == FightPosition(fights, s, t)
           struck == [fights EXCEPT ![i] = Evade(fights[i], d, a.verb, a.type)]
           c      == [e EXCEPT !.m_fight = struck]
<1>1. e \in BattleState /\ Joined(b, e, d)
  BY EngageFinds, EngageOpens, GoodParts DEF Opening
<1>2. Miss(b, d, a) = Keepalive(c, d)
  BY DEF Miss
<1> HIDE DEF e, struck
<1>3. DOMAIN c = DOMAIN e /\ c.m_start = e.m_start
  BY <1>1 DEF BattleState
<1> HIDE DEF c
<1> QED BY <1>1, <1>2, <1>3, KeepaliveProlongs

LEMMA MagicProlongs ==
  ASSUME NEW b, GoodBattle(b), NEW d, Inside(d), Within(b, d), NEW a \in Action,
         a.source \in Name, a.target \in Name, ~IsBlow(a)
  PROVE  Prolonged(b, Magic(b, d, a), d)
<1> DEFINE m      == Melee(b, d, a)
           e      == Engage(m, d, a)
           s      == PCIndex(e.m_pc, a.source)
           t      == PCIndex(e.m_pc, a.target)
           fights == GetFight(e.m_fight, d, s, t)
           i      == FightPosition(fights, s, t)
           counted == [fights EXCEPT ![i].m_magic.hits = @ + 1,
                                     ![i].m_magic.damage = @ + a.damage,
                                     ![i].end = d]
           c      == [e EXCEPT !.m_fight = counted]
<1>1. d \in Int
  BY DEF Inside
<1>2. GoodBattle(m) /\ Within(m, d) /\ Joined(b, m, d) /\ m.m_start # -1
  <2>1. GoodBattle(m) /\ Begun(m, d)
    BY <1>1, MeleeGood, MeleeBegun
  <2>2. Joined(b, m, d)
    BY <1>1, MeleeProlongs DEF Prolonged
  <2> HIDE DEF m
  <2> QED BY <2>1, <2>2 DEF Within, Begun
<1>3. Magic(b, d, a) = Keepalive(c, d)
  BY DEF Magic
<1> HIDE DEF m
<1>4. e \in BattleState /\ Joined(m, e, d)
  BY <1>1, <1>2, EngageFinds, EngageOpens, GoodParts DEF Opening
<1>5. Joined(b, e, d)
  BY <1>2, <1>4 DEF Joined
<1> HIDE DEF e, counted
<1>6. DOMAIN c = DOMAIN e /\ c.m_start = e.m_start
  BY <1>4 DEF BattleState
<1> HIDE DEF c
<1> QED BY <1>1, <1>3, <1>4, <1>5, <1>6, KeepaliveProlongs

LEMMA HealProlongs ==
  ASSUME NEW b, GoodBattle(b), NEW d \in Int, Within(b, d), NEW a \in Action
  PROVE  Prolonged(b, Heal(b, d, a), d)
<1> DEFINE st == Start(b, d)
           total == st.m_totalHeals + a.damage
           c  == [st EXCEPT !.m_totalHeals = total]
<1>1. st \in BattleState /\ Joined(b, st, d)
  BY GoodParts, StartType, StartOpens DEF Opening
<1>2. Heal(b, d, a) = Keepalive(c, d)
  BY DEF Heal
<1> HIDE DEF st, total
<1>3. DOMAIN c = DOMAIN st /\ c.m_start = st.m_start
  BY <1>1 DEF BattleState
<1> HIDE DEF c
<1> QED BY <1>1, <1>2, <1>3, KeepaliveProlongs

LEMMA DieProlongs ==
  ASSUME NEW b, GoodBattle(b), NEW d \in Int, Within(b, d), NEW a \in Action
  PROVE  Prolonged(b, Die(b, d, a), d)
<1> DEFINE e == Engage(b, d, a)
           s == PCIndex(e.m_pc, a.source)
           t == PCIndex(e.m_pc, a.target)
           finishing == t = e.m_lastFinishingBlow
           deaths == Append(e.m_death, [sourceId |-> s, targetId |-> t,
                                        finishingBlow |-> finishing])
           blow == IF finishing THEN NoId ELSE e.m_lastFinishingBlow
           c == [e EXCEPT !.m_death = deaths, !.m_lastFinishingBlow = blow]
<1>1. e \in BattleState /\ Joined(b, e, d)
  BY EngageFinds, EngageOpens, GoodParts DEF Opening
<1>2. Die(b, d, a) = Keepalive(c, d)
  BY DEF Die
<1> HIDE DEF e, deaths, blow
<1>3. DOMAIN c = DOMAIN e /\ c.m_start = e.m_start
  BY <1>1 DEF BattleState
<1> HIDE DEF c
<1> QED BY <1>1, <1>2, <1>3, KeepaliveProlongs

(* A finishing blow begins a battle, and does not prolong one. *)
LEMMA BlowOpens ==
  ASSUME NEW b, GoodBattle(b), NEW d \in Int, Within(b, d), NEW a \in Action, IsBlow(a)
  PROVE  Opening(b, Melee(b, d, a), d)
<1> DEFINE e == Engage(b, d, a)
           t == PCIndex(e.m_pc, a.target)
           c == [e EXCEPT !.m_lastFinishingBlow = t]
<1>1. e \in BattleState /\ Opening(b, e, d)
  BY EngageFinds, EngageOpens, GoodParts
<1>2. Melee(b, d, a) = c
  BY DEF Melee, IsBlow
<1> HIDE DEF e, t
<1>3. c.m_start = e.m_start /\ c.m_end = e.m_end
  BY <1>1 DEF BattleState
<1> HIDE DEF c
<1> QED BY <1>1, <1>2, <1>3 DEF Opening, Joined

LEMMA AnnounceJoinsNot ==
  ASSUME NEW b, GoodBattle(b), NEW class, NEW a
  PROVE  /\ Announce(b, class, a).m_start = b.m_start
         /\ Announce(b, class, a).m_end = b.m_end
BY GoodParts DEF Announce, BattleState
-----------------------------------------------------------------------------
(* What has been printed, as the ledger publishes it. *)
Published(out) == [k \in 1..Len(out) |-> AccountPrinted(out[k])]
IsSeq(s) == s \in Seq(Range(s))

LEMMA SeqIsSeq ==
  ASSUME NEW S, NEW s \in Seq(S)
  PROVE  IsSeq(s)
<1>1. /\ Len(s) \in Nat /\ s = [i \in 1..Len(s) |-> s[i]] /\ DOMAIN s = 1..Len(s)
  OBVIOUS
<1>2. \A i \in 1..Len(s) : s[i] \in Range(s)
  BY <1>1 DEF Range
<1> DEFINE R == Range(s)
<1> HIDE DEF R
<1>3. s \in [1..Len(s) -> R]
  BY <1>1, <1>2 DEF R
<1>4. s \in Seq(R)
  BY <1>1, <1>3
<1> QED BY <1>4 DEF IsSeq, R

LEMMA PublishedMore ==
  ASSUME NEW out, IsSeq(out), NEW b, GoodBattle(b)
  PROVE  /\ IsSeq(out \o Report(b))
         /\ Published(out \o Report(b))
              = IF b.m_end - b.m_start >= KeepAlive
                THEN Append(Published(out), Ledger!Public(Account(b))) ELSE Published(out)
<1> DEFINE r == [from |-> b.m_start, to |-> b.m_end, rows |-> Rows(b)]
           S == Range(out) \union {r}
           n == Len(out)
<1>1. out \in Seq(S) /\ n \in Nat
  <2> DEFINE R == Range(out)
  <2>1. out \in Seq(R)
    BY DEF IsSeq
  <2> HIDE DEF R
  <2>2. out \in Seq(R \union {r}) /\ n \in Nat
    BY <2>1
  <2> QED BY <2>2 DEF R
<1>2. AccountPrinted(r) = Ledger!Public(Account(b))
  <2>1. r.rows = Rows(b)
    OBVIOUS
  <2> HIDE DEF r
  <2> QED BY <2>1, Printed
<1>3. Report(b) = IF b.m_end - b.m_start >= KeepAlive THEN << r >> ELSE << >>
  BY DEF Report, Reported
<1>4. r \in S
  OBVIOUS
<1> HIDE DEF r, S
<1>5. CASE b.m_end - b.m_start >= KeepAlive
  <2> DEFINE more == out \o << r >>
             pub  == Published(out)
             last == Ledger!Public(Account(b))
  <2>1. /\ more \in Seq(S) /\ Len(more) = n + 1
        /\ \A k \in 1..n : more[k] = out[k]
        /\ more[n + 1] = r
    BY <1>1, <1>4
  <2> HIDE DEF more, last
  <2>2. IsSeq(more)
    BY <2>1, SeqIsSeq
  <2>3. Published(more) = [k \in 1..(n + 1) |-> AccountPrinted(more[k])]
    BY <2>1 DEF Published
  <2>4. pub = [k \in 1..n |-> AccountPrinted(out[k])]
    BY DEF Published
  <2>5. Len(pub) = n
    <3> HIDE DEF pub
    <3> QED BY <1>1, <2>4
  <2>6. Append(pub, last) = [k \in 1..(n + 1) |-> IF k = n + 1 THEN last ELSE pub[k]]
    <3> DEFINE T == {pub[k] : k \in 1..n} \union {last}
               app == Append(pub, last)
    <3>1. pub \in Seq(T) /\ last \in T
      <4>1. pub = [k \in 1..n |-> pub[k]] /\ \A k \in 1..n : pub[k] \in T
        BY <2>4
      <4> HIDE DEF pub, T
      <4>2. pub \in [1..n -> T]
        BY <4>1
      <4> QED BY <1>1, <4>2 DEF T
    <3> HIDE DEF pub, T
    <3>2. /\ app \in Seq(T) /\ Len(app) = n + 1 /\ app[n + 1] = last
          /\ \A k \in 1..n : app[k] = pub[k]
      BY <2>5, <3>1, AppendProperties
    <3>3. app = [k \in 1..(n + 1) |-> app[k]]
      <4> HIDE DEF app
      <4> QED BY <3>2
    <3> HIDE DEF app
    <3>4. \A k \in 1..(n + 1) : app[k] = IF k = n + 1 THEN last ELSE pub[k]
      BY <1>1, <3>2
    <3> QED BY <3>3, <3>4 DEF app
  <2>7. \A k \in 1..(n + 1) : AccountPrinted(more[k]) = IF k = n + 1 THEN last ELSE pub[k]
    <3> SUFFICES ASSUME NEW k \in 1..(n + 1)
                 PROVE  AccountPrinted(more[k]) = IF k = n + 1 THEN last ELSE pub[k]
      OBVIOUS
    <3>1. CASE k = n + 1
      BY <1>2, <2>1, <3>1 DEF last
    <3>2. CASE k # n + 1
      <4>1. k \in 1..n
        BY <1>1, <3>2
      <4> HIDE DEF pub
      <4> QED BY <2>1, <2>4, <3>2, <4>1
    <3> QED BY <3>1, <3>2
  <2>8. Published(more) = Append(pub, last)
    <3> HIDE DEF pub
    <3> QED BY <2>3, <2>6, <2>7
  <2> QED BY <1>3, <1>5, <2>2, <2>8 DEF more, last
<1>6. CASE ~(b.m_end - b.m_start >= KeepAlive)
  <2>1. out \o << >> = out
    BY <1>1
  <2> QED BY <1>3, <1>6, <2>1
<1> QED BY <1>5, <1>6
-----------------------------------------------------------------------------
(* What the ledger needs besides the ids, the counts and the window: no    *)
(* date is before -1, and what was printed is a sequence.                  *)
LInv == /\ Within(battle, date)
        /\ date >= -1 /\ battle.m_start >= -1
        /\ IsSeq(stdout)

(* The battle and the dates, in numbers. *)
LEMMA LedgerParts ==
  ASSUME IInv, LInv
  PROVE  /\ battle \in BattleState /\ date \in Int
         /\ battle.m_start \in Int /\ battle.m_end \in Int
         /\ battle.m_start # -1 => /\ battle.m_start > -1 /\ InProgress(battle)
                                   /\ battle.m_expire = battle.m_end + KeepAlive
         /\ battle.m_start = -1 => ~InProgress(battle)
<1>1. battle \in BattleState /\ date \in Int
  BY DatesAssumption DEF IInv, TypeOK
<1>2. battle.m_start \in Int /\ battle.m_end \in Int
  BY <1>1, DatesType
<1>3. CASE battle.m_start # -1
  <2>1. Begun(battle, date)
    BY <1>3 DEF LInv, Within, Idle
  <2>2. InProgress(battle) /\ battle.m_expire = battle.m_end + KeepAlive
    BY <1>2, <2>1 DEF Begun, InProgress, Battle_seconds
  <2>3. battle.m_start > -1
    BY <1>2, <1>3 DEF LInv
  <2> QED BY <1>1, <1>2, <1>3, <2>2, <2>3
<1>4. CASE battle.m_start = -1
  <2>1. ~InProgress(battle)
    BY <1>4 DEF InProgress, Battle_seconds
  <2> QED BY <1>1, <1>2, <1>4, <2>1
<1> QED BY <1>3, <1>4

(* What tellme does before it looks at the action: the ledger is settled,  *)
(* and what is carried on is the battle the handler finds.                 *)
LEMMA Settles ==
  ASSUME DatesInOrder, IInv, LInv, NEW d \in Dates, Accepts(d)
  PROVE  /\ Ledger!Settle
         /\ Ledger!Carried = Account(Current(d))
         /\ Ledger!Stale <=> IsOver(battle, d)
         /\ Current(d).m_start = IF Ledger!Stale THEN -1 ELSE battle.m_start
         /\ Current(d).m_end = IF Ledger!Stale THEN -1 ELSE battle.m_end
         /\ IsSeq(stdout')
         /\ date' = d /\ d \in Int /\ date <= d /\ Inside(d) /\ running
         /\ Within(Current(d), d) /\ GoodBattle(Current(d))
<1>1. /\ battle \in BattleState /\ date \in Int
      /\ battle.m_start \in Int /\ battle.m_end \in Int
      /\ battle.m_start # -1 => /\ battle.m_start > -1
                                /\ battle.m_expire = battle.m_end + KeepAlive
  BY LedgerParts
<1>2. running /\ d \in Int /\ date <= d /\ date' = d
  BY <1>1, DatesAssumption DEF Accepts, Reads, DatesInOrder
<1>3. Inside(d)
  BY <1>2, BoundsAssumption DEF Accepts, BeforeSince, PastUntil, Inside, DatesInOrder
<1>4. GoodBattle(Current(d)) /\ Within(Current(d), d) /\ GoodBattle(battle)
  BY <1>2, CurrentGood, CurrentWithin, IInvGood DEF LInv
<1>5. Ledger!Stale <=> IsOver(battle, d)
  BY <1>1, <1>2, ConfigAssumption DEF Ledger!Stale, Ledger!Opened, IsOver
<1>6. /\ Reset(battle).m_start = -1 /\ Reset(battle).m_end = -1
      /\ Reset(battle).m_fight = << >>
  BY <1>1 DEF Reset, BattleState
<1>7. /\ Current(d).m_start = IF Ledger!Stale THEN -1 ELSE battle.m_start
      /\ Current(d).m_end = IF Ledger!Stale THEN -1 ELSE battle.m_end
  BY <1>5, <1>6 DEF Current
<1>8. Ledger!Carried = Account(Current(d))
  <2>1. Account(Reset(battle)) = Ledger!Empty
    BY <1>6, AccountEmpty
  <2> QED BY <1>5, <2>1 DEF Ledger!Carried, Current
<1>9. stdout' = IF IsOver(battle, d) THEN stdout \o Report(battle) ELSE stdout
  BY DEF Accepts
<1>10. /\ IsSeq(stdout \o Report(battle))
       /\ Published(stdout \o Report(battle)) = Ledger!Publish
  <2>1. Ledger!Publish = IF battle.m_end - battle.m_start >= KeepAlive
          THEN Append(Published(stdout), Ledger!Public(Account(battle))) ELSE Published(stdout)
    BY DEF Ledger!Publish, Published
  <2> QED BY <1>4, <2>1, PublishedMore DEF LInv
<1>11. Published(stdout') = IF Ledger!Stale THEN Ledger!Publish ELSE Published(stdout)
  BY <1>5, <1>9, <1>10
<1>12. Ledger!Settle
  <2>1. date' >= date
    BY <1>1, <1>2
  <2> QED BY <1>11, <2>1 DEF Ledger!Settle, Published
<1>13. IsSeq(stdout')
  BY <1>9, <1>10 DEF LInv
<1> QED BY <1>2, <1>3, <1>4, <1>5, <1>7, <1>8, <1>12, <1>13

(* The handlers, as entries of the ledger. *)
LEMMA Swings ==
  ASSUME Ledger!Settle, NEW b, GoodBattle(b), Ledger!Carried = Account(b),
         b.m_start = IF Ledger!Stale THEN -1 ELSE battle.m_start,
         GoodBattle(battle'), Prolonged(b, battle', date'),
         \E i : Struck(b, battle', i)
  PROVE  Ledger!Swing
<1>1. PICK i : Struck(b, battle', i)
  OBVIOUS
<1> DEFINE p == PairOf(battle', battle'.m_fight[i])
<1>2. p \in Name \X Name /\ Entered(Account(b), Account(battle'), p)
  BY <1>1, AccountStruck
<1> HIDE DEF p
<1>3. Ledger!Enter(p)
  BY <1>2 DEF Ledger!Enter, Entered, OneMore
<1>4. p \in DOMAIN Account(battle')
  BY <1>2 DEF Entered
<1>5. Ledger!Prolongs
  BY DEF Ledger!Prolongs, Ledger!Joins, Ledger!Opened, Prolonged, Joined
<1> QED BY <1>2, <1>3, <1>4, <1>5 DEF Ledger!Swing

LEMMA NoSwing ==
  ASSUME Ledger!Settle, NEW b, GoodBattle(b), Ledger!Carried = Account(b),
         b.m_start = IF Ledger!Stale THEN -1 ELSE battle.m_start,
         b.m_end = IF Ledger!Stale THEN -1 ELSE battle.m_end,
         GoodBattle(battle'), Unstruck(b, battle')
  PROVE  /\ Prolonged(b, battle', date') => Ledger!Prolong
         /\ Opening(b, battle', date') => Ledger!Blow
         /\ battle'.m_start = b.m_start /\ battle'.m_end = b.m_end => Ledger!Tick
<1>1. Account(battle') = Ledger!Carried
  BY AccountSame
<1>2. ASSUME Prolonged(b, battle', date') PROVE Ledger!Prolong
  BY <1>1, <1>2 DEF Ledger!Prolong, Ledger!Prolongs, Ledger!Joins, Ledger!Opened,
                    Prolonged, Joined
<1>3. ASSUME Opening(b, battle', date') PROVE Ledger!Blow
  BY <1>1, <1>3 DEF Ledger!Blow, Ledger!Joins, Ledger!Opened, Opening, Joined
<1>4. ASSUME battle'.m_start = b.m_start, battle'.m_end = b.m_end PROVE Ledger!Tick
  BY <1>1, <1>4 DEF Ledger!Tick
<1> QED BY <1>2, <1>3, <1>4

(* A line that tellme accepts is a step of the ledger, and no date of the  *)
(* battle it leaves is before -1.                                          *)
LEMMA LineEnters ==
  ASSUME DatesInOrder, IInv, CInv, LInv, IInv', NEW d \in Dates, NEW a \in LogLines,
         TellMe(d, a)
  PROVE  Ledger!Next /\ battle'.m_start >= -1 /\ IsSeq(stdout') /\ date' >= -1
<1> DEFINE b == Current(d)
           told == IF IsOver(battle, d) THEN NothingAnnounced ELSE announced
           damage == IF IsOver(battle, d) THEN 0 ELSE dealt
           swings == IF IsOver(battle, d) THEN 0 ELSE swung
<1>1. Accepts(d) /\ running /\ running'
  BY DEF TellMe, DoMelee, DoMiss, DoCrit, DoCrip, DoHolyBlade, DoMagic, DoHeal,
         DoDeath, DoNothing, Accepts, Reads
<1>2. /\ Ledger!Settle /\ Ledger!Carried = Account(b)
      /\ b.m_start = IF Ledger!Stale THEN -1 ELSE battle.m_start
      /\ b.m_end = IF Ledger!Stale THEN -1 ELSE battle.m_end
      /\ IsSeq(stdout') /\ date' = d /\ d \in Int /\ date <= d /\ Inside(d)
      /\ Within(b, d) /\ GoodBattle(b)
  BY <1>1, Settles
<1>3. GoodBattle(battle')
  BY <1>1 DEF IInv, TypeOK, NamesInterned, FightsIndexed, GoodBattle, Interned,
              FightsOver, DeathsOver, BattleState
<1>4. Counted(b, told, damage, swings) /\ Kept(b.m_fight)
  BY <1>1, CurrentCounts DEF Counted
<1>5. told \in [Special -> Nat] /\ damage \in Nat /\ swings \in Nat
  BY DEF IInv, TypeOK, NothingAnnounced
<1>6. /\ a \in Action
      /\ a.type \in {"MELEE", "MAGIC"} \union Evasion => a.source \in Name /\ a.target \in Name
      /\ a.type \in {"MELEE", "MAGIC"} => a.damage > 0
  BY LogAssumption
<1>7. d >= -1 /\ b.m_start >= -1
  <2>1. date \in Int /\ battle.m_start \in Int
    BY LedgerParts
  <2> HIDE DEF b
  <2> QED BY <1>2, <2>1 DEF LInv
<1> HIDE DEF b, told, damage, swings
<1>8. ASSUME Prolonged(b, battle', d) \/ Opening(b, battle', d) PROVE battle'.m_start >= -1
  BY <1>7, <1>8 DEF Prolonged, Opening, Joined
<1>9. ASSUME Prolonged(b, battle', d), \E i : Struck(b, battle', i)
      PROVE  Ledger!Next /\ battle'.m_start >= -1
  BY <1>2, <1>3, <1>8, <1>9, Swings DEF Ledger!Next
<1>10. ASSUME Unstruck(b, battle'), Prolonged(b, battle', d) \/ Opening(b, battle', d)
       PROVE  Ledger!Next /\ battle'.m_start >= -1
  BY <1>2, <1>3, <1>8, <1>10, NoSwing DEF Ledger!Next
<1>11. ASSUME Unstruck(b, battle'), battle'.m_start = b.m_start, battle'.m_end = b.m_end
       PROVE  Ledger!Next /\ battle'.m_start >= -1
  BY <1>2, <1>3, <1>7, <1>11, NoSwing DEF Ledger!Next
<1>12. Ledger!Next /\ battle'.m_start >= -1
  <2>1. CASE DoMelee(d, a)
    <3>1. battle' = Melee(b, d, a) /\ a.type = "MELEE" /\ a.source \in Name /\ a.target \in Name
      BY <1>6, <2>1 DEF DoMelee, b
    <3>2. CASE IsBlow(a)
      BY <1>2, <1>6, <1>10, <3>1, <3>2, BlowUnstruck, BlowOpens
    <3>3. CASE ~IsBlow(a)
      <4>1. \E i : Struck(b, battle', i)
        BY <1>2, <1>4, <1>6, <3>1, <3>3, MeleeStrikes
      <4> QED BY <1>2, <1>6, <1>9, <3>1, <3>3, <4>1, MeleeProlongs
    <3> QED BY <3>2, <3>3
  <2>2. CASE DoMiss(d, a)
    <3>1. battle' = Miss(b, d, a) /\ a.type \in Evasion /\ a.source \in Name /\ a.target \in Name
      BY <1>6, <2>2 DEF DoMiss, b
    <3>2. \E i : Struck(b, battle', i)
      BY <1>2, <1>4, <1>6, <3>1, MissStrikes
    <3> QED BY <1>2, <1>6, <1>9, <3>1, <3>2, MissProlongs
  <2>3. CASE DoCrit(d, a) \/ DoCrip(d, a) \/ DoHolyBlade(d, a)
    <3>1. PICK class : battle' = Announce(b, class, a)
      BY <2>3 DEF DoCrit, DoCrip, DoHolyBlade, b
    <3> QED BY <1>2, <1>11, <3>1, AnnounceUnstruck, AnnounceJoinsNot
  <2>4. CASE DoMagic(d, a)
    <3>1. /\ battle' = Magic(b, d, a) /\ a.type = "MAGIC" /\ a.source \in Name
          /\ a.target \in Name /\ a.damage > 0 /\ ~IsBlow(a)
      BY <1>6, <2>4 DEF DoMagic, IsBlow, b
    <3>2. \E i : Struck(b, battle', i)
      BY <1>2, <1>4, <1>5, <1>6, <3>1, MagicStrikes
    <3> QED BY <1>2, <1>6, <1>9, <3>1, <3>2, MagicProlongs
  <2>5. CASE DoHeal(d, a)
    BY <1>2, <1>6, <1>10, <2>5, HealUnstruck, HealProlongs DEF DoHeal, b
  <2>6. CASE DoDeath(d, a)
    BY <1>2, <1>6, <1>10, <2>6, DieUnstruck, DieProlongs DEF DoDeath, b
  <2>7. CASE DoNothing(d, a)
    <3>1. battle' = b
      BY <2>7 DEF DoNothing, b
    <3>2. Unstruck(b, battle')
      BY <1>2, <3>1, UnstruckSame, PcMoreSame
    <3> QED BY <1>11, <3>1, <3>2
  <2> QED BY <2>1, <2>2, <2>3, <2>4, <2>5, <2>6, <2>7 DEF TellMe
<1> QED BY <1>2, <1>7, <1>12

(* The inductive step, and the step of the ledger. *)
LEMMA NextLedger ==
  ASSUME DatesInOrder, IInv, CInv, LInv, IInv', [Next]_vars
  PROVE  LInv' /\ [Ledger!Next]_(Ledger!ledgerVars)
<1>1. Within(battle, date)'
  BY NextWithin DEF LInv
<1>2. /\ battle \in BattleState /\ date \in Int
      /\ battle.m_start # -1 => InProgress(battle)
      /\ battle.m_start = -1 => ~InProgress(battle)
  BY LedgerParts
<1>3. ASSUME UNCHANGED <<battle, date, stdout>>
      PROVE  LInv' /\ UNCHANGED Ledger!ledgerVars
  <2>1. UNCHANGED Ledger!ledgerVars
    BY <1>3 DEF Ledger!ledgerVars
  <2>2. LInv'
    BY <1>1, <1>3 DEF LInv, IsSeq
  <2> QED BY <2>1, <2>2
<1>4. CASE UNCHANGED vars \/ Undated
  BY <1>3, <1>4 DEF vars, Undated
<1>5. ASSUME NEW d \in Dates, Skip(d) \/ Stop(d)
      PROVE  LInv' /\ Ledger!Next
  <2>1. date' >= date /\ UNCHANGED <<battle, stdout>> /\ date' \in Int
    BY <1>2, <1>5, DatesAssumption DEF Skip, Stop, Reads, DatesInOrder
  <2>2. Ledger!Ignore
    BY <2>1 DEF Ledger!Ignore
  <2>3. date' >= -1
    BY <1>2, <2>1 DEF LInv
  <2> QED BY <1>1, <2>1, <2>2, <2>3 DEF LInv, IsSeq, Ledger!Next
<1>6. CASE Finish
  <2>1. running /\ GoodBattle(battle)
    BY <1>6, IInvGood DEF Finish
  <2>2. /\ IsSeq(stdout \o Report(battle))
        /\ Published(stdout \o Report(battle)) = Ledger!Publish
    <3>1. Ledger!Publish = IF battle.m_end - battle.m_start >= KeepAlive
            THEN Append(Published(stdout), Ledger!Public(Account(battle))) ELSE Published(stdout)
      BY DEF Ledger!Publish, Published
    <3> QED BY <2>1, <3>1, PublishedMore DEF LInv
  <2>3. stdout' = IF battle.m_start # -1 THEN stdout \o Report(battle) ELSE stdout
    BY <1>2, <1>6 DEF Finish
  <2>4. /\ battle'.m_fight = << >> /\ battle'.m_start = battle.m_start
        /\ battle'.m_end = battle.m_end /\ date' = date
    BY <1>2, <1>6 DEF Finish, Dtor, BattleState
  <2>5. Account(battle') = Ledger!Empty
    BY <2>4, AccountEmpty
  <2>6. Ledger!Close
    <3>1. Published(stdout') = IF Ledger!Opened THEN Ledger!Publish ELSE Published(stdout)
      BY <2>2, <2>3 DEF Ledger!Opened
    <3> QED BY <2>4, <2>5, <3>1 DEF Ledger!Close, Published
  <2>7. IsSeq(stdout')
    BY <2>2, <2>3 DEF LInv
  <2> QED BY <1>1, <2>4, <2>6, <2>7 DEF LInv, Ledger!Next
<1>7. ASSUME NEW d \in Dates, NEW a \in LogLines, TellMe(d, a)
      PROVE  LInv' /\ Ledger!Next
  BY <1>1, <1>7, LineEnters DEF LInv
<1> QED BY <1>3, <1>4, <1>5, <1>6, <1>7 DEF Next

LEMMA InitLedger ==
  ASSUME Init
  PROVE  LInv /\ Ledger!Init
<1>1. /\ battle.m_fight = << >> /\ battle.m_start = -1 /\ battle.m_end = -1
      /\ date = -1 /\ stdout = << >> /\ Idle(battle)
  BY DEF Init, NewBattle, Idle
<1>2. IsSeq(stdout)
  BY <1>1 DEF IsSeq
<1>3. Account(battle) = Ledger!Empty
  BY <1>1, AccountEmpty
<1>4. [k \in 1..Len(stdout) |-> AccountPrinted(stdout[k])] = << >>
  BY <1>1
<1> QED BY <1>1, <1>2, <1>3, <1>4 DEF LInv, Within, Ledger!Init

(* With dates that never step back the program keeps the ledger promised   *)
(* in BattleLedger, on every log: one step of tellme is one entry, or none, *)
(* and a report is the account of a battle as the ledger publishes it      *)
(* (tellme, Battle_report, and every handler of battle.c).                 *)
THEOREM ImplementsLedger ==
  ASSUME DatesInOrder
  PROVE  Spec => RefinesLedger
<1>1. Init => LInv /\ Ledger!Init
  BY InitLedger
<1>2. IInv /\ CInv /\ LInv /\ IInv' /\ [Next]_vars => LInv' /\ [Ledger!Next]_(Ledger!ledgerVars)
  BY NextLedger
<1> QED BY <1>1, <1>2, CountsInductive, PTL DEF Spec, RefinesLedger, Ledger!Spec
-----------------------------------------------------------------------------
(* The order of the report: who dealt more in a second stands first.  The  *)
(* quotients are compared through products, as the seconds of two fights   *)
(* may have either sign but are never zero.                                *)
AtLeast(f, g) == ~RatioLess(MeleeDamage_damage(f.m_melee), Fight_seconds(f),
                            MeleeDamage_damage(g.m_melee), Fight_seconds(g))

LEMMA ProductType ==
  ASSUME NEW u \in Int, NEW v \in Int
  PROVE  u * v \in Int /\ u * v = v * u
OBVIOUS

LEMMA ProductAssociates ==
  ASSUME NEW u \in Int, NEW v \in Int, NEW w \in Int
  PROVE  (u * v) * w = u * (v * w)
OBVIOUS

LEMMA ProductGrows ==
  ASSUME NEW u \in Int, NEW v \in Int, NEW c \in Int, c > 0, u >= v
  PROVE  u * c >= v * c
OBVIOUS

LEMMA ProductCancels ==
  ASSUME NEW u \in Int, NEW v \in Int, NEW c \in Int, c > 0, u * c >= v * c
  PROVE  u >= v
<1> SUFFICES ASSUME ~(u >= v) PROVE FALSE
  OBVIOUS
<1>1. v - 1 \in Int /\ v - 1 >= u
  OBVIOUS
<1>2. (v - 1) * c >= u * c
  BY <1>1, ProductGrows
<1>3. (v - 1) * c = v * c - c
  OBVIOUS
<1>4. u * c \in Int /\ v * c \in Int
  BY ProductType
<1> DEFINE p == u * c
           q == v * c
<1>5. p \in Int /\ q \in Int /\ q - c >= p /\ p >= q
  BY <1>2, <1>3, <1>4
<1> HIDE DEF p, q
<1> QED BY ONLY <1>5, c > 0, c \in Int

LEMMA SquarePositive ==
  ASSUME NEW x \in Int, x # 0
  PROVE  x * x \in Int /\ x * x > 0
<1>1. CASE x > 0
  OBVIOUS
<1>2. CASE x < 0
  <2>1. (-x) * (-x) = x * x /\ -x \in Int /\ -x > 0
    BY <1>2
  <2>2. (-x) * (-x) > 0
    BY <2>1
  <2> QED BY <2>1, <2>2
<1> QED BY <1>1, <1>2

LEMMA RatioIs ==
  ASSUME NEW x \in Int, NEW xs \in Int, NEW y \in Int, NEW ys \in Int
  PROVE  RatioLess(x, xs, y, ys) <=> (x * xs) * (ys * ys) < (y * ys) * (xs * xs)
<1>1. x * xs \in Int /\ y * ys \in Int
  BY ProductType
<1>2. ((x * xs) * ys) * ys = (x * xs) * (ys * ys)
  BY <1>1, ProductAssociates
<1>3. ((y * ys) * xs) * xs = (y * ys) * (xs * xs)
  BY <1>1, ProductAssociates
<1> QED BY <1>2, <1>3 DEF RatioLess

LEMMA RatioTransitive ==
  ASSUME NEW x \in Int, NEW xs \in Int, xs # 0, NEW y \in Int, NEW ys \in Int, ys # 0,
         NEW z \in Int, NEW zs \in Int, zs # 0,
         ~RatioLess(x, xs, y, ys), ~RatioLess(y, ys, z, zs)
  PROVE  ~RatioLess(x, xs, z, zs)
<1> DEFINE A == x * xs
           B == y * ys
           C == z * zs
           a == xs * xs
           b == ys * ys
           c == zs * zs
<1>1. A \in Int /\ B \in Int /\ C \in Int
  BY ProductType
<1>2. a \in Int /\ b \in Int /\ c \in Int /\ a > 0 /\ b > 0 /\ c > 0
  BY SquarePositive
<1>3. ~(A * b < B * a) /\ ~(B * c < C * b)
  BY RatioIs
<1>4. RatioLess(x, xs, z, zs) <=> A * c < C * a
  BY RatioIs
<1> HIDE DEF A, B, C, a, b, c
<1>5. A * b \in Int /\ B * a \in Int /\ B * c \in Int /\ C * b \in Int /\ A * c \in Int /\ C * a \in Int
  BY <1>1, <1>2, ProductType
<1>6. A * b >= B * a /\ B * c >= C * b
  <2> DEFINE p == A * b
             q == B * a
             r == B * c
             s == C * b
  <2>1. p \in Int /\ q \in Int /\ r \in Int /\ s \in Int /\ ~(p < q) /\ ~(r < s)
    BY <1>3, <1>5
  <2> HIDE DEF p, q, r, s
  <2>2. p >= q /\ r >= s
    BY ONLY <2>1
  <2> QED BY <2>2 DEF p, q, r, s
<1>7. (A * b) * c >= (B * a) * c
  BY <1>2, <1>5, <1>6, ProductGrows
<1>8. (B * c) * a >= (C * b) * a
  BY <1>2, <1>5, <1>6, ProductGrows
<1>9. ASSUME NEW u \in Int, NEW v \in Int, NEW w \in Int
      PROVE  (u * v) * w = (u * w) * v
  <2>1. (u * v) * w = u * (v * w) /\ (u * w) * v = u * (w * v)
    BY ProductAssociates
  <2>2. v * w = w * v
    BY ProductType
  <2> QED BY <2>1, <2>2
<1>10. (A * b) * c = (A * c) * b /\ (B * a) * c = (B * c) * a /\ (C * b) * a = (C * a) * b
  BY <1>1, <1>2, <1>9
<1>11. (A * c) * b >= (C * a) * b
  <2> DEFINE p == (A * c) * b
             q == (B * c) * a
             r == (C * a) * b
  <2>1. p \in Int /\ q \in Int /\ r \in Int
    BY <1>2, <1>5, ProductType
  <2>2. p >= q /\ q >= r
    BY <1>7, <1>8, <1>10
  <2> HIDE DEF p, q, r
  <2>3. p >= r
    BY ONLY <2>1, <2>2
  <2> QED BY <2>3 DEF p, r
<1>12. A * c >= C * a
  BY <1>2, <1>5, <1>11, ProductCancels
<1> DEFINE p == A * c
           q == C * a
<1>13. p \in Int /\ q \in Int /\ p >= q
  BY <1>5, <1>12
<1> HIDE DEF p, q
<1>14. ~(p < q)
  BY ONLY <1>13
<1> QED BY <1>4, <1>14 DEF p, q

LEMMA RatioTotal ==
  ASSUME NEW x \in Int, NEW xs \in Int, NEW y \in Int, NEW ys \in Int
  PROVE  ~RatioLess(x, xs, y, ys) \/ ~RatioLess(y, ys, x, xs)
<1> DEFINE p == (x * xs) * (ys * ys)
           q == (y * ys) * (xs * xs)
<1>1. p \in Int /\ q \in Int
  BY ProductType
<1>2. (RatioLess(x, xs, y, ys) <=> p < q) /\ (RatioLess(y, ys, x, xs) <=> q < p)
  BY RatioIs
<1> HIDE DEF p, q
<1> QED BY <1>1, <1>2

LEMMA DamageType ==
  ASSUME NEW f \in Fight
  PROVE  MeleeDamage_damage(f.m_melee) \in Int /\ Fight_seconds(f) \in Int /\ Fight_seconds(f) # 0
<1>1. \A c \in Class : f.m_melee.damage[c] \in Nat
  BY DEF Fight, MeleeDamage
<1>2. MeleeDamage_damage(f.m_melee) \in Int
  BY <1>1, ClassNames DEF MeleeDamage_damage, OverClasses
<1>3. f.start \in Int /\ f.end \in Int
  BY DEF Fight
<1> QED BY <1>2, <1>3 DEF Fight_seconds

LEMMA AtLeastOrders ==
  ASSUME NEW f \in Fight, NEW g \in Fight, NEW h \in Fight
  PROVE  /\ AtLeast(f, g) /\ AtLeast(g, h) => AtLeast(f, h)
         /\ AtLeast(f, g) \/ AtLeast(g, f)
         /\ AtLeast(f, f)
<1> DEFINE x == MeleeDamage_damage(f.m_melee)
           xs == Fight_seconds(f)
           y == MeleeDamage_damage(g.m_melee)
           ys == Fight_seconds(g)
           z == MeleeDamage_damage(h.m_melee)
           zs == Fight_seconds(h)
<1>1. /\ x \in Int /\ xs \in Int /\ xs # 0 /\ y \in Int /\ ys \in Int /\ ys # 0
      /\ z \in Int /\ zs \in Int /\ zs # 0
  BY DamageType
<1>2. /\ AtLeast(f, g) <=> ~RatioLess(x, xs, y, ys)
      /\ AtLeast(g, f) <=> ~RatioLess(y, ys, x, xs)
      /\ AtLeast(g, h) <=> ~RatioLess(y, ys, z, zs)
      /\ AtLeast(f, h) <=> ~RatioLess(x, xs, z, zs)
      /\ AtLeast(f, f) <=> ~RatioLess(x, xs, x, xs)
  BY DEF AtLeast
<1> HIDE DEF x, xs, y, ys, z, zs
<1>3. ~RatioLess(x, xs, y, ys) /\ ~RatioLess(y, ys, z, zs) => ~RatioLess(x, xs, z, zs)
  BY <1>1, RatioTransitive
<1>4. ~RatioLess(x, xs, y, ys) \/ ~RatioLess(y, ys, x, xs)
  BY <1>1, RatioTotal
<1>5. ~RatioLess(x, xs, x, xs)
  BY <1>1, RatioTotal
<1> QED BY <1>2, <1>3, <1>4, <1>5
-----------------------------------------------------------------------------
(* The passes of Battle_sort, as the states they go through. *)
GoesThrough(fights, steps, N, h) ==
  /\ h[0] = fights /\ h[N] = FoldLeft(SwapIfLess, fights, steps)
  /\ \A k \in 1..N : h[k] = SwapIfLess(h[k - 1], steps[k])

LEMMA PassesGoThrough ==
  ASSUME NEW fights, NEW steps, NEW N \in Nat, DOMAIN steps = 1..N
  PROVE  \E h : GoesThrough(fights, steps, N, h)
<1> DEFINE g == CHOOSE f : Passes(fights, steps, f)
           h == [k \in 0..N |-> g[1..k]]
<1>1. Passes(fights, steps, g)
  BY PassesSolved
<1>2. FoldLeft(SwapIfLess, fights, steps) = g[DOMAIN steps]
  BY DEF FoldLeft, MapThenFoldSet, Passes
<1> HIDE DEF g
<1>3. \A s \in SUBSET (1..N) :
        g[s] = IF s = {} THEN fights ELSE SwapIfLess(g[s \ {Max(s)}], steps[Max(s)])
  BY <1>1 DEF Passes
<1>4. h[0] = fights
  <2>1. 1..0 = {} /\ 1..0 \in SUBSET (1..N) /\ 0 \in 0..N
    OBVIOUS
  <2> QED BY <1>3, <2>1
<1>5. h[N] = FoldLeft(SwapIfLess, fights, steps)
  BY <1>2
<1>6. ASSUME NEW k \in 1..N
      PROVE  h[k] = SwapIfLess(h[k - 1], steps[k])
  <2>1. 1..k \in SUBSET (1..N) /\ 1..k # {} /\ k \in 0..N /\ k - 1 \in 0..N
    <3>1. 1..k \in SUBSET (1..N)
      OBVIOUS
    <3>2. k \in 1..k
      OBVIOUS
    <3>3. k \in 0..N /\ k - 1 \in 0..N
      OBVIOUS
    <3> QED BY <3>1, <3>2, <3>3
  <2>2. Max(1..k) = k
    <3>1. Max(1..k) \in 1..k /\ \A y \in 1..k : y <= Max(1..k)
      BY <2>1, GreatestIndex
    <3>2. k \in 1..k
      OBVIOUS
    <3> DEFINE m == Max(1..k)
    <3>3. m \in 1..k /\ k <= m
      BY <3>1, <3>2
    <3> HIDE DEF m
    <3>4. m = k
      BY <3>3
    <3> QED BY <3>4 DEF m
  <2>3. (1..k) \ {k} = 1..(k - 1)
    OBVIOUS
  <2>4. h[k] = g[1..k] /\ h[k - 1] = g[1..(k - 1)]
    BY <2>1
  <2> HIDE DEF h
  <2> QED BY <1>3, <2>1, <2>2, <2>3, <2>4
<1> HIDE DEF h
<1>7. GoesThrough(fights, steps, N, h)
  BY <1>4, <1>5, <1>6 DEF GoesThrough
<1> HIDE DEF h
<1> QED BY <1>7
-----------------------------------------------------------------------------
(* Where the parts of a flattened sequence lie in it: part i ends at at[i]. *)
Parted(seqs, flat, at) ==
  /\ at \in [0..Len(seqs) -> Nat] /\ at[0] = 0 /\ at[Len(seqs)] = Len(flat)
  /\ \A i \in 1..Len(seqs) :
       /\ at[i] = at[i - 1] + Len(seqs[i])
       /\ \A j \in 1..Len(seqs[i]) : flat[at[i - 1] + j] = seqs[i][j]

LEMMA FlattenParts ==
  ASSUME NEW S, NEW seqs \in Seq(Seq(S))
  PROVE  \E at : Parted(seqs, FlattenSeq(seqs), at)
<1> DEFINE N == Len(seqs)
           g == CHOOSE f : Flattens(seqs, f)
           at == [i \in 0..N |-> IF i = 0 THEN 0 ELSE Len(g[i])]
           Holds(n) == \A i \in 1..n :
                         /\ at[i - 1] \in Nat
                         /\ at[i] = at[i - 1] + Len(seqs[i]) /\ at[i] <= at[n]
                         /\ \A j \in 1..Len(seqs[i]) : g[n][at[i - 1] + j] = seqs[i][j]
           P == {n \in 0..N : n # 0 => g[n] \in Seq(S) /\ Holds(n)}
<1>1. N \in Nat /\ \A i \in 1..N : seqs[i] \in Seq(S) /\ Len(seqs[i]) \in Nat
  OBVIOUS
<1>2. Flattens(seqs, g)
  BY <1>1, FlattenSolved
<1>3. FlattenSeq(seqs) = IF N = 0 THEN seqs ELSE g[N]
  BY DEF FlattenSeq, Flattens
<1>4. \A i \in 1..N : g[i] = IF i = 1 THEN seqs[i] ELSE g[i-1] \o seqs[i]
  <2> HIDE DEF g
  <2> QED BY <1>2 DEF Flattens
<1> HIDE DEF g
<1>5. at[0] = 0 /\ \A i \in 1..N : at[i] = Len(g[i])
  BY <1>1
<1> HIDE DEF at
<1>6. 0 \in P
  BY <1>1
<1>7. ASSUME NEW n \in 1..N, n - 1 \in P
      PROVE  n \in P
  <2> DEFINE s == seqs[n]
             u == g[n]
  <2>1. s \in Seq(S) /\ Len(s) \in Nat /\ at[n] = Len(u)
    BY <1>1, <1>5
  <2>2. CASE n = 1
    <3>1. u = s /\ at[n - 1] = 0
      BY <1>4, <1>5, <2>2
    <3>2. \A i : i \in 1..n <=> i = n
      BY <2>2
    <3> HIDE DEF s, u, Holds
    <3>3. /\ at[n - 1] \in Nat /\ at[n] = at[n - 1] + Len(s) /\ at[n] <= at[n]
          /\ \A j \in 1..Len(s) : u[at[n - 1] + j] = s[j]
      BY <2>1, <3>1
    <3>4. Holds(n)
      BY <3>2, <3>3 DEF Holds, s, u
    <3>5. u \in Seq(S)
      BY <2>1, <3>1
    <3> HIDE DEF Holds
    <3> QED BY <3>4, <3>5 DEF u
  <2>3. CASE n # 1
    <3> DEFINE v == g[n - 1]
               m == n - 1
    <3>1. u = v \o s
      BY <1>4, <2>3
    <3>2. m # 0 /\ m \in 1..N
      BY <2>3
    <3>3. v \in Seq(S) /\ Holds(m)
      <4> HIDE DEF Holds
      <4> QED BY <1>7, <3>2
    <3>4. at[m] = Len(v)
      BY <1>5, <3>2
    <3>5. \A i \in 1..m : /\ at[i - 1] \in Nat /\ at[i] = at[i - 1] + Len(seqs[i]) /\ at[i] <= at[m]
                          /\ \A j \in 1..Len(seqs[i]) : v[at[i - 1] + j] = seqs[i][j]
      BY <3>3
    <3>6. \A i \in 1..n : i \in 1..m \/ i = n
      OBVIOUS
    <3> HIDE DEF Holds, u, v, s
    <3>7. /\ u \in Seq(S) /\ Len(u) = Len(v) + Len(s) /\ Len(v) \in Nat
          /\ \A k \in 1..Len(v) : u[k] = v[k]
          /\ \A k \in 1..Len(s) : u[Len(v) + k] = s[k]
      <4>1. /\ u \in Seq(S) /\ Len(u) = Len(v) + Len(s) /\ Len(v) \in Nat
            /\ \A k \in 1..(Len(v) + Len(s)) :
                 u[k] = IF k <= Len(v) THEN v[k] ELSE s[k - Len(v)]
        BY <2>1, <3>1, <3>3, ConcatProperties
      <4>2. \A k \in 1..Len(v) : k \in 1..(Len(v) + Len(s)) /\ k <= Len(v)
        BY <2>1, <4>1
      <4>3. \A k \in 1..Len(s) : /\ Len(v) + k \in 1..(Len(v) + Len(s))
                                 /\ ~(Len(v) + k <= Len(v)) /\ (Len(v) + k) - Len(v) = k
        BY <2>1, <4>1
      <4> QED BY <4>1, <4>2, <4>3
    <3>8. ASSUME NEW i \in 1..m
          PROVE  /\ at[i - 1] \in Nat /\ at[i] = at[i - 1] + Len(seqs[i]) /\ at[i] <= at[n]
                 /\ \A j \in 1..Len(seqs[i]) : u[at[i - 1] + j] = seqs[i][j]
      <4>1. /\ at[i - 1] \in Nat /\ at[i] = at[i - 1] + Len(seqs[i]) /\ at[i] <= at[m]
            /\ \A j \in 1..Len(seqs[i]) : v[at[i - 1] + j] = seqs[i][j]
        BY <3>5
      <4>2. Len(seqs[i]) \in Nat
        <5>1. i \in 1..N
          BY ONLY <1>1, <3>2, i \in 1..m
        <5> QED BY <1>1, <5>1
      <4>3. at[i] \in Nat /\ at[m] \in Nat /\ at[m] = Len(v)
        <5> DEFINE o == at[i - 1]
                   e == at[i]
                   r == Len(seqs[i])
        <5>1. o \in Nat /\ r \in Nat /\ e = o + r
          BY <4>1, <4>2
        <5> HIDE DEF o, e, r
        <5>2. e \in Nat
          BY ONLY <5>1
        <5> QED BY <3>4, <3>7, <5>2 DEF e
      <4>4. at[i] <= at[n]
        BY <2>1, <3>7, <4>1, <4>3
      <4>5. ASSUME NEW j \in 1..Len(seqs[i])
            PROVE  u[at[i - 1] + j] = seqs[i][j]
        <5> DEFINE k == at[i - 1] + j
        <5>1. k \in 1..Len(v)
          <6> DEFINE o == at[i - 1]
                     e == at[i]
                     r == Len(seqs[i])
                     w == at[m]
          <6>1. o \in Nat /\ r \in Nat /\ e = o + r /\ e <= w /\ w \in Nat /\ j \in 1..r
            BY <4>1, <4>2, <4>3
          <6> HIDE DEF o, e, r, w
          <6>2. o + j \in 1..w
            BY ONLY <6>1
          <6> QED BY <4>3, <6>2 DEF o, w
        <5>2. v[k] = seqs[i][j]
          BY <4>1
        <5> HIDE DEF k
        <5>3. u[k] = v[k]
          BY <3>7, <5>1
        <5> QED BY <5>2, <5>3 DEF k
      <4> QED BY <4>1, <4>4, <4>5
    <3>9. /\ at[n - 1] \in Nat /\ at[n] = at[n - 1] + Len(s) /\ at[n] <= at[n]
          /\ \A j \in 1..Len(s) : u[at[n - 1] + j] = s[j]
      BY <2>1, <3>4, <3>7
    <3>10. Holds(n)
      BY <3>6, <3>8, <3>9 DEF Holds, s, u
    <3> QED BY <3>7, <3>10 DEF u
  <2> QED BY <2>2, <2>3
<1>8. N \in P
  <2> HIDE DEF P, N
  <2> QED BY <1>1, <1>6, <1>7, UpTo
<1>9. CASE N = 0
  <2>1. FlattenSeq(seqs) = << >> /\ Len(<< >>) = 0
    BY <1>3, <1>9
  <2>2. at \in [0..N -> Nat]
    <3>1. at = [i \in 0..N |-> 0]
      BY <1>9 DEF at
    <3> QED BY <3>1
  <2> QED BY <1>5, <1>9, <2>1, <2>2 DEF Parted
<1>10. CASE N # 0
  <2>1. g[N] \in Seq(S) /\ Holds(N)
    <3> HIDE DEF Holds
    <3> QED BY <1>8, <1>10
  <2>2. FlattenSeq(seqs) = g[N] /\ at[N] = Len(g[N]) /\ N \in 1..N
    BY <1>1, <1>3, <1>5, <1>10
  <2>3. \A i \in 1..N : /\ at[i - 1] \in Nat /\ at[i] = at[i - 1] + Len(seqs[i])
                        /\ \A j \in 1..Len(seqs[i]) : g[N][at[i - 1] + j] = seqs[i][j]
    BY <2>1
  <2>4. \A i \in 0..N : at[i] \in Nat
    <3>1. \A i \in 0..N : i = 0 \/ i \in 1..N
      OBVIOUS
    <3>2. ASSUME NEW i \in 1..N
          PROVE  at[i] \in Nat
      <4> DEFINE o == at[i - 1]
                 r == Len(seqs[i])
      <4>1. o \in Nat /\ r \in Nat /\ at[i] = o + r
        BY <1>1, <2>3
      <4> HIDE DEF o, r
      <4> QED BY <4>1
    <3> QED BY <1>5, <3>1, <3>2
  <2>5. at \in [0..N -> Nat]
    <3>1. at = [i \in 0..N |-> at[i]]
      BY DEF at
    <3> QED BY <2>4, <3>1
  <2> DEFINE flat == FlattenSeq(seqs)
  <2>6. flat = g[N] /\ at[N] = Len(flat)
    BY <2>2
  <2> HIDE DEF Holds, flat
  <2>7. \A i \in 1..N : /\ at[i] = at[i - 1] + Len(seqs[i])
                        /\ \A j \in 1..Len(seqs[i]) : flat[at[i - 1] + j] = seqs[i][j]
    BY <2>3, <2>6
  <2>8. Parted(seqs, flat, at)
    BY <1>5, <2>5, <2>6, <2>7 DEF Parted
  <2> QED BY <2>8 DEF flat
<1> QED BY <1>9, <1>10

LiesIn(seqs, flat, at, p) ==
  \E i \in 1..Len(seqs) : \E j \in 1..Len(seqs[i]) :
     p = at[i - 1] + j /\ flat[p] = seqs[i][j]

LEMMA PartOf ==
  ASSUME NEW seqs, Len(seqs) \in Nat, \A i \in 1..Len(seqs) : Len(seqs[i]) \in Nat,
         NEW flat, NEW at, Parted(seqs, flat, at), NEW p \in 1..Len(flat)
  PROVE  LiesIn(seqs, flat, at, p)
<1> DEFINE N == Len(seqs)
           T == {i \in 1..N : p <= at[i]}
<1>1. /\ at \in [0..N -> Nat] /\ at[0] = 0 /\ at[N] = Len(flat) /\ N \in Nat
      /\ \A i \in 1..N : at[i] = at[i - 1] + Len(seqs[i])
      /\ \A i \in 1..N : \A j \in 1..Len(seqs[i]) : flat[at[i - 1] + j] = seqs[i][j]
  BY DEF Parted
<1>2. at[N] \in Nat /\ p <= at[N] /\ p >= 1 /\ p \in Nat
  BY <1>1
<1>3. N # 0
  BY <1>1, <1>2
<1>4. T \in SUBSET (1..N) /\ T # {}
  <2>1. N \in 1..N /\ p <= at[N]
    BY <1>1, <1>2, <1>3
  <2> QED BY <2>1
<1>5. PICK i \in T : \A y \in T : i <= y
  <2> HIDE DEF T, N
  <2> QED BY <1>1, <1>4, LeastIndex
<1>6. i \in 1..N /\ p <= at[i]
  OBVIOUS
<1>7. at[i - 1] < p /\ at[i - 1] \in Nat
  <2>0. i - 1 \in 0..N
    BY ONLY <1>6, <1>1
  <2>1. i - 1 \in 0..N /\ at[i - 1] \in Nat
    BY ONLY <1>1, <2>0
  <2>2. CASE i = 1
    BY <1>1, <1>2, <2>2
  <2>3. CASE i # 1
    <3>1. i - 1 \in 1..N /\ ~(i <= i - 1)
      BY <1>6, <2>3
    <3>2. i - 1 \notin T
      BY <1>5, <3>1
    <3> QED BY <1>2, <2>1, <3>1, <3>2
  <2> QED BY <2>2, <2>3
<1> DEFINE j == p - at[i - 1]
<1>8. p = at[i - 1] + j /\ j \in 1..Len(seqs[i])
  BY <1>1, <1>2, <1>6, <1>7
<1> HIDE DEF j
<1>9. flat[p] = seqs[i][j]
  BY <1>1, <1>6, <1>8
<1> QED BY <1>6, <1>8, <1>9 DEF LiesIn

(* Where the parts end never goes back. *)
LEMMA PartsGrow ==
  ASSUME NEW N \in Nat, NEW at \in [0..N -> Nat], NEW k \in 0..N, NEW m \in 0..N, k <= m,
         \A n \in 1..N : at[n - 1] <= at[n]
  PROVE  at[k] <= at[m]
<1> DEFINE P == {n \in 0..m : n >= k => at[k] <= at[n]}
<1>1. \A n \in 0..N : at[n] \in Nat
  OBVIOUS
<1>2. 0 \in P
  <2>1. 0 \in 0..m /\ (0 >= k => k = 0)
    OBVIOUS
  <2>2. k = 0 => at[k] <= at[0]
    BY <1>1
  <2> QED BY <2>1, <2>2
<1>3. ASSUME NEW n \in 1..m, n - 1 \in P
      PROVE  n \in P
  <2>1. n \in 0..N /\ n - 1 \in 0..N /\ n \in 1..N /\ n \in 0..m
    OBVIOUS
  <2>2. n >= k => n = k \/ n - 1 >= k
    OBVIOUS
  <2> DEFINE x == at[n]
             y == at[n - 1]
             z == at[k]
  <2>3. x \in Nat /\ y \in Nat /\ z \in Nat /\ y <= x
    BY <1>1, <2>1
  <2>4. n - 1 >= k => z <= y
    BY <1>3
  <2>5. n = k => z = x
    OBVIOUS
  <2> HIDE DEF x, y, z
  <2>6. n >= k => z <= x
    BY <2>2, <2>3, <2>4, <2>5
  <2> QED BY <2>1, <2>6 DEF x, z
<1>4. m \in P
  <2> HIDE DEF P
  <2> QED BY <1>2, <1>3, UpTo
<1> QED BY <1>4

(* What comes first in a flattened sequence is in an earlier part, or      *)
(* earlier in the same one.                                                *)
Follows(seqs, x, y) ==
  \E i \in 1..Len(seqs), k \in 1..Len(seqs) :
    \E j \in 1..Len(seqs[i]), l \in 1..Len(seqs[k]) :
      x = seqs[i][j] /\ y = seqs[k][l] /\ (i < k \/ (i = k /\ j < l))

LEMMA FlattenOrder ==
  ASSUME NEW S, NEW seqs \in Seq(Seq(S)), NEW flat, flat = FlattenSeq(seqs),
         NEW p \in 1..Len(flat), NEW q \in 1..Len(flat), p < q
  PROVE  Follows(seqs, flat[p], flat[q])
<1>1. Len(seqs) \in Nat /\ \A i \in 1..Len(seqs) : Len(seqs[i]) \in Nat
  OBVIOUS
<1>2. PICK at : Parted(seqs, flat, at)
  BY FlattenParts
<1>3. LiesIn(seqs, flat, at, p) /\ LiesIn(seqs, flat, at, q)
  BY <1>1, <1>2, PartOf
<1>4. PICK i \in 1..Len(seqs) : \E j \in 1..Len(seqs[i]) :
             p = at[i - 1] + j /\ flat[p] = seqs[i][j]
  BY <1>3 DEF LiesIn
<1>5. PICK j \in 1..Len(seqs[i]) : p = at[i - 1] + j /\ flat[p] = seqs[i][j]
  BY <1>4
<1>7. PICK k \in 1..Len(seqs) : \E l \in 1..Len(seqs[k]) :
             q = at[k - 1] + l /\ flat[q] = seqs[k][l]
  BY <1>3 DEF LiesIn
<1>8. PICK l \in 1..Len(seqs[k]) : q = at[k - 1] + l /\ flat[q] = seqs[k][l]
  BY <1>7
<1> DEFINE N == Len(seqs)
<1>9. N \in Nat /\ i \in 1..N /\ k \in 1..N
  BY <1>1
<1>10. /\ at \in [0..N -> Nat]
       /\ \A n \in 1..N : at[n] = at[n - 1] + Len(seqs[n]) /\ Len(seqs[n]) \in Nat
  BY <1>1, <1>2 DEF Parted
<1> DEFINE I == at[i - 1]
           K == at[k - 1]
           E == at[k]
           L == Len(seqs[k])
<1>11. p = I + j /\ q = K + l /\ j \in Nat /\ l \in 1..L /\ j >= 1 /\ L \in Nat
  BY <1>1, <1>5, <1>8
<1> HIDE DEF N
<1>12. i - 1 \in 0..N /\ k - 1 \in 0..N /\ k \in 0..N
  BY <1>9
<1>13. \A n \in 0..N : at[n] \in Nat
  BY <1>10
<1>14. I \in Nat /\ K \in Nat /\ E \in Nat /\ E = K + L
  BY <1>9, <1>10, <1>12, <1>13
<1>15. \A n \in 1..N : at[n - 1] <= at[n]
  <2> SUFFICES ASSUME NEW n \in 1..N PROVE at[n - 1] <= at[n]
    OBVIOUS
  <2>1. n \in 0..N /\ n - 1 \in 0..N
    BY <1>9
  <2> DEFINE x == at[n]
             y == at[n - 1]
             z == Len(seqs[n])
  <2>2. x \in Nat /\ y \in Nat /\ x = y + z /\ z \in Nat
    BY <1>10, <1>13, <2>1
  <2> HIDE DEF x, y, z
  <2>3. y <= x
    BY ONLY <2>2
  <2> QED BY <2>3 DEF x, y
<1>16. k < i => E <= I
  <2>1. k < i => k <= i - 1
    BY <1>9
  <2> DEFINE m == i - 1
  <2>2. m \in 0..N /\ (k < i => k <= m)
    BY <1>12, <2>1
  <2> HIDE DEF m
  <2>3. k < i => at[k] <= at[m]
    BY <1>9, <1>10, <1>12, <1>15, <2>2, PartsGrow
  <2> QED BY <2>3 DEF m
<1>17. i = k => I = K
  OBVIOUS
<1> HIDE DEF I, K, E, L
<1>18. i \in Int /\ k \in Int
  BY <1>9
<1>19. i < k \/ (i = k /\ j < l)
  BY ONLY <1>11, <1>14, <1>16, <1>17, <1>18, p < q
<1> QED BY <1>5, <1>8, <1>19 DEF Follows
-----------------------------------------------------------------------------
(* One comparison of neighbours leaves the lesser of the two behind.       *)
LEMMA SwapEntries ==
  ASSUME NEW n \in Nat, NEW f \in Seq(Fight), Len(f) = n,
         NEW j \in Nat \ {0}, j + 1 <= n, NEW g, g = SwapIfLess(f, j)
  PROVE  /\ g \in Seq(Fight) /\ Len(g) = n
         /\ \A i \in 1..n : i # j /\ i # j + 1 => g[i] = f[i]
         /\ \/ g[j] = f[j] /\ g[j + 1] = f[j + 1]
            \/ g[j] = f[j + 1] /\ g[j + 1] = f[j]
         /\ AtLeast(g[j], g[j + 1])
<1> DEFINE l == f[j]
           r == f[j + 1]
           e == [f EXCEPT ![j] = r, ![j + 1] = l]
<1>1. j \in 1..n /\ j + 1 \in 1..n /\ j # j + 1
  OBVIOUS
<1>2. l \in Fight /\ r \in Fight
  BY <1>1
<1>3. /\ e \in Seq(Fight) /\ Len(e) = n /\ e[j] = r /\ e[j + 1] = l
      /\ \A i \in 1..n : i # j /\ i # j + 1 => e[i] = f[i]
  <2>1. f \in [1..n -> Fight]
    BY <1>1
  <2>2. e \in [1..n -> Fight]
    BY <1>2, <2>1
  <2>3. e \in Seq(Fight) /\ Len(e) = n
    BY <2>2
  <2> QED BY <1>1, <2>1, <2>2, <2>3
<1>4. g = IF ~AtLeast(l, r) THEN e ELSE f
  BY DEF SwapIfLess, AtLeast
<1>5. ~AtLeast(l, r) => AtLeast(r, l)
  BY <1>2, AtLeastOrders
<1>6. l = f[j] /\ r = f[j + 1]
  OBVIOUS
<1> HIDE DEF l, r, e
<1>7. CASE AtLeast(l, r)
  BY <1>4, <1>6, <1>7
<1>8. CASE ~AtLeast(l, r)
  BY <1>3, <1>4, <1>5, <1>6, <1>8
<1> QED BY <1>7, <1>8

(* After k steps of a pass over f the least of the first k + 1 fights is   *)
(* the last of them; those behind have not been touched.                   *)
Sunk(f, g, k) ==
  /\ g \in Seq(Fight) /\ Len(g) = Len(f)
  /\ \A i \in 1..(k + 1) : AtLeast(g[i], g[k + 1]) /\ \E q \in 1..(k + 1) : g[i] = f[q]
  /\ \A i \in 1..Len(f) : i > k + 1 => g[i] = f[i]

LEMMA PassBegins ==
  ASSUME NEW f \in Seq(Fight), Len(f) >= 1
  PROVE  Sunk(f, f, 0)
<1>1. 1 \in 1..Len(f) /\ f[1] \in Fight /\ 0 + 1 = 1
  OBVIOUS
<1>2. AtLeast(f[1], f[1])
  BY <1>1, AtLeastOrders
<1>3. \A i \in 1..(0 + 1) : i = 1
  OBVIOUS
<1>4. \A i \in 1..(0 + 1) : AtLeast(f[i], f[0 + 1]) /\ \E q \in 1..(0 + 1) : f[i] = f[q]
  BY <1>1, <1>2, <1>3
<1> QED BY <1>4 DEF Sunk

LEMMA PassStep ==
  ASSUME NEW n \in Nat, NEW f \in Seq(Fight), Len(f) = n,
         NEW k \in Nat \ {0}, k + 1 <= n, NEW g, Sunk(f, g, k - 1)
  PROVE  Sunk(f, SwapIfLess(g, k), k)
<1> DEFINE e == SwapIfLess(g, k)
           k1 == k + 1
<1>1. /\ k1 \in 1..n /\ k \in 1..n /\ (k - 1) + 1 = k /\ k1 > k /\ k1 \in Nat /\ k \in 1..k1 /\ k1 \in 1..k1
      /\ \A i \in 1..k1 : i \in 1..k \/ i = k1
      /\ \A i \in 1..k : i \in 1..n /\ i \in 1..k1 /\ i # k1
      /\ \A i \in 1..n : i > k1 => i > k /\ i # k /\ i # k1
  OBVIOUS
<1>2. /\ g \in Seq(Fight) /\ Len(g) = n
      /\ \A i \in 1..k : AtLeast(g[i], g[k]) /\ \E q \in 1..k : g[i] = f[q]
      /\ \A i \in 1..n : i > k => g[i] = f[i]
  BY <1>1 DEF Sunk
<1>3. /\ e \in Seq(Fight) /\ Len(e) = n
      /\ \A i \in 1..n : i # k /\ i # k1 => e[i] = g[i]
      /\ \/ e[k] = g[k] /\ e[k1] = g[k1]
         \/ e[k] = g[k1] /\ e[k1] = g[k]
      /\ AtLeast(e[k], e[k1])
  BY <1>2, SwapEntries
<1> HIDE DEF e, k1
<1>4. \A i \in 1..n : e[i] \in Fight /\ g[i] \in Fight
  BY <1>2, <1>3
<1>5. AtLeast(e[k1], e[k1])
  BY <1>1, <1>4, AtLeastOrders
<1>6. ASSUME NEW i \in 1..k1
      PROVE  AtLeast(e[i], e[k1])
  <2>1. CASE i = k \/ i = k1
    BY <1>3, <1>5, <2>1
  <2>2. CASE i # k /\ i # k1
    <3>1. i \in 1..k /\ i \in 1..n
      BY <1>1, <2>2
    <3>2. e[i] = g[i] /\ AtLeast(e[i], g[k])
      BY <1>2, <1>3, <2>2, <3>1
    <3>3. CASE e[k1] = g[k]
      BY <3>2, <3>3
    <3>4. CASE e[k] = g[k]
      <4> DEFINE x == e[i]
                 y == e[k]
                 z == e[k1]
      <4>1. x \in Fight /\ y \in Fight /\ z \in Fight /\ AtLeast(x, y) /\ AtLeast(y, z)
        BY <1>1, <1>3, <1>4, <3>1, <3>2, <3>4
      <4> HIDE DEF x, y, z
      <4>2. AtLeast(x, z)
        BY <4>1, AtLeastOrders
      <4> QED BY <4>2 DEF x, z
    <3> QED BY <1>3, <3>3, <3>4
  <2> QED BY <2>1, <2>2
<1>7. \A i \in 1..k1 : \E q \in 1..k1 : g[i] = f[q]
  <2> SUFFICES ASSUME NEW i \in 1..k1 PROVE \E q \in 1..k1 : g[i] = f[q]
    OBVIOUS
  <2>1. CASE i \in 1..k
    BY <1>1, <1>2, <2>1
  <2>2. CASE i = k1
    BY <1>1, <1>2, <2>2
  <2> QED BY <1>1, <2>1, <2>2
<1>8. ASSUME NEW i \in 1..k1
      PROVE  \E q \in 1..k1 : e[i] = f[q]
  <2>1. \E r \in 1..k1 : e[i] = g[r]
    <3>1. CASE i # k /\ i # k1
      <4>1. i \in 1..n
        BY <1>1, <3>1
      <4> QED BY <1>3, <3>1, <4>1
    <3>2. CASE i = k \/ i = k1
      BY <1>1, <1>3, <3>2
    <3> QED BY <3>1, <3>2
  <2> QED BY <1>7, <2>1
<1>9. ASSUME NEW i \in 1..n, i > k1
      PROVE  e[i] = f[i]
  BY <1>1, <1>2, <1>3, <1>9
<1>10. /\ e \in Seq(Fight) /\ Len(e) = Len(f)
       /\ \A i \in 1..k1 : AtLeast(e[i], e[k1]) /\ \E q \in 1..k1 : e[i] = f[q]
       /\ \A i \in 1..Len(f) : i > k1 => e[i] = f[i]
  BY <1>3, <1>6, <1>8, <1>9
<1> QED BY <1>10 DEF Sunk, e, k1

(* A whole pass: m comparisons, from the front on. *)
LEMMA PassSinks ==
  ASSUME NEW n \in Nat, NEW m \in Nat, m + 1 <= n, NEW h, NEW o \in Nat,
         h[o] \in Seq(Fight), Len(h[o]) = n,
         \A k \in 1..m : h[o + k] = SwapIfLess(h[o + (k - 1)], k)
  PROVE  Sunk(h[o], h[o + m], m)
<1> DEFINE f == h[o]
           P == {k \in 0..m : Sunk(f, h[o + k], k)}
<1>1. 0 \in P
  <2>1. o + 0 = o /\ 0 \in 0..m /\ n >= 1
    OBVIOUS
  <2> QED BY <2>1, PassBegins
<1>2. ASSUME NEW k \in 1..m, k - 1 \in P
      PROVE  k \in P
  <2> DEFINE g == h[o + (k - 1)]
  <2>1. k \in Nat \ {0} /\ k + 1 <= n /\ k \in 0..m
    OBVIOUS
  <2>2. Sunk(f, g, k - 1)
    BY <1>2
  <2>3. f \in Seq(Fight) /\ Len(f) = n
    OBVIOUS
  <2>4. h[o + k] = SwapIfLess(g, k)
    OBVIOUS
  <2> HIDE DEF f, g
  <2>5. Sunk(f, SwapIfLess(g, k), k)
    BY <2>1, <2>2, <2>3, PassStep
  <2> QED BY <2>1, <2>4, <2>5
<1>3. m \in P
  <2> HIDE DEF P
  <2> QED BY <1>1, <1>2, UpTo
<1> QED BY <1>3

(* What is behind position m has found its place. *)
Behind(g, m) == \A p \in 1..Len(g) : p > m => \A q \in 1..p : AtLeast(g[q], g[p])

LEMMA PassPlaces ==
  ASSUME NEW f \in Seq(Fight), NEW m \in Nat, m + 1 <= Len(f), NEW g,
         Sunk(f, g, m), Behind(f, m + 1)
  PROVE  Behind(g, m)
<1> DEFINE n == Len(f)
           m1 == m + 1
<1>1. n \in Nat /\ m1 \in 1..n /\ m1 \in Nat /\ m < m1
  OBVIOUS
<1>2. /\ Len(g) = n
      /\ \A i \in 1..m1 : AtLeast(g[i], g[m1]) /\ \E q \in 1..m1 : g[i] = f[q]
      /\ \A i \in 1..n : i > m1 => g[i] = f[i]
  BY DEF Sunk
<1>3. \A p \in 1..n : p > m1 => \A q \in 1..p : AtLeast(f[q], f[p])
  BY DEF Behind
<1>4. \A p \in 1..n : p > m => p = m1 \/ p > m1
  OBVIOUS
<1> HIDE DEF n, m1
<1>5. ASSUME NEW p \in 1..n, p > m, NEW q \in 1..p
      PROVE  AtLeast(g[q], g[p])
  <2>1. CASE p = m1
    BY <1>2, <2>1
  <2>2. CASE p > m1
    <3>0. q \in 1..n
      BY <1>1
    <3>1. g[p] = f[p] /\ q \in 1..n
      BY <1>2, <2>2, <3>0
    <3>2. CASE q > m1
      BY <1>2, <1>3, <2>2, <3>1, <3>2
    <3>3. CASE q <= m1
      <4>1. q \in 1..m1
        BY <1>1, <3>3
      <4>2. PICK r \in 1..m1 : g[q] = f[r]
        BY <1>2, <4>1
      <4>3. r \in 1..p
        BY <1>1, <2>2
      <4> QED BY <1>3, <2>2, <3>1, <4>2, <4>3
    <3> QED BY <1>1, <3>2, <3>3
  <2> QED BY <1>4, <1>5, <2>1, <2>2
<1> QED BY <1>2, <1>5 DEF Behind

(* Battle_sort: after its passes no fight stands before one that dealt     *)
(* more in a second.                                                       *)
LEMMA SortSorts ==
  ASSUME NEW fights \in Seq(Fight)
  PROVE  Behind(Sort(fights), 0)
<1> DEFINE n == Len(fights)
<1>1. n \in Nat
  OBVIOUS
<1>2. CASE n < 2
  <2>1. Sort(fights) = fights
    BY <1>2 DEF Sort
  <2>2. ASSUME NEW p \in 1..n, NEW q \in 1..p
        PROVE  AtLeast(fights[q], fights[p])
    <3>1. q = p /\ fights[p] \in Fight
      BY <1>1, <1>2
    <3> QED BY <3>1, AtLeastOrders
  <2> QED BY <2>1, <2>2 DEF Behind
<1>3. CASE n >= 2
  <2> DEFINE S == 1..(n - 1)
             M == n - 1
             seqs == [i \in 1..(n - 1) |-> [j \in 1..(n - i) |-> j]]
             steps == BubbleSteps(n)
             N == Len(steps)
  <2>1. /\ seqs \in Seq(Seq(S)) /\ Len(seqs) = M /\ M \in Nat
        /\ \A i \in 1..M : /\ Len(seqs[i]) = n - i /\ n - i \in Nat
                           /\ \A j \in 1..(n - i) : seqs[i][j] = j
    <3>1. ASSUME NEW i \in 1..M
          PROVE  [j \in 1..(n - i) |-> j] \in Seq(S) /\ Len([j \in 1..(n - i) |-> j]) = n - i
      <4>1. n - i \in Nat /\ \A j \in 1..(n - i) : j \in S
        BY <1>1
      <4>2. [j \in 1..(n - i) |-> j] \in [1..(n - i) -> S]
        BY <4>1
      <4> QED BY <4>1, <4>2
    <3>2. M \in Nat /\ \A i \in 1..M : n - i \in Nat
      BY <1>1, <1>3
    <3>3. seqs \in [1..M -> Seq(S)]
      BY <3>1
    <3>4. seqs \in Seq(Seq(S)) /\ Len(seqs) = M
      BY <3>2, <3>3
    <3>5. \A i \in 1..M : seqs[i] = [j \in 1..(n - i) |-> j]
      OBVIOUS
    <3> HIDE DEF seqs
    <3> QED BY <3>1, <3>2, <3>4, <3>5
  <2>2. steps = FlattenSeq(seqs)
    BY DEF BubbleSteps
  <2>3. N \in Nat /\ DOMAIN steps = 1..N
    <3>1. steps \in Seq(1..(n - 1))
      BY <1>1, <1>3, StepsWithin
    <3> QED BY <3>1
  <2>4. Sort(fights) = FoldLeft(SwapIfLess, fights, steps)
    BY <1>3 DEF Sort
  <2> HIDE DEF seqs, steps, N, M
  <2>0. PICK h : GoesThrough(fights, steps, N, h)
    BY <2>3, PassesGoThrough
  <2>5. /\ h[0] = fights /\ h[N] = FoldLeft(SwapIfLess, fights, steps)
        /\ \A k \in 1..N : h[k] = SwapIfLess(h[k - 1], steps[k])
    BY <2>0 DEF GoesThrough
  <2>6. PICK at : Parted(seqs, steps, at)
    BY <2>1, <2>2, FlattenParts
  <2>7. /\ at \in [0..M -> Nat] /\ at[0] = 0 /\ at[M] = N
        /\ \A i \in 1..M : /\ at[i] = at[i - 1] + (n - i)
                           /\ \A j \in 1..(n - i) : steps[at[i - 1] + j] = j
    BY <2>1, <2>6 DEF Parted, N
  <2>8. \A i \in 0..M : at[i] \in Nat
    BY <2>7
  <2>9. \A i \in 1..M : at[i - 1] <= at[i] /\ at[i - 1] \in Nat
    <3> SUFFICES ASSUME NEW i \in 1..M PROVE at[i - 1] <= at[i] /\ at[i - 1] \in Nat
      OBVIOUS
    <3>1. i \in 0..M /\ i - 1 \in 0..M
      BY <2>1
    <3> DEFINE x == at[i - 1]
               y == at[i]
               z == n - i
    <3>2. x \in Nat /\ y = x + z /\ z \in Nat
      BY <2>1, <2>7, <2>8, <3>1
    <3> HIDE DEF x, y, z
    <3>3. x <= y
      BY ONLY <3>2
    <3> QED BY <3>2, <3>3 DEF x, y
  <2>10. \A i \in 0..M : at[i] <= N
    <3> SUFFICES ASSUME NEW i \in 0..M PROVE at[i] <= N
      OBVIOUS
    <3>1. M \in 0..M /\ i <= M
      BY <2>1
    <3>2. at[i] <= at[M]
      BY <2>1, <2>7, <2>9, <3>1, PartsGrow
    <3> QED BY <2>7, <3>2
  <2> DEFINE Placed(g, i) == g \in Seq(Fight) /\ Len(g) = n /\ Behind(g, n - i)
             P == {i \in 0..M : Placed(h[at[i]], i)}
  <2>11. 0 \in P
    <3>1. 0 \in 0..M /\ h[at[0]] = fights /\ n - 0 = n
      BY <1>1, <2>1, <2>5, <2>7
    <3>2. Behind(fights, n)
      BY <1>1 DEF Behind
    <3> QED BY <3>1, <3>2
  <2>12. ASSUME NEW i \in 1..M, i - 1 \in P
         PROVE  i \in P
    <3> DEFINE o == at[i - 1]
               m == n - i
               f == h[o]
               e == h[at[i]]
    <3>1. /\ i \in 0..M /\ m \in Nat /\ m + 1 <= n /\ n - (i - 1) = m + 1
          /\ o \in Nat /\ at[i] \in Nat /\ at[i] = o + m /\ at[i] <= N
      <4>1. i \in 0..M /\ m \in Nat /\ o \in Nat /\ at[i] = o + m /\ at[i] <= N
        BY <2>1, <2>7, <2>9, <2>10
      <4>2. at[i] \in Nat
        BY <2>8, <4>1
      <4>3. m + 1 <= n /\ n - (i - 1) = m + 1
        BY <1>1, <2>1
      <4> QED BY <4>1, <4>2, <4>3
    <3>2. f \in Seq(Fight) /\ Len(f) = n /\ Behind(f, m + 1)
      BY <2>12, <3>1
    <3>3. ASSUME NEW k \in 1..m
          PROVE  h[o + k] = SwapIfLess(h[o + (k - 1)], k)
      <4> DEFINE p == o + k
      <4>1. steps[p] = k
        BY <2>7
      <4> HIDE DEF m, o
      <4>2. p \in 1..N /\ p - 1 = o + (k - 1)
        BY <2>3, <3>1
      <4> HIDE DEF p
      <4>3. h[p] = SwapIfLess(h[p - 1], steps[p])
        BY <2>5, <4>2
      <4> QED BY <4>1, <4>2, <4>3 DEF p
    <3>4. e = h[o + m]
      BY <3>1
    <3> HIDE DEF o, m, e
    <3>5. Sunk(f, h[o + m], m)
      BY <1>1, <3>1, <3>2, <3>3, PassSinks
    <3> HIDE DEF f
    <3>6. Sunk(f, e, m)
      BY <3>4, <3>5
    <3>7. Behind(e, m)
      BY <3>1, <3>2, <3>6, PassPlaces
    <3>8. e \in Seq(Fight) /\ Len(e) = n
      BY <3>2, <3>6 DEF Sunk
    <3> QED BY <3>1, <3>7, <3>8 DEF e, m
  <2>13. M \in P
    <3> HIDE DEF P
    <3> QED BY <2>1, <2>11, <2>12, UpTo
  <2>14. Behind(h[N], n - M)
    BY <2>7, <2>13
  <2>15. h[N] \in Seq(Fight) /\ Len(h[N]) = n /\ n - M = 1
    BY <1>1, <2>7, <2>13 DEF M
  <2> DEFINE g == h[N]
  <2>16. g = Sort(fights)
    BY <2>4, <2>5
  <2> HIDE DEF g
  <2>17. g \in Seq(Fight) /\ Behind(g, 1)
    BY <2>14, <2>15 DEF g
  <2>18. Behind(g, 0)
    <3> SUFFICES ASSUME NEW p \in 1..Len(g), NEW q \in 1..p
                 PROVE  AtLeast(g[q], g[p])
      BY DEF Behind
    <3>1. CASE p > 1
      BY <2>17, <3>1 DEF Behind
    <3>2. CASE ~(p > 1)
      <4>1. q = p /\ g[p] \in Fight
        BY <2>17, <3>2
      <4> QED BY <4>1, AtLeastOrders
    <3> QED BY <3>1, <3>2
  <2> QED BY <2>16, <2>18
<1> QED BY <1>1, <1>2, <1>3
-----------------------------------------------------------------------------
(* The rows of one name, in the order the sort leaves its fights in.       *)
NoLess(x, y) == ~RatioLess(x.damage, x.seconds, y.damage, y.seconds)
OwnerName(r) == IF ReportByTarget THEN r.target ELSE r.source
RowsFall(rows) ==
  \A i, j \in 1..Len(rows) : i < j /\ OwnerName(rows[i]) = OwnerName(rows[j])
                               => NoLess(rows[i], rows[j])

(* Without --by-verb the report prints the damage the sort compares.       *)
LEMMA PrintsWhatItSorts ==
  ASSUME ~ByVerb, NEW b, NEW f \in Fight, NEW g \in Fight, Shaped(f), Shaped(g), AtLeast(f, g)
  PROVE  NoLess(Row(b, f), Row(b, g))
<1>1. Fight_damage(f) = MeleeDamage_damage(f.m_melee)
  BY FightTotals DEF Weighed, DamageOf, Fight
<1>2. Fight_damage(g) = MeleeDamage_damage(g.m_melee)
  BY FightTotals DEF Weighed, DamageOf, Fight
<1>3. /\ Row(b, f).damage = Fight_damage(f) /\ Row(b, f).seconds = Fight_seconds(f)
      /\ Row(b, g).damage = Fight_damage(g) /\ Row(b, g).seconds = Fight_seconds(g)
  BY DEF Row
<1> QED BY <1>1, <1>2, <1>3 DEF NoLess, AtLeast

LEMMA RowsOfFall ==
  ASSUME ~ByVerb, NEW b, NEW fights \in Seq(Fight), Behind(fights, 0),
         \A k \in 1..Len(fights) : Shaped(fights[k]), NEW pcId,
         NEW rows, rows = RowsOf(b, fights, pcId),
         NEW i \in 1..Len(rows), NEW j \in 1..Len(rows), i < j
  PROVE  NoLess(rows[i], rows[j])
<1> DEFINE S == RowSet(b)
           n == Len(fights)
           Part(k) == IF Owner(fights[k]) = pcId THEN << Row(b, fights[k]) >> ELSE << >>
           seqs == [k \in 1..n |-> Part(k)]
<1>1. rows = FlattenSeq(seqs)
  BY DEF RowsOf
<1>2. n \in Nat /\ \A k \in 1..n : fights[k] \in Fight
  OBVIOUS
<1>3. ASSUME NEW k \in 1..n
      PROVE  /\ Part(k) \in Seq(S)
             /\ \A l \in 1..Len(Part(k)) : l = 1 /\ Part(k)[l] = Row(b, fights[k])
  <2> DEFINE r == Row(b, fights[k])
  <2>1. r \in S
    BY <1>2 DEF RowSet
  <2> HIDE DEF r, S
  <2>2. << r >> \in Seq(S) /\ << >> \in Seq(S)
    BY <2>1
  <2>3. \A l \in 1..Len(<< r >>) : l = 1 /\ << r >>[l] = r
    OBVIOUS
  <2>4. \A l \in 1..Len(<< >>) : FALSE
    OBVIOUS
  <2>5. CASE Owner(fights[k]) = pcId
    <3>1. Part(k) = << r >>
      BY <2>5 DEF r
    <3> HIDE DEF Part
    <3> QED BY <2>2, <2>3, <3>1 DEF r
  <2>6. CASE Owner(fights[k]) # pcId
    <3>1. Part(k) = << >>
      BY <2>6
    <3> HIDE DEF Part
    <3> QED BY <2>2, <2>4, <3>1
  <2> QED BY <2>5, <2>6
<1> HIDE DEF S, Part
<1>4. seqs \in Seq(Seq(S)) /\ Len(seqs) = n
  <2>1. seqs \in [1..n -> Seq(S)]
    BY <1>3
  <2> QED BY <1>2, <2>1
<1>5. \A k \in 1..n : seqs[k] = Part(k)
  OBVIOUS
<1> HIDE DEF seqs
<1>6. Follows(seqs, rows[i], rows[j])
  BY <1>1, <1>4, FlattenOrder
<1>7. PICK k \in 1..n, m \in 1..n :
        \E l \in 1..Len(seqs[k]), o \in 1..Len(seqs[m]) :
          /\ rows[i] = seqs[k][l] /\ rows[j] = seqs[m][o]
          /\ k < m \/ (k = m /\ l < o)
  BY <1>4, <1>6 DEF Follows
<1>8. PICK l \in 1..Len(Part(k)), o \in 1..Len(Part(m)) :
          /\ rows[i] = Part(k)[l] /\ rows[j] = Part(m)[o]
          /\ k < m \/ (k = m /\ l < o)
  <2>1. seqs[k] = Part(k) /\ seqs[m] = Part(m)
    BY <1>5
  <2> QED BY <1>7, <2>1
<1>9. l = 1 /\ o = 1 /\ rows[i] = Row(b, fights[k]) /\ rows[j] = Row(b, fights[m])
  BY <1>3, <1>8
<1>10. k < m
  BY <1>8, <1>9
<1> DEFINE f == fights[k]
           g == fights[m]
<1>11. f \in Fight /\ g \in Fight /\ Shaped(f) /\ Shaped(g)
  BY <1>2
<1>12. AtLeast(f, g)
  <2>1. m > 0 /\ k \in 1..m
    BY <1>2, <1>10
  <2> QED BY <2>1 DEF Behind
<1> HIDE DEF f, g
<1>13. NoLess(Row(b, f), Row(b, g))
  BY <1>11, <1>12, PrintsWhatItSorts
<1> QED BY <1>9, <1>13 DEF f, g

LEMMA RowsSort ==
  ASSUME ~ByVerb, NEW b, GoodBattle(b), Kept(b.m_fight)
  PROVE  RowsFall(Rows(b))
<1> DEFINE S == RowSet(b)
           fights == Sort(b.m_fight)
           rows == Rows(b)
           n == Len(b.m_pc)
           seqs == [pcId \in 1..n |-> RowsOf(b, fights, pcId)]
<1>1. rows = FlattenSeq(seqs)
  BY DEF Rows
<1>2. /\ b.m_fight \in Seq(Fight) /\ n \in Nat /\ Len(b.m_fight) \in Nat
  BY FightParts
<1>3. Rearranged(b.m_fight, fights)
  BY <1>2, SortKeeps
<1>4. fights \in Seq(Fight) /\ Len(fights) = Len(b.m_fight) /\ Behind(fights, 0)
  BY <1>2, <1>3, SortSorts DEF Rearranged
<1>5. \A k \in 1..Len(fights) : Shaped(fights[k])
  <2>1. DOMAIN fights = 1..Len(fights) /\ DOMAIN b.m_fight = 1..Len(b.m_fight)
    <3> HIDE DEF fights
    <3> QED BY <1>2, <1>4
  <2>2. \A f : f \in Range(fights) <=> f \in Range(b.m_fight)
    BY <1>3 DEF Rearranged
  <2>3. \A i \in 1..Len(b.m_fight) : Shaped(b.m_fight[i])
    BY DEF Kept
  <2> HIDE DEF fights
  <2>4. ASSUME NEW k \in 1..Len(fights)
        PROVE  Shaped(fights[k])
    <3>1. fights[k] \in Range(b.m_fight)
      BY <2>1, <2>2 DEF Range
    <3>2. PICK i \in 1..Len(b.m_fight) : fights[k] = b.m_fight[i]
      BY <2>1, <3>1 DEF Range
    <3> QED BY <2>3, <3>2
  <2> QED BY <2>4
<1> HIDE DEF fights
<1>6. \A p \in 1..n :
        /\ RowsOf(b, fights, p) \in Seq(S)
        /\ \A x : x \in Range(RowsOf(b, fights, p))
             <=> \E k \in 1..Len(fights) : Owner(fights[k]) = p /\ x = Row(b, fights[k])
  BY <1>4, RowsOfRange
<1> HIDE DEF S
<1>7. seqs \in Seq(Seq(S)) /\ Len(seqs) = n
  <2>1. seqs \in [1..n -> Seq(S)]
    BY <1>6
  <2> QED BY <1>2, <2>1
<1>8. \A p \in 1..n : seqs[p] = RowsOf(b, fights, p)
  OBVIOUS
<1> HIDE DEF seqs, rows
<1>9. ASSUME NEW p \in 1..n, NEW l \in 1..Len(RowsOf(b, fights, p))
      PROVE  OwnerName(RowsOf(b, fights, p)[l]) = b.m_pc[p]
  <2> DEFINE of == RowsOf(b, fights, p)
  <2>1. of \in Seq(S)
    BY <1>6
  <2> HIDE DEF of
  <2>2. of[l] \in Range(of)
    BY <2>1, <1>9 DEF Range, of
  <2>3. PICK k \in 1..Len(fights) : Owner(fights[k]) = p /\ of[l] = Row(b, fights[k])
    BY <1>6, <2>2 DEF of
  <2> DEFINE f == fights[k]
  <2>4. Owner(f) = p /\ of[l] = Row(b, f)
    BY <2>3
  <2> HIDE DEF f
  <2>5. OwnerName(Row(b, f)) = b.m_pc[Owner(f)]
    BY DEF OwnerName, Row, Owner
  <2> QED BY <2>4, <2>5 DEF of
<1>10. ASSUME NEW i \in 1..Len(rows), NEW j \in 1..Len(rows), i < j,
              OwnerName(rows[i]) = OwnerName(rows[j])
       PROVE  NoLess(rows[i], rows[j])
  <2>1. Follows(seqs, rows[i], rows[j])
    BY <1>1, <1>7, <1>10, FlattenOrder
  <2>2. PICK p \in 1..n, q \in 1..n :
          \E k \in 1..Len(seqs[p]), l \in 1..Len(seqs[q]) :
            /\ rows[i] = seqs[p][k] /\ rows[j] = seqs[q][l]
            /\ p < q \/ (p = q /\ k < l)
    BY <1>7, <2>1 DEF Follows
  <2>3. PICK k \in 1..Len(RowsOf(b, fights, p)), l \in 1..Len(RowsOf(b, fights, q)) :
            /\ rows[i] = RowsOf(b, fights, p)[k] /\ rows[j] = RowsOf(b, fights, q)[l]
            /\ p < q \/ (p = q /\ k < l)
    <3>1. seqs[p] = RowsOf(b, fights, p) /\ seqs[q] = RowsOf(b, fights, q)
      BY <1>8
    <3> QED BY <2>2, <3>1
  <2>4. b.m_pc[p] = b.m_pc[q]
    <3>1. OwnerName(rows[i]) = b.m_pc[p]
      BY <1>9, <2>3
    <3>2. OwnerName(rows[j]) = b.m_pc[q]
      BY <1>9, <2>3
    <3> QED BY <1>10, <3>1, <3>2
  <2>5. p = q
    BY <2>4 DEF GoodBattle, Interned
  <2>6. k < l
    BY <2>3, <2>5
  <2> DEFINE of == RowsOf(b, fights, p)
  <2>7. k \in 1..Len(of) /\ l \in 1..Len(of) /\ rows[i] = of[k] /\ rows[j] = of[l]
    BY <2>3, <2>5
  <2>8. of = RowsOf(b, fights, p)
    OBVIOUS
  <2> HIDE DEF of
  <2>9. NoLess(of[k], of[l])
    BY <1>4, <1>5, <2>6, <2>7, <2>8, RowsOfFall
  <2> QED BY <2>7, <2>9
<1> QED BY <1>10 DEF RowsFall, rows

LEMMA ReportFalls ==
  ASSUME ~ByVerb, NEW out, IsSeq(out), \A k \in 1..Len(out) : RowsFall(out[k].rows),
         NEW b, GoodBattle(b), Kept(b.m_fight)
  PROVE  \A k \in 1..Len(out \o Report(b)) : RowsFall((out \o Report(b))[k].rows)
<1> DEFINE r == [from |-> b.m_start, to |-> b.m_end, rows |-> Rows(b)]
           S == Range(out) \union {r}
           n == Len(out)
<1>1. out \in Seq(S) /\ n \in Nat
  <2> DEFINE R == Range(out)
  <2>1. out \in Seq(R)
    BY DEF IsSeq
  <2> HIDE DEF R
  <2>2. out \in Seq(R \union {r}) /\ n \in Nat
    BY <2>1
  <2> QED BY <2>2 DEF R
<1>2. Report(b) = IF Reported(b) THEN << r >> ELSE << >>
  BY DEF Report
<1>3. r \in S /\ r.rows = Rows(b)
  OBVIOUS
<1>4. RowsFall(r.rows)
  BY <1>3, RowsSort
<1> HIDE DEF r, S
<1>5. CASE Reported(b)
  <2> DEFINE more == out \o << r >>
  <2>1. /\ Len(more) = n + 1
        /\ \A k \in 1..n : more[k] = out[k]
        /\ more[n + 1] = r
    BY <1>1, <1>3
  <2> HIDE DEF more
  <2>2. \A k \in 1..(n + 1) : k \in 1..n \/ k = n + 1
    BY <1>1
  <2>3. \A k \in 1..Len(more) : RowsFall(more[k].rows)
    BY <1>4, <2>1, <2>2
  <2>4. out \o Report(b) = more
    BY <1>2, <1>5 DEF more
  <2> QED BY <2>3, <2>4
<1>6. CASE ~Reported(b)
  <2>1. out \o << >> = out
    BY <1>1
  <2>2. out \o Report(b) = out
    BY <1>2, <1>6, <2>1
  <2> QED BY <2>2
<1> QED BY <1>5, <1>6

(* Every step prints nothing, or the report of the battle it finds.        *)
LEMMA Prints ==
  ASSUME [Next]_vars
  PROVE  \/ stdout' = stdout
         \/ running /\ stdout' = stdout \o Report(battle)
<1>1. CASE UNCHANGED vars
  BY <1>1 DEF vars
<1>2. ASSUME NEW d \in Dates, Skip(d) \/ Stop(d)
      PROVE  stdout' = stdout
  BY <1>2 DEF Skip, Stop
<1>3. CASE Undated
  BY <1>3 DEF Undated
<1>4. CASE Finish
  BY <1>4 DEF Finish
<1>5. ASSUME NEW d \in Dates, NEW a \in LogLines, TellMe(d, a)
      PROVE  \/ stdout' = stdout
             \/ running /\ stdout' = stdout \o Report(battle)
  <2>1. Accepts(d)
    BY <1>5 DEF TellMe, DoMelee, DoMiss, DoCrit, DoCrip, DoHolyBlade, DoMagic, DoHeal,
                DoDeath, DoNothing
  <2> QED BY <2>1 DEF Accepts, Reads
<1> QED BY <1>1, <1>2, <1>3, <1>4, <1>5 DEF Next

OutputFalls == IsSeq(stdout) /\ \A k \in 1..Len(stdout) : RowsFall(stdout[k].rows)

(* Unless it counts by verb, the program prints the rows of a name in      *)
(* falling damage per second: what Battle_sort is for ("Sort fight by      *)
(* dps", battle.c:806).  With --by-verb it does not, as Battle_sort        *)
(* compares the counters that are then left at zero.                       *)
THEOREM RowsSorted == ASSUME ~ByVerb PROVE Spec => []RowsSortedByDps
<1>1. Init => OutputFalls
  <2> SUFFICES ASSUME Init PROVE OutputFalls
    OBVIOUS
  <2>1. stdout = << >>
    BY DEF Init
  <2>2. stdout \in Seq({}) /\ Len(stdout) = 0
    BY <2>1, EmptySeq
  <2>3. IsSeq(stdout)
    BY <2>2, SeqIsSeq
  <2>4. \A k \in 1..Len(stdout) : FALSE
    BY <2>2
  <2> QED BY <2>3, <2>4 DEF OutputFalls
<1>2. IInv /\ CInv /\ OutputFalls /\ [Next]_vars => OutputFalls'
  <2> SUFFICES ASSUME IInv, CInv, OutputFalls, [Next]_vars PROVE OutputFalls'
    OBVIOUS
  <2>1. CASE stdout' = stdout
    BY <2>1 DEF OutputFalls
  <2>2. CASE running /\ stdout' = stdout \o Report(battle)
    <3>1. GoodBattle(battle) /\ Kept(battle.m_fight)
      BY <2>2, IInvGood DEF CInv, Counted
    <3>2. IsSeq(stdout')
      BY <2>2, <3>1, PublishedMore DEF OutputFalls
    <3>3. \A k \in 1..Len(stdout') : RowsFall(stdout'[k].rows)
      BY <2>2, <3>1, ReportFalls DEF OutputFalls
    <3> QED BY <3>2, <3>3 DEF OutputFalls
  <2> QED BY <2>1, <2>2, Prints
<1>3. OutputFalls => RowsSortedByDps
  BY DEF OutputFalls, RowsFall, OwnerName, NoLess, RowsSortedByDps
<1> QED BY <1>1, <1>2, <1>3, CountsInductive, PTL DEF Spec
-----------------------------------------------------------------------------
(* The port.  A battle of it whose ids are in order: every fight uses ids  *)
(* of m_pc, where no name is twice, and no two fights use the same ids.    *)
Who == Name \union {SpellsTotal}
PPFight == [m_sourceId : Nat, m_targetId : Nat, m_start : Int, m_end : Int,
            hits : [PP!Share -> Nat], damage : [PP!Share -> Nat]]
PPDeath == [m_sourceId : Nat, m_targetId : Nat, m_finishingBlow : BOOLEAN]
PPBattle == [m_pc : Seq(Who), m_fight : Seq(PPFight), m_death : Seq(PPDeath),
             m_start : Int, m_end : Int, m_expire : Int, m_totalHeals : Nat,
             m_last : [PP!Special -> Nat], m_lastFinishingBlow : Nat]
Distinct(pc) == \A i, j \in 1..Len(pc) : pc[i] = pc[j] => i = j
PPFightsOver(fights, n) ==
  /\ fights \in Seq(PPFight)
  /\ \A i \in 1..Len(fights) : fights[i].m_sourceId \in 1..n /\ fights[i].m_targetId \in 1..n
  /\ \A i, j \in 1..Len(fights) :
       /\ fights[i].m_sourceId = fights[j].m_sourceId
       /\ fights[i].m_targetId = fights[j].m_targetId
       => i = j
PPGood(b) == /\ b \in PPBattle
             /\ Distinct(b.m_pc)
             /\ PPFightsOver(b.m_fight, Len(b.m_pc))

(* A line as the port's parser gives it. *)
PPLine(a) ==
  /\ a.source \in Who \union {NoName} /\ a.target \in Name \union {NoName}
  /\ a.type \in {"MELEE", "MAGIC"} => a.source \in Who /\ a.target \in Name
  /\ a.type = "DEATH" => a.target \in Name
  /\ a.damage \in Nat

(* SelectInSeq gives the first index at which a test holds, 0 for none. *)
LEMMA FirstOf ==
  ASSUME NEW n \in Nat, NEW T \in SUBSET (1..n)
  PROVE  LET m == IF T # {} THEN Min(T) ELSE 0
         IN  m \in 0..n /\ (m # 0 => m \in T) /\ (T # {} => m # 0)
<1>1. CASE T = {}
  BY <1>1
<1>2. CASE T # {}
  <2>1. PICK x \in T : \A y \in T : x <= y
    BY <1>2, LeastIndex
  <2>2. Min(T) \in T
    BY <2>1 DEF Min
  <2>3. Min(T) \in 1..n
    BY <2>2
  <2> QED BY <1>2, <2>2, <2>3
<1> QED BY <1>1, <1>2

LEMMA PPIdFinds ==
  ASSUME NEW pc \in Seq(Who), NEW n
  PROVE  /\ PP!Id(pc, n) \in 0..Len(pc)
         /\ PP!Id(pc, n) # 0 => n # NoName /\ pc[PP!Id(pc, n)] = PP!Called(n)
         /\ n # NoName /\ (\E i \in 1..Len(pc) : pc[i] = PP!Called(n)) => PP!Id(pc, n) # 0
<1> DEFINE T == {i \in 1..Len(pc) : pc[i] = PP!Called(n)}
<1>1. T \in SUBSET (1..Len(pc)) /\ Len(pc) \in Nat
  OBVIOUS
<1>2. PP!Id(pc, n) = IF n = NoName THEN 0 ELSE IF T # {} THEN Min(T) ELSE 0
  BY DEF PP!Id, PP!NoId, PP!SelectInSeq, PP!Min, Min
<1>3. \A i : i \in T <=> i \in 1..Len(pc) /\ pc[i] = PP!Called(n)
  OBVIOUS
<1> HIDE DEF T
<1> QED BY <1>1, <1>2, <1>3, FirstOf

LEMMA PPFightIdFinds ==
  ASSUME NEW fights \in Seq(PPFight), NEW s, NEW t
  PROVE  LET p == PP!FightId(fights, s, t)
         IN  /\ p \in 0..Len(fights)
             /\ p # 0 => fights[p].m_sourceId = s /\ fights[p].m_targetId = t
             /\ (\E i \in 1..Len(fights) : fights[i].m_sourceId = s /\ fights[i].m_targetId = t)
                  => p # 0
<1> DEFINE T == {i \in 1..Len(fights) : fights[i].m_sourceId = s /\ fights[i].m_targetId = t}
<1>1. T \in SUBSET (1..Len(fights)) /\ Len(fights) \in Nat
  OBVIOUS
<1>2. PP!FightId(fights, s, t) = IF T # {} THEN Min(T) ELSE 0
  BY DEF PP!FightId, PP!SelectInSeq, PP!Min, Min
<1>3. \A i : i \in T <=> /\ i \in 1..Len(fights)
                         /\ fights[i].m_sourceId = s /\ fights[i].m_targetId = t
  OBVIOUS
<1> HIDE DEF T
<1> QED BY <1>1, <1>2, <1>3, FirstOf

(* What is interned stays at its place, and a name gets an id. *)
LEMMA PPInternKeeps ==
  ASSUME NEW pc \in Seq(Who), Distinct(pc), NEW n \in Who \union {NoName}
  PROVE  LET q == PP!Intern(pc, n)
         IN  /\ q \in Seq(Who) /\ Distinct(q)
             /\ Len(pc) <= Len(q) /\ \A i \in 1..Len(pc) : q[i] = pc[i]
             /\ n \in Who => \E i \in 1..Len(q) : q[i] = PP!Called(n)
             /\ n \in Who /\ (\E i \in 1..Len(pc) : pc[i] = PP!Called(n)) => q = pc
<1> DEFINE c == PP!Called(n)
           q == Append(pc, c)
<1>1. CASE n = NoName
  BY <1>1, NamesAssumption, PairAssumption DEF PP!Intern, Who
<1>2. CASE n # NoName /\ PP!Id(pc, n) # 0
  <2>1. PP!Id(pc, n) \in 1..Len(pc) /\ pc[PP!Id(pc, n)] = c
    BY <1>2, PPIdFinds
  <2>2. PP!Intern(pc, n) = pc
    BY <1>2 DEF PP!Intern, PP!NoId
  <2> HIDE DEF c
  <2> QED BY <2>1, <2>2 DEF c
<1>3. CASE n # NoName /\ PP!Id(pc, n) = 0
  <2>1. c \in Who
    BY <1>3, NamesAssumption DEF PP!Called, Who
  <2>2. \A i \in 1..Len(pc) : pc[i] # c
    BY <1>3, PPIdFinds
  <2>3. PP!Intern(pc, n) = q
    BY <1>3 DEF PP!Intern, PP!NoId
  <2> HIDE DEF c
  <2>4. /\ q \in Seq(Who) /\ Len(q) = Len(pc) + 1 /\ Len(pc) \in Nat
        /\ \A i \in 1..Len(pc) : q[i] = pc[i]
        /\ q[Len(pc) + 1] = c
    BY <2>1, AppendProperties
  <2> HIDE DEF q
  <2>5. Distinct(q)
    BY <2>2, <2>4 DEF Distinct
  <2>6. Len(pc) + 1 \in 1..Len(q)
    BY <2>4
  <2> QED BY <2>2, <2>3, <2>4, <2>5, <2>6 DEF c
<1> QED BY <1>1, <1>2, <1>3
-----------------------------------------------------------------------------
(* Where a battle of the port lies in time. *)
PPBegun(b, d)  == /\ b.m_start > -1 /\ b.m_start <= b.m_end /\ b.m_end <= d
                  /\ b.m_expire = b.m_end + KeepAlive
PPWithin(b, d) == b.m_start = -1 \/ PPBegun(b, d)

LEMMA PPKeepaliveSets ==
  ASSUME NEW b \in PPBattle, NEW d \in Int
  PROVE  LET k == PP!Keepalive(b, d)
         IN  /\ k \in PPBattle /\ k.m_pc = b.m_pc /\ k.m_fight = b.m_fight
             /\ k.m_start = b.m_start /\ k.m_end = d /\ k.m_expire = d + KeepAlive
<1>1. d + KeepAlive \in Int
  BY ConfigAssumption
<1> DEFINE x == d + KeepAlive
<1>2. PP!Keepalive(b, d) = [b EXCEPT !.m_end = d, !.m_expire = x]
  BY DEF PP!Keepalive
<1> HIDE DEF x
<1> QED BY <1>1, <1>2 DEF PPBattle, x

LEMMA PPKeepaliveProlongs ==
  ASSUME NEW b, NEW e \in PPBattle, NEW d \in Int, d > -1, Joined(b, e, d), PPBegun(e, d)
  PROVE  LET k == PP!Keepalive(e, d)
         IN  Prolonged(b, k, d) /\ PPBegun(k, d)
<1>1. e.m_start \in Int /\ e.m_end \in Int
  BY DEF PPBattle
<1> DEFINE k == PP!Keepalive(e, d)
<1>2. k.m_start = e.m_start /\ k.m_end = d /\ k.m_expire = d + KeepAlive
  BY PPKeepaliveSets
<1> HIDE DEF k
<1>3. Prolonged(b, k, d)
  BY <1>2 DEF Prolonged, Joined
<1>4. PPBegun(k, d)
  BY <1>1, <1>2 DEF PPBegun
<1> QED BY <1>3, <1>4 DEF k

LEMMA PPStartOpens ==
  ASSUME NEW b \in PPBattle, NEW d \in Int, d > -1, PPWithin(b, d)
  PROVE  LET st == PP!Start(b, d)
         IN  /\ st \in PPBattle /\ st.m_pc = b.m_pc /\ st.m_fight = b.m_fight
             /\ Opening(b, st, d) /\ PPBegun(st, d)
<1>1. b.m_start \in Int /\ b.m_end \in Int
  BY DEF PPBattle
<1>2. CASE b.m_start # -1
  <2>1. PPBegun(b, d)
    BY <1>2 DEF PPWithin
  <2>2. PP!InProgress(b)
    BY <1>1, <1>2, <2>1 DEF PPBegun, PP!InProgress, PP!Seconds
  <2> QED BY <1>2, <2>1, <2>2 DEF PP!Start, Opening, Joined
<1>3. CASE b.m_start = -1
  <2> DEFINE c == [b EXCEPT !.m_start = d]
             k == PP!Keepalive(c, d)
  <2>1. PP!Start(b, d) = k
    BY <1>3 DEF PP!InProgress, PP!Seconds, PP!Start
  <2>2. /\ c \in PPBattle /\ c.m_start = d /\ c.m_fight = b.m_fight /\ c.m_pc = b.m_pc
    BY DEF PPBattle
  <2> HIDE DEF c
  <2>3. /\ k \in PPBattle /\ k.m_pc = b.m_pc /\ k.m_fight = b.m_fight
        /\ k.m_start = d /\ k.m_end = d /\ k.m_expire = d + KeepAlive
    BY <2>2, PPKeepaliveSets
  <2> HIDE DEF k
  <2> QED BY <1>3, <2>1, <2>3 DEF Opening, Joined, PPBegun
<1> QED BY <1>2, <1>3

(* A longer m_pc still holds the ids of the fights. *)
LEMMA PPFightsOverMore ==
  ASSUME NEW fights, NEW n \in Nat, NEW m \in Nat, n <= m, PPFightsOver(fights, n)
  PROVE  PPFightsOver(fights, m)
BY DEF PPFightsOver

LEMMA PPEngageFinds ==
  ASSUME NEW b, PPGood(b), NEW d \in Int, d > -1, PPWithin(b, d), NEW a,
         a.source \in Who \union {NoName}, a.target \in Name \union {NoName}
  PROVE  LET e == PP!Engage(b, d, a)
             s == PP!Id(e.m_pc, a.source)
             t == PP!Id(e.m_pc, a.target)
         IN  /\ PPGood(e) /\ PcMore(b, e) /\ e.m_fight = b.m_fight
             /\ Opening(b, e, d) /\ PPBegun(e, d)
             /\ s \in 0..Len(e.m_pc) /\ (a.source \in Who => s # 0)
             /\ t \in 0..Len(e.m_pc) /\ (a.target \in Name => t # 0)
             /\ PP!Id(b.m_pc, a.source) # 0 /\ PP!Id(b.m_pc, a.target) # 0 => e.m_pc = b.m_pc
<1> DEFINE st == PP!Start(b, d)
           p1 == PP!Intern(b.m_pc, a.source)
           p2 == PP!Intern(p1, a.target)
           e  == [st EXCEPT !.m_pc = p2]
           s  == PP!Id(p2, a.source)
           t  == PP!Id(p2, a.target)
<1>1. /\ b \in PPBattle /\ b.m_pc \in Seq(Who) /\ Distinct(b.m_pc)
      /\ PPFightsOver(b.m_fight, Len(b.m_pc)) /\ Len(b.m_pc) \in Nat
  BY DEF PPGood, PPBattle
<1>2. /\ st \in PPBattle /\ st.m_pc = b.m_pc /\ st.m_fight = b.m_fight
      /\ Opening(b, st, d) /\ PPBegun(st, d)
  BY <1>1, PPStartOpens
<1>3. /\ p1 \in Seq(Who) /\ Distinct(p1) /\ Len(b.m_pc) <= Len(p1)
      /\ \A i \in 1..Len(b.m_pc) : p1[i] = b.m_pc[i]
      /\ a.source \in Who => \E i \in 1..Len(p1) : p1[i] = PP!Called(a.source)
      /\ a.source \in Who /\ (\E i \in 1..Len(b.m_pc) : b.m_pc[i] = PP!Called(a.source))
           => p1 = b.m_pc
  BY <1>1, PPInternKeeps
<1>4. a.target \in Who \union {NoName}
  BY DEF Who
<1>5. /\ p2 \in Seq(Who) /\ Distinct(p2) /\ Len(p1) <= Len(p2)
      /\ \A i \in 1..Len(p1) : p2[i] = p1[i]
      /\ a.target \in Who => \E i \in 1..Len(p2) : p2[i] = PP!Called(a.target)
      /\ a.target \in Who /\ (\E i \in 1..Len(p1) : p1[i] = PP!Called(a.target)) => p2 = p1
  BY <1>3, <1>4, PPInternKeeps
<1>6. PP!Engage(b, d, a) = e
  BY <1>2 DEF PP!Engage
<1> HIDE DEF st, p1, p2
<1>7. Len(p1) \in Nat /\ Len(p2) \in Nat
  BY <1>3, <1>5
<1>8. /\ e \in PPBattle /\ e.m_pc = p2 /\ e.m_fight = b.m_fight
      /\ e.m_start = st.m_start /\ e.m_end = st.m_end /\ e.m_expire = st.m_expire
  BY <1>2, <1>5 DEF PPBattle
<1> HIDE DEF e
<1>9. PPGood(e) /\ PcMore(b, e)
  <2>1. PPFightsOver(b.m_fight, Len(p2))
    BY <1>1, <1>3, <1>5, <1>7, PPFightsOverMore
  <2>2. Len(b.m_pc) <= Len(p2) /\ \A i \in 1..Len(b.m_pc) : p2[i] = b.m_pc[i]
    BY <1>1, <1>3, <1>5, <1>7
  <2> QED BY <1>5, <1>8, <2>1, <2>2 DEF PPGood, PcMore
<1>10. Opening(b, e, d) /\ PPBegun(e, d)
  BY <1>2, <1>8 DEF Opening, Joined, PPBegun
<1>11. /\ s \in 0..Len(p2) /\ (a.source \in Who => s # 0)
       /\ t \in 0..Len(p2) /\ (a.target \in Name => t # 0)
  <2>1. a.source \in Who => a.source # NoName /\ \E i \in 1..Len(p2) : p2[i] = PP!Called(a.source)
    BY <1>3, <1>5, <1>7, NamesAssumption, PairAssumption DEF Who
  <2>2. a.target \in Name => a.target # NoName /\ \E i \in 1..Len(p2) : p2[i] = PP!Called(a.target)
    BY <1>5, NamesAssumption DEF Who
  <2> QED BY <1>5, <2>1, <2>2, PPIdFinds
<1>12. ASSUME PP!Id(b.m_pc, a.source) # 0, PP!Id(b.m_pc, a.target) # 0
       PROVE  p2 = b.m_pc
  <2>1. /\ a.source # NoName /\ \E i \in 1..Len(b.m_pc) : b.m_pc[i] = PP!Called(a.source)
        /\ a.target # NoName /\ \E i \in 1..Len(b.m_pc) : b.m_pc[i] = PP!Called(a.target)
    <3>1. /\ PP!Id(b.m_pc, a.source) \in 1..Len(b.m_pc)
          /\ PP!Id(b.m_pc, a.target) \in 1..Len(b.m_pc)
      BY <1>1, <1>12, PPIdFinds
    <3> QED BY <1>1, <1>12, <3>1, PPIdFinds
  <2> QED BY <1>3, <1>4, <1>5, <2>1
<1> QED BY <1>6, <1>8, <1>9, <1>10, <1>11, <1>12
-----------------------------------------------------------------------------
(* What a handler of the port may do to the fights, as above for dps.  The *)
(* swings of the port are its hits.                                        *)
PPPairOf(b, f) == <<b.m_pc[f.m_sourceId], b.m_pc[f.m_targetId]>>
PPTotalsOf(f)  == [hits |-> f.hits["melee"], damage |-> f.damage["melee"],
                   swings |-> f.hits["melee"]]
PPSameIds(f, g) == g.m_sourceId = f.m_sourceId /\ g.m_targetId = f.m_targetId
PPUnstruck(b, c) ==
  /\ PcMore(b, c)
  /\ Len(c.m_fight) = Len(b.m_fight)
  /\ \A j \in 1..Len(b.m_fight) : /\ PPSameIds(b.m_fight[j], c.m_fight[j])
                                  /\ PPTotalsOf(c.m_fight[j]) = PPTotalsOf(b.m_fight[j])
PPStruck(b, c, i) ==
  /\ PcMore(b, c)
  /\ i \in 1..Len(c.m_fight)
  /\ \/ Len(c.m_fight) = Len(b.m_fight)
     \/ Len(c.m_fight) = Len(b.m_fight) + 1 /\ i = Len(c.m_fight)
  /\ \A j \in 1..Len(b.m_fight) : PPSameIds(b.m_fight[j], c.m_fight[j])
  /\ \A j \in 1..Len(b.m_fight) : j # i => PPTotalsOf(c.m_fight[j]) = PPTotalsOf(b.m_fight[j])
  /\ OneMore(IF i \in 1..Len(b.m_fight) THEN PPTotalsOf(b.m_fight[i]) ELSE Ledger!Totals,
             PPTotalsOf(c.m_fight[i]))

(* The fight that is found, or made. *)
LEMMA PPGetFightFinds ==
  ASSUME NEW fights, NEW n \in Nat, PPFightsOver(fights, n), NEW s \in 1..n, NEW t \in 1..n,
         NEW d \in Int
  PROVE  LET g == PP!GetFight(fights, d, s, t)
             i == PP!FightId(g, s, t)
         IN  /\ PPFightsOver(g, n) /\ i \in 1..Len(g)
             /\ \/ g = fights /\ i \in 1..Len(fights)
                \/ /\ Len(g) = Len(fights) + 1 /\ i = Len(g)
                   /\ PPTotalsOf(g[i]) = Ledger!Totals
                   /\ \A j \in 1..Len(fights) : g[j] = fights[j]
<1> DEFINE f == PP!NewFight(s, t, d)
           g == PP!GetFight(fights, d, s, t)
           i == PP!FightId(g, s, t)
<1>1. fights \in Seq(PPFight) /\ Len(fights) \in Nat
  BY DEF PPFightsOver
<1>2. CASE PP!FightId(fights, s, t) # 0
  BY <1>1, <1>2, PPFightIdFinds DEF PP!GetFight, PP!NoId
<1>3. CASE PP!FightId(fights, s, t) = 0
  <2>1. f \in PPFight /\ f.m_sourceId = s /\ f.m_targetId = t /\ PPTotalsOf(f) = Ledger!Totals
    BY DEF PP!NewFight, PPFight, PPTotalsOf, Ledger!Totals, PP!Share
  <2>2. g = Append(fights, f)
    BY <1>3 DEF PP!GetFight, PP!NoId
  <2> HIDE DEF f, g
  <2>3. /\ g \in Seq(PPFight) /\ Len(g) = Len(fights) + 1
        /\ \A j \in 1..Len(fights) : g[j] = fights[j]
        /\ g[Len(fights) + 1] = f
    BY <1>1, <2>1, <2>2, AppendProperties
  <2>4. \A j \in 1..Len(fights) : ~(fights[j].m_sourceId = s /\ fights[j].m_targetId = t)
    BY <1>1, <1>3, PPFightIdFinds
  <2>5. PPFightsOver(g, n)
    <3>1. \A j \in 1..Len(g) : j \in 1..Len(fights) \/ j = Len(fights) + 1
      BY <1>1, <2>3
    <3>2. \A j \in 1..Len(g) : g[j].m_sourceId \in 1..n /\ g[j].m_targetId \in 1..n
      BY <2>1, <2>3, <3>1 DEF PPFightsOver
    <3>3. ASSUME NEW j \in 1..Len(g), NEW k \in 1..Len(g),
                 g[j].m_sourceId = g[k].m_sourceId, g[j].m_targetId = g[k].m_targetId
          PROVE  j = k
      BY <2>1, <2>3, <2>4, <3>1, <3>3 DEF PPFightsOver
    <3> QED BY <2>3, <3>2, <3>3 DEF PPFightsOver
  <2>6. Len(g) \in 1..Len(g) /\ g[Len(g)] = f
    BY <1>1, <2>3
  <2>7. i \in 0..Len(g) /\ i # 0 /\ g[i].m_sourceId = s /\ g[i].m_targetId = t
    BY <2>1, <2>3, <2>6, PPFightIdFinds
  <2> HIDE DEF i
  <2>8. i = Len(g)
    BY <1>1, <2>3, <2>4, <2>7
  <2> QED BY <1>1, <2>1, <2>3, <2>5, <2>6, <2>8 DEF g, i
<1> QED BY <1>2, <1>3

(* One more hit in the shares, which the totals show if "melee" is one. *)
LEMMA PPCountInTotals ==
  ASSUME NEW f \in PPFight, NEW d \in Int, NEW damage \in Nat, NEW shares
  PROVE  LET h == PP!CountIn(f, d, damage, shares)
         IN  /\ h \in PPFight /\ PPSameIds(f, h)
             /\ "melee" \in shares => OneMore(PPTotalsOf(f), PPTotalsOf(h))
             /\ "melee" \notin shares => PPTotalsOf(h) = PPTotalsOf(f)
<1> DEFINE hits == [x \in PP!Share |-> f.hits[x] + (IF x \in shares THEN 1 ELSE 0)]
           sums == [x \in PP!Share |-> f.damage[x] + (IF x \in shares THEN damage ELSE 0)]
           h    == [f EXCEPT !.m_end = d, !.hits = hits, !.damage = sums]
<1>1. PP!CountIn(f, d, damage, shares) = h
  BY DEF PP!CountIn
<1>2. hits \in [PP!Share -> Nat] /\ sums \in [PP!Share -> Nat]
  BY DEF PPFight
<1>3. /\ "melee" \in PP!Share
      /\ hits["melee"] = f.hits["melee"] + (IF "melee" \in shares THEN 1 ELSE 0)
      /\ sums["melee"] = f.damage["melee"] + (IF "melee" \in shares THEN damage ELSE 0)
      /\ f.hits["melee"] \in Nat /\ f.damage["melee"] \in Nat
  <2>1. "melee" \in PP!Share
    BY DEF PP!Share
  <2> QED BY <2>1 DEF PPFight
<1> HIDE DEF hits, sums
<1>4. h \in PPFight /\ PPSameIds(f, h) /\ h.hits = hits /\ h.damage = sums
  BY <1>2 DEF PPFight, PPSameIds
<1> HIDE DEF h
<1>5. "melee" \in shares => OneMore(PPTotalsOf(f), PPTotalsOf(h))
  BY <1>3, <1>4 DEF OneMore, PPTotalsOf
<1>6. "melee" \notin shares => PPTotalsOf(h) = PPTotalsOf(f)
  BY <1>3, <1>4 DEF PPTotalsOf
<1> QED BY <1>1, <1>4, <1>5, <1>6

(* Battle::getFight and the counting in the fight it returns. *)
LEMMA PPCountStrikes ==
  ASSUME NEW b, PPGood(b), NEW d \in Int, NEW a, a.damage \in Nat, NEW shares,
         NEW s \in 1..Len(b.m_pc), s = PP!Id(b.m_pc, a.source),
         NEW t \in 1..Len(b.m_pc), t = PP!Id(b.m_pc, a.target)
  PROVE  LET c == PP!Count(b, d, a, shares)
         IN  /\ PPGood(c) /\ c.m_pc = b.m_pc
             /\ c.m_start = b.m_start /\ c.m_end = b.m_end /\ c.m_expire = b.m_expire
             /\ PP!FightId(c.m_fight, s, t) # 0
             /\ "melee" \in shares => \E i : PPStruck(b, c, i)
             /\ "melee" \notin shares /\ PP!FightId(b.m_fight, s, t) # 0 => PPUnstruck(b, c)
<1> DEFINE n == Len(b.m_fight)
           g == PP!GetFight(b.m_fight, d, s, t)
           i == PP!FightId(g, s, t)
           h == PP!CountIn(g[i], d, a.damage, shares)
           struck == [g EXCEPT ![i] = h]
           c == [b EXCEPT !.m_fight = struck]
<1>1. /\ b \in PPBattle /\ PPFightsOver(b.m_fight, Len(b.m_pc)) /\ Len(b.m_pc) \in Nat
      /\ n \in Nat /\ Distinct(b.m_pc)
  BY DEF PPGood, PPBattle
<1>2. /\ PPFightsOver(g, Len(b.m_pc)) /\ i \in 1..Len(g)
      /\ \/ g = b.m_fight /\ i \in 1..n
         \/ /\ Len(g) = n + 1 /\ i = Len(g)
            /\ PPTotalsOf(g[i]) = Ledger!Totals
            /\ \A j \in 1..n : g[j] = b.m_fight[j]
  <2> DEFINE fights == b.m_fight
             len == Len(b.m_pc)
  <2>1. /\ PPFightsOver(fights, len) /\ len \in Nat /\ s \in 1..len /\ t \in 1..len
        /\ g = PP!GetFight(fights, d, s, t) /\ n = Len(fights)
    BY <1>1
  <2> HIDE DEF fights, len, n
  <2>2. i = PP!FightId(PP!GetFight(fights, d, s, t), s, t)
    BY <2>1
  <2> HIDE DEF g, i
  <2>3. /\ PPFightsOver(g, len) /\ i \in 1..Len(g)
        /\ \/ g = fights /\ i \in 1..Len(fights)
           \/ /\ Len(g) = Len(fights) + 1 /\ i = Len(g)
              /\ PPTotalsOf(g[i]) = Ledger!Totals
              /\ \A j \in 1..Len(fights) : g[j] = fights[j]
    BY <2>1, <2>2, PPGetFightFinds
  <2> QED BY <2>1, <2>3 DEF fights, len
<1>3. PP!FightId(b.m_fight, s, t) # 0 => g = b.m_fight
  BY DEF PP!GetFight, PP!NoId
<1>4. PP!Count(b, d, a, shares) = c
  BY DEF PP!Count
<1> HIDE DEF g
<1>5. g \in Seq(PPFight) /\ g[i] \in PPFight /\ Len(g) \in Nat
      /\ g[i].m_sourceId = s /\ g[i].m_targetId = t
  <2>1. g \in Seq(PPFight)
    BY <1>2 DEF PPFightsOver
  <2>2. i # 0 /\ g[i] \in PPFight
    BY <1>2, <2>1
  <2> QED BY <2>1, <2>2, PPFightIdFinds
<1> HIDE DEF i
<1>6. /\ h \in PPFight /\ PPSameIds(g[i], h)
      /\ "melee" \in shares => OneMore(PPTotalsOf(g[i]), PPTotalsOf(h))
      /\ "melee" \notin shares => PPTotalsOf(h) = PPTotalsOf(g[i])
  <2> DEFINE f == g[i]
             much == a.damage
  <2>1. f \in PPFight /\ much \in Nat /\ h = PP!CountIn(f, d, much, shares)
    BY <1>5
  <2> HIDE DEF f, much, h
  <2>2. /\ h \in PPFight /\ PPSameIds(f, h)
        /\ "melee" \in shares => OneMore(PPTotalsOf(f), PPTotalsOf(h))
        /\ "melee" \notin shares => PPTotalsOf(h) = PPTotalsOf(f)
    BY <2>1, PPCountInTotals
  <2> QED BY <2>2 DEF f
<1> HIDE DEF h
<1>7. /\ struck \in Seq(PPFight) /\ Len(struck) = Len(g)
      /\ \A j \in 1..Len(g) : struck[j] = IF j = i THEN h ELSE g[j]
  BY <1>2, <1>5, <1>6, ExceptSeq
<1> HIDE DEF struck
<1>8. \A j \in 1..Len(g) : PPSameIds(g[j], struck[j])
  BY <1>6, <1>7 DEF PPSameIds
<1>9. PPFightsOver(struck, Len(b.m_pc))
  BY <1>2, <1>7, <1>8 DEF PPFightsOver, PPSameIds
<1>10. /\ c \in PPBattle /\ c.m_pc = b.m_pc /\ c.m_fight = struck
       /\ c.m_start = b.m_start /\ c.m_end = b.m_end /\ c.m_expire = b.m_expire
  BY <1>1, <1>7 DEF PPBattle
<1> HIDE DEF c
<1>11. PPGood(c)
  BY <1>1, <1>9, <1>10 DEF PPGood
<1>12. PP!FightId(c.m_fight, s, t) # 0
  <2>1. struck[i].m_sourceId = s /\ struck[i].m_targetId = t /\ i \in 1..Len(struck)
    BY <1>2, <1>5, <1>7, <1>8 DEF PPSameIds
  <2> QED BY <1>7, <1>10, <2>1, PPFightIdFinds
<1>13. PcMore(b, c)
  BY <1>1, <1>10 DEF PcMore
<1>14. \A j \in 1..n : j \in 1..Len(g) /\ g[j] = b.m_fight[j]
  BY <1>1, <1>2, <1>5
<1>15. ASSUME "melee" \in shares
       PROVE  PPStruck(b, c, i)
  <2>1. OneMore(IF i \in 1..n THEN PPTotalsOf(b.m_fight[i]) ELSE Ledger!Totals, PPTotalsOf(h))
    BY <1>1, <1>2, <1>6, <1>15
  <2>2. \A j \in 1..n : j # i => PPTotalsOf(struck[j]) = PPTotalsOf(b.m_fight[j])
    BY <1>7, <1>14
  <2>3. \A j \in 1..n : PPSameIds(b.m_fight[j], struck[j])
    BY <1>8, <1>14
  <2> QED BY <1>1, <1>2, <1>7, <1>10, <1>13, <2>1, <2>2, <2>3 DEF PPStruck
<1>16. ASSUME "melee" \notin shares, PP!FightId(b.m_fight, s, t) # 0
       PROVE  PPUnstruck(b, c)
  <2>1. g = b.m_fight
    BY <1>3, <1>16
  <2>2. \A j \in 1..n : PPTotalsOf(struck[j]) = PPTotalsOf(b.m_fight[j])
    BY <1>6, <1>7, <1>16, <2>1
  <2> QED BY <1>7, <1>8, <1>10, <1>13, <2>1, <2>2 DEF PPUnstruck
<1> QED BY <1>4, <1>10, <1>11, <1>12, <1>15, <1>16
-----------------------------------------------------------------------------
(* The handlers of the port: the ids stay in order, and how the line shows *)
(* in the dates and the fights.                                            *)
LEMMA PPParts ==
  ASSUME NEW b, PPGood(b)
  PROVE  /\ b \in PPBattle
         /\ b.m_fight \in Seq(PPFight) /\ Len(b.m_fight) \in Nat
         /\ b.m_pc \in Seq(Who) /\ Len(b.m_pc) \in Nat
         /\ \A i \in 1..Len(b.m_fight) : /\ b.m_fight[i] \in PPFight
                                         /\ b.m_fight[i].m_sourceId \in 1..Len(b.m_pc)
                                         /\ b.m_fight[i].m_targetId \in 1..Len(b.m_pc)
<1>1. b \in PPBattle /\ PPFightsOver(b.m_fight, Len(b.m_pc))
  BY DEF PPGood
<1>2. b.m_fight \in Seq(PPFight) /\ b.m_pc \in Seq(Who)
  BY <1>1 DEF PPBattle
<1> QED BY <1>1, <1>2 DEF PPFightsOver

LEMMA PcMoreTransitive ==
  ASSUME NEW b, NEW e, NEW c, Len(b.m_pc) \in Nat, Len(e.m_pc) \in Nat, Len(c.m_pc) \in Nat,
         PcMore(b, e), PcMore(e, c)
  PROVE  PcMore(b, c)
BY DEF PcMore

LEMMA PPStruckFrom ==
  ASSUME NEW b, PPGood(b), NEW e, PPGood(e), NEW c, PPGood(c), NEW d, PPGood(d),
         PcMore(b, e), e.m_fight = b.m_fight, d.m_pc = c.m_pc, d.m_fight = c.m_fight
  PROVE  /\ PPUnstruck(e, c) => PPUnstruck(b, d)
         /\ \A i : PPStruck(e, c, i) => PPStruck(b, d, i)
<1>1. Len(b.m_pc) \in Nat /\ Len(e.m_pc) \in Nat /\ Len(c.m_pc) \in Nat
  BY PPParts
<1>2. PcMore(e, c) => PcMore(b, d)
  <2>1. PcMore(e, c) => PcMore(b, c)
    BY <1>1, PcMoreTransitive
  <2> QED BY <2>1 DEF PcMore
<1>3. PPUnstruck(e, c) => PPUnstruck(b, d)
  BY <1>2 DEF PPUnstruck
<1>4. ASSUME NEW i, PPStruck(e, c, i) PROVE PPStruck(b, d, i)
  BY <1>2, <1>4 DEF PPStruck
<1> QED BY <1>3, <1>4

LEMMA PPGoodSame ==
  ASSUME NEW b, PPGood(b), NEW c \in PPBattle, c.m_pc = b.m_pc, c.m_fight = b.m_fight
  PROVE  PPGood(c)
BY DEF PPGood

LEMMA PPMeleeStrikes ==
  ASSUME NEW b, PPGood(b), NEW d \in Int, d > -1, PPWithin(b, d), NEW a, a.damage \in Nat,
         a.source \in Who, a.target \in Name, ~PP!IsBlow(a)
  PROVE  LET m == PP!Melee(b, d, a)
             s == PP!Id(m.m_pc, a.source)
             t == PP!Id(m.m_pc, a.target)
         IN  /\ PPGood(m) /\ PPBegun(m, d) /\ Prolonged(b, m, d)
             /\ \E i : PPStruck(b, m, i)
             /\ s # 0 /\ t # 0 /\ PP!FightId(m.m_fight, s, t) # 0
<1> DEFINE e == PP!Engage(b, d, a)
           s == PP!Id(e.m_pc, a.source)
           t == PP!Id(e.m_pc, a.target)
           share == PP!ShareOf(e, a)
           c == PP!Count(e, d, a, share \union {"melee"})
           last == [x \in PP!Special |-> IF x \in share THEN 0 ELSE c.m_last[x]]
           k == [c EXCEPT !.m_last = last]
           m == PP!Keepalive(k, d)
<1>1. PP!Melee(b, d, a) = m
  BY DEF PP!Melee
<1>2. /\ PPGood(e) /\ PcMore(b, e) /\ e.m_fight = b.m_fight
      /\ Opening(b, e, d) /\ PPBegun(e, d)
      /\ s \in 0..Len(e.m_pc) /\ s # 0 /\ t \in 0..Len(e.m_pc) /\ t # 0
  BY PPEngageFinds
<1> HIDE DEF e
<1>3. s \in 1..Len(e.m_pc) /\ t \in 1..Len(e.m_pc)
  BY <1>2
<1> DEFINE shares == share \union {"melee"}
<1>4. "melee" \in shares
  OBVIOUS
<1> HIDE DEF share, shares
<1>5. /\ PPGood(c) /\ c.m_pc = e.m_pc
      /\ c.m_start = e.m_start /\ c.m_end = e.m_end /\ c.m_expire = e.m_expire
      /\ PP!FightId(c.m_fight, s, t) # 0
      /\ \E i : PPStruck(e, c, i)
  <2>1. c = PP!Count(e, d, a, shares)
    BY DEF shares
  <2> HIDE DEF c, s, t
  <2> QED BY <1>2, <1>3, <1>4, <2>1, PPCountStrikes DEF s, t
<1> HIDE DEF c
<1>6. last \in [PP!Special -> Nat] /\ c \in PPBattle
  BY <1>5 DEF PPGood, PPBattle
<1> HIDE DEF last
<1>7. /\ k \in PPBattle /\ k.m_pc = c.m_pc /\ k.m_fight = c.m_fight
      /\ k.m_start = c.m_start /\ k.m_end = c.m_end /\ k.m_expire = c.m_expire
  BY <1>6 DEF PPBattle
<1> HIDE DEF k
<1>8. m \in PPBattle /\ m.m_pc = c.m_pc /\ m.m_fight = c.m_fight
  BY <1>7, PPKeepaliveSets
<1>9. Prolonged(b, m, d) /\ PPBegun(m, d)
  <2>1. Joined(b, k, d) /\ PPBegun(k, d)
    BY <1>2, <1>5, <1>7 DEF Opening, Joined, PPBegun
  <2> HIDE DEF m
  <2> QED BY <1>7, <2>1, PPKeepaliveProlongs DEF m
<1> HIDE DEF m
<1>10. PPGood(m)
  BY <1>5, <1>8, PPGoodSame
<1>11. \E i : PPStruck(b, m, i)
  BY <1>2, <1>5, <1>8, <1>10, PPStruckFrom
<1>12. PP!Id(m.m_pc, a.source) = s /\ PP!Id(m.m_pc, a.target) = t
  BY <1>5, <1>8
<1> HIDE DEF s, t
<1> QED BY <1>1, <1>2, <1>5, <1>8, <1>9, <1>10, <1>11, <1>12

(* A spell is counted as melee, and again in the share of magic alone, which *)
(* the totals do not show.                                                  *)
LEMMA PPMagicStrikes ==
  ASSUME NEW b, PPGood(b), NEW d \in Int, d > -1, PPWithin(b, d), NEW a, a.damage \in Nat,
         a.source \in Who, a.target \in Name, ~PP!IsBlow(a)
  PROVE  LET m == PP!Magic(b, d, a)
         IN  /\ PPGood(m) /\ PPBegun(m, d) /\ Prolonged(b, m, d)
             /\ \E i : PPStruck(b, m, i)
<1> DEFINE q == PP!Melee(b, d, a)
           e == PP!Engage(q, d, a)
           s == PP!Id(e.m_pc, a.source)
           t == PP!Id(e.m_pc, a.target)
           c == PP!Count(e, d, a, {"magic"})
           m == PP!Keepalive(c, d)
<1>1. PP!Magic(b, d, a) = m
  BY DEF PP!Magic
<1>2. /\ PPGood(q) /\ PPBegun(q, d) /\ Prolonged(b, q, d)
      /\ \E i : PPStruck(b, q, i)
      /\ PP!Id(q.m_pc, a.source) # 0 /\ PP!Id(q.m_pc, a.target) # 0
      /\ PP!FightId(q.m_fight, PP!Id(q.m_pc, a.source), PP!Id(q.m_pc, a.target)) # 0
  BY PPMeleeStrikes
<1> HIDE DEF q
<1>3. /\ PPGood(e) /\ e.m_fight = q.m_fight /\ Opening(q, e, d) /\ PPBegun(e, d)
      /\ s \in 0..Len(e.m_pc) /\ s # 0 /\ t \in 0..Len(e.m_pc) /\ t # 0
      /\ e.m_pc = q.m_pc
  BY <1>2, PPEngageFinds DEF PPWithin
<1> HIDE DEF e
<1>4. s \in 1..Len(e.m_pc) /\ t \in 1..Len(e.m_pc) /\ PP!FightId(e.m_fight, s, t) # 0
  BY <1>2, <1>3
<1>5. /\ PPGood(c) /\ c.m_pc = e.m_pc /\ PPUnstruck(e, c)
      /\ c.m_start = e.m_start /\ c.m_end = e.m_end /\ c.m_expire = e.m_expire
  <2> DEFINE shares == {"magic"}
  <2>1. c = PP!Count(e, d, a, shares) /\ "melee" \notin shares
    OBVIOUS
  <2> HIDE DEF c, s, t, shares
  <2> QED BY <1>3, <1>4, <2>1, PPCountStrikes DEF s, t
<1> HIDE DEF c
<1>6. c \in PPBattle
  BY <1>5 DEF PPGood
<1>7. m \in PPBattle /\ m.m_pc = c.m_pc /\ m.m_fight = c.m_fight
  BY <1>6, PPKeepaliveSets
<1>8. Prolonged(b, m, d) /\ PPBegun(m, d)
  <2>1. Joined(b, c, d) /\ PPBegun(c, d)
    BY <1>2, <1>3, <1>5 DEF Prolonged, Opening, Joined, PPBegun
  <2> HIDE DEF m
  <2> QED BY <1>6, <2>1, PPKeepaliveProlongs DEF m
<1> HIDE DEF m
<1>9. PPGood(m)
  BY <1>5, <1>7, PPGoodSame
<1>10. PICK i : PPStruck(b, q, i)
  BY <1>2
<1>11. PPStruck(b, m, i)
  <2>1. m.m_pc = q.m_pc /\ Len(m.m_fight) = Len(q.m_fight)
        /\ \A j \in 1..Len(q.m_fight) : /\ PPSameIds(q.m_fight[j], m.m_fight[j])
                                        /\ PPTotalsOf(m.m_fight[j]) = PPTotalsOf(q.m_fight[j])
    BY <1>3, <1>5, <1>7 DEF PPUnstruck
  <2>2. Len(b.m_fight) \in Nat /\ Len(q.m_fight) \in Nat
    <3>1. b.m_fight \in Seq(PPFight)
      BY DEF PPGood, PPBattle
    <3>2. q.m_fight \in Seq(PPFight)
      BY <1>2 DEF PPGood, PPBattle
    <3> QED BY <3>1, <3>2
  <2> QED BY <1>10, <2>1, <2>2 DEF PPStruck, PPSameIds, PcMore
<1> QED BY <1>1, <1>8, <1>9, <1>11

LEMMA PPUnstruckMore ==
  ASSUME NEW b, NEW c, PcMore(b, c), c.m_fight = b.m_fight
  PROVE  PPUnstruck(b, c)
BY DEF PPUnstruck, PPSameIds

LEMMA PPBlowOpens ==
  ASSUME NEW b, PPGood(b), NEW d \in Int, d > -1, PPWithin(b, d), NEW a,
         a.source \in Who, a.target \in Name, PP!IsBlow(a)
  PROVE  LET m == PP!Melee(b, d, a)
         IN  PPGood(m) /\ PPBegun(m, d) /\ Opening(b, m, d) /\ PPUnstruck(b, m)
<1> DEFINE e == PP!Engage(b, d, a)
           t == PP!Id(e.m_pc, a.target)
           m == [e EXCEPT !.m_lastFinishingBlow = t]
<1>1. PP!Melee(b, d, a) = m
  BY DEF PP!Melee
<1>2. /\ PPGood(e) /\ PcMore(b, e) /\ e.m_fight = b.m_fight
      /\ Opening(b, e, d) /\ PPBegun(e, d) /\ t \in 0..Len(e.m_pc)
  BY PPEngageFinds
<1> HIDE DEF e, t
<1>3. t \in Nat /\ e \in PPBattle
  BY <1>2, PPParts
<1>4. /\ m \in PPBattle /\ m.m_pc = e.m_pc /\ m.m_fight = e.m_fight
      /\ m.m_start = e.m_start /\ m.m_end = e.m_end /\ m.m_expire = e.m_expire
  BY <1>3 DEF PPBattle
<1> HIDE DEF m
<1>5. PPGood(m) /\ PPUnstruck(b, m)
  <2>1. PcMore(b, m) /\ m.m_fight = b.m_fight
    BY <1>2, <1>4 DEF PcMore
  <2> QED BY <1>2, <1>4, <2>1, PPGoodSame, PPUnstruckMore
<1>6. PPBegun(m, d) /\ Opening(b, m, d)
  BY <1>2, <1>4 DEF PPBegun, Opening, Joined
<1> QED BY <1>1, <1>5, <1>6

LEMMA PPHealProlongs ==
  ASSUME NEW b, PPGood(b), NEW d \in Int, d > -1, PPWithin(b, d), NEW a, a.damage \in Nat
  PROVE  LET m == PP!Heal(b, d, a)
         IN  PPGood(m) /\ PPBegun(m, d) /\ Prolonged(b, m, d) /\ PPUnstruck(b, m)
<1> DEFINE st == PP!Start(b, d)
           total == st.m_totalHeals + a.damage
           k == [st EXCEPT !.m_totalHeals = total]
           m == PP!Keepalive(k, d)
<1>1. PP!Heal(b, d, a) = m
  BY DEF PP!Heal
<1>2. /\ st \in PPBattle /\ st.m_pc = b.m_pc /\ st.m_fight = b.m_fight
      /\ Opening(b, st, d) /\ PPBegun(st, d)
  BY PPParts, PPStartOpens
<1> HIDE DEF st
<1>3. total \in Nat
  BY <1>2 DEF PPBattle
<1> HIDE DEF total
<1>4. /\ k \in PPBattle /\ k.m_pc = b.m_pc /\ k.m_fight = b.m_fight
      /\ k.m_start = st.m_start /\ k.m_end = st.m_end /\ k.m_expire = st.m_expire
  BY <1>2, <1>3 DEF PPBattle
<1> HIDE DEF k
<1>5. m \in PPBattle /\ m.m_pc = b.m_pc /\ m.m_fight = b.m_fight
  BY <1>4, PPKeepaliveSets
<1>6. Prolonged(b, m, d) /\ PPBegun(m, d)
  <2>1. Joined(b, k, d) /\ PPBegun(k, d)
    BY <1>2, <1>4 DEF Opening, Joined, PPBegun
  <2> QED BY <1>4, <2>1, PPKeepaliveProlongs
<1> HIDE DEF m
<1>7. PPGood(m) /\ PPUnstruck(b, m)
  <2>1. PcMore(b, m)
    BY <1>5, PPParts DEF PcMore
  <2> QED BY <1>5, <2>1, PPGoodSame, PPUnstruckMore
<1> QED BY <1>1, <1>6, <1>7

LEMMA PPDieProlongs ==
  ASSUME NEW b, PPGood(b), NEW d \in Int, d > -1, PPWithin(b, d), NEW a,
         a.source \in Who \union {NoName}, a.target \in Name
  PROVE  LET m == PP!Die(b, d, a)
         IN  PPGood(m) /\ PPBegun(m, d) /\ Prolonged(b, m, d) /\ PPUnstruck(b, m)
<1> DEFINE e == PP!Engage(b, d, a)
           s == PP!Id(e.m_pc, a.source)
           t == PP!Id(e.m_pc, a.target)
           finishing == t = e.m_lastFinishingBlow
           death == [m_sourceId |-> s, m_targetId |-> t, m_finishingBlow |-> finishing]
           deaths == Append(e.m_death, death)
           blow == IF finishing THEN PP!NoId ELSE e.m_lastFinishingBlow
           k == [e EXCEPT !.m_death = deaths, !.m_lastFinishingBlow = blow]
           m == PP!Keepalive(k, d)
<1>1. PP!Die(b, d, a) = m
  BY DEF PP!Die
<1>2. /\ PPGood(e) /\ PcMore(b, e) /\ e.m_fight = b.m_fight
      /\ Opening(b, e, d) /\ PPBegun(e, d)
      /\ s \in 0..Len(e.m_pc) /\ t \in 0..Len(e.m_pc)
  BY PPEngageFinds
<1> HIDE DEF e, s, t
<1>3. e \in PPBattle /\ s \in Nat /\ t \in Nat
  BY <1>2, PPParts
<1>4. deaths \in Seq(PPDeath) /\ blow \in Nat
  <2>1. finishing \in BOOLEAN
    OBVIOUS
  <2> HIDE DEF finishing
  <2>2. death \in PPDeath
    BY <1>3, <2>1 DEF PPDeath
  <2> HIDE DEF death
  <2>3. e.m_death \in Seq(PPDeath) /\ e.m_lastFinishingBlow \in Nat
    BY <1>3 DEF PPBattle
  <2> QED BY <2>2, <2>3 DEF PP!NoId
<1> HIDE DEF deaths, blow
<1>5. /\ k \in PPBattle /\ k.m_pc = e.m_pc /\ k.m_fight = b.m_fight
      /\ k.m_start = e.m_start /\ k.m_end = e.m_end /\ k.m_expire = e.m_expire
  BY <1>2, <1>3, <1>4 DEF PPBattle
<1> HIDE DEF k
<1>6. m \in PPBattle /\ m.m_pc = e.m_pc /\ m.m_fight = b.m_fight
  BY <1>5, PPKeepaliveSets
<1>7. Prolonged(b, m, d) /\ PPBegun(m, d)
  <2>1. Joined(b, k, d) /\ PPBegun(k, d)
    BY <1>2, <1>5 DEF Opening, Joined, PPBegun
  <2> QED BY <1>5, <2>1, PPKeepaliveProlongs
<1> HIDE DEF m
<1>8. PPGood(m) /\ PPUnstruck(b, m)
  <2>1. PcMore(b, m)
    BY <1>2, <1>6 DEF PcMore
  <2> QED BY <1>2, <1>6, <2>1, PPGoodSame, PPUnstruckMore
<1> QED BY <1>1, <1>7, <1>8

LEMMA PPAnnounceKeeps ==
  ASSUME NEW b, PPGood(b), NEW a, a.damage \in Nat, a.type \in DOMAIN PP!SpecialOf
  PROVE  LET m == PP!Announce(b, a)
         IN  /\ PPGood(m) /\ PPUnstruck(b, m)
             /\ m.m_start = b.m_start /\ m.m_end = b.m_end /\ m.m_expire = b.m_expire
<1> DEFINE class == PP!SpecialOf[a.type]
           last  == [b.m_last EXCEPT ![class] = a.damage]
           m     == [b EXCEPT !.m_last = last]
<1>1. PP!Announce(b, a) = m
  BY DEF PP!Announce
<1>2. b \in PPBattle /\ Len(b.m_pc) \in Nat
  BY PPParts
<1>3. last \in [PP!Special -> Nat]
  BY <1>2 DEF PPBattle
<1> HIDE DEF last
<1>4. /\ m \in PPBattle /\ m.m_pc = b.m_pc /\ m.m_fight = b.m_fight
      /\ m.m_start = b.m_start /\ m.m_end = b.m_end /\ m.m_expire = b.m_expire
  BY <1>2, <1>3 DEF PPBattle
<1> HIDE DEF m
<1>5. PcMore(b, m)
  BY <1>2, <1>4 DEF PcMore
<1> QED BY <1>1, <1>4, <1>5, PPGoodSame, PPUnstruckMore
-----------------------------------------------------------------------------
(* The accounts of a battle of the port. *)
LEMMA PPPairsDiffer ==
  ASSUME NEW b, PPGood(b), NEW i \in 1..Len(b.m_fight), NEW j \in 1..Len(b.m_fight),
         PPPairOf(b, b.m_fight[i]) = PPPairOf(b, b.m_fight[j])
  PROVE  i = j
<1>1. /\ b.m_fight[i].m_sourceId = b.m_fight[j].m_sourceId
      /\ b.m_fight[i].m_targetId = b.m_fight[j].m_targetId
  BY PPParts DEF PPPairOf, PPGood, Distinct
<1> QED BY <1>1 DEF PPGood, PPFightsOver

LEMMA AccountPPIs ==
  ASSUME NEW b, PPGood(b)
  PROVE  /\ AccountPP(b) = [p \in DOMAIN AccountPP(b) |-> AccountPP(b)[p]]
         /\ DOMAIN AccountPP(b) = {PPPairOf(b, b.m_fight[i]) : i \in 1..Len(b.m_fight)}
         /\ \A i \in 1..Len(b.m_fight) :
              AccountPP(b)[PPPairOf(b, b.m_fight[i])] = PPTotalsOf(b.m_fight[i])
<1> DEFINE n == Len(b.m_fight)
           pair(f) == PPPairOf(b, f)
           T(p) == {i \in 1..n : pair(b.m_fight[i]) = p}
           IndexOf(p) == IF T(p) # {} THEN Min(T(p)) ELSE 0
           Pairs == {pair(f) : f \in Range(b.m_fight)}
<1>1. AccountPP(b) = [p \in Pairs |-> PPTotalsOf(b.m_fight[IndexOf(p)])]
  BY DEF AccountPP, PPPairOf, PPTotalsOf, SelectInSeq
<1>2. b.m_fight \in Seq(PPFight) /\ n \in Nat
  BY PPParts
<1>3. Pairs = {pair(b.m_fight[i]) : i \in 1..n}
  <2>1. Range(b.m_fight) = {b.m_fight[i] : i \in 1..n}
    BY <1>2 DEF Range
  <2> QED BY <2>1
<1>4. ASSUME NEW i \in 1..n
      PROVE  IndexOf(pair(b.m_fight[i])) = i
  <2> DEFINE S == T(pair(b.m_fight[i]))
  <2>1. S \in SUBSET (1..n) /\ S # {} /\ \A j \in S : j = i
    BY PPPairsDiffer
  <2> HIDE DEF S
  <2>2. (IF S # {} THEN Min(S) ELSE 0) \in S
    BY <1>2, <2>1, FirstOf
  <2> QED BY <2>1, <2>2 DEF S
<1> HIDE DEF IndexOf, T
<1>5. ASSUME NEW i \in 1..n
      PROVE  AccountPP(b)[pair(b.m_fight[i])] = PPTotalsOf(b.m_fight[i])
  <2>1. pair(b.m_fight[i]) \in Pairs
    BY <1>3
  <2> HIDE DEF Pairs, pair
  <2> QED BY <1>1, <1>4, <2>1
<1>6. /\ AccountPP(b) = [p \in DOMAIN AccountPP(b) |-> AccountPP(b)[p]]
      /\ DOMAIN AccountPP(b) = Pairs
  <2> HIDE DEF Pairs
  <2> QED BY <1>1
<1> QED BY <1>3, <1>5, <1>6

LEMMA PPSamePairs ==
  ASSUME NEW b, PPGood(b), NEW c, PcMore(b, c), NEW j \in 1..Len(b.m_fight),
         PPSameIds(b.m_fight[j], c.m_fight[j])
  PROVE  PPPairOf(c, c.m_fight[j]) = PPPairOf(b, b.m_fight[j])
<1> DEFINE f == b.m_fight[j]
           g == c.m_fight[j]
<1>1. f.m_sourceId \in 1..Len(b.m_pc) /\ f.m_targetId \in 1..Len(b.m_pc)
  BY PPParts
<1>2. g.m_sourceId = f.m_sourceId /\ g.m_targetId = f.m_targetId
  BY DEF PPSameIds
<1> HIDE DEF f, g
<1>3. PPPairOf(c, g) = PPPairOf(b, f)
  BY <1>1, <1>2 DEF PcMore, PPPairOf
<1> QED BY <1>3 DEF f, g

LEMMA AccountPPSame ==
  ASSUME NEW b, PPGood(b), NEW c, PPGood(c), PPUnstruck(b, c)
  PROVE  AccountPP(c) = AccountPP(b)
<1> DEFINE n == Len(b.m_fight)
           m == Len(c.m_fight)
           pb == [j \in 1..n |-> PPPairOf(b, b.m_fight[j])]
           pc == [j \in 1..m |-> PPPairOf(c, c.m_fight[j])]
<1>1. /\ m = n
      /\ \A j \in 1..n : pc[j] = pb[j] /\ PPTotalsOf(c.m_fight[j]) = PPTotalsOf(b.m_fight[j])
  BY PPSamePairs DEF PPUnstruck
<1>2. /\ AccountPP(b) = [p \in DOMAIN AccountPP(b) |-> AccountPP(b)[p]]
      /\ DOMAIN AccountPP(b) = {pb[i] : i \in 1..n}
      /\ \A i \in 1..n : AccountPP(b)[pb[i]] = PPTotalsOf(b.m_fight[i])
  BY AccountPPIs, ZenonT(60)
<1>3. /\ AccountPP(c) = [p \in DOMAIN AccountPP(c) |-> AccountPP(c)[p]]
      /\ DOMAIN AccountPP(c) = {pc[i] : i \in 1..m}
      /\ \A i \in 1..m : AccountPP(c)[pc[i]] = PPTotalsOf(c.m_fight[i])
  BY AccountPPIs, ZenonT(60)
<1> HIDE DEF n, m, pb, pc
<1>4. DOMAIN AccountPP(c) = DOMAIN AccountPP(b)
  BY <1>1, <1>2, <1>3
<1>5. ASSUME NEW p \in DOMAIN AccountPP(b)
      PROVE  AccountPP(c)[p] = AccountPP(b)[p]
  <2>1. PICK i \in 1..n : p = pb[i]
    BY <1>2
  <2> QED BY <1>1, <1>2, <1>3, <2>1
<1> QED BY <1>2, <1>3, <1>4, <1>5

LEMMA AccountPPStruck ==
  ASSUME NEW b, PPGood(b), NEW c, PPGood(c), NEW i, PPStruck(b, c, i)
  PROVE  LET p == PPPairOf(c, c.m_fight[i])
         IN  p \in Who \X Who /\ Entered(AccountPP(b), AccountPP(c), p)
<1> DEFINE n == Len(b.m_fight)
           m == Len(c.m_fight)
           pb == [j \in 1..n |-> PPPairOf(b, b.m_fight[j])]
           pc == [j \in 1..m |-> PPPairOf(c, c.m_fight[j])]
           tb == [j \in 1..n |-> PPTotalsOf(b.m_fight[j])]
           tc == [j \in 1..m |-> PPTotalsOf(c.m_fight[j])]
           p  == pc[i]
<1>1. /\ n \in Nat /\ m \in Nat /\ i \in 1..m
      /\ m = n \/ (m = n + 1 /\ i = m)
  BY PPParts DEF PPStruck
<1>2. /\ \A j \in 1..n : j \in 1..m
      /\ \A j \in 1..m : j \in 1..n \/ j = i
  BY <1>1
<1>3. /\ \A j \in 1..n : pc[j] = pb[j]
      /\ \A j \in 1..n : j # i => tc[j] = tb[j]
      /\ OneMore(IF i \in 1..n THEN tb[i] ELSE Ledger!Totals, tc[i])
  BY <1>1, <1>2, PPSamePairs DEF PPStruck
<1>4. /\ DOMAIN AccountPP(b) = {pb[j] : j \in 1..n}
      /\ \A j \in 1..n : AccountPP(b)[pb[j]] = tb[j]
  BY AccountPPIs, ZenonT(60)
<1>5. /\ DOMAIN AccountPP(c) = {pc[j] : j \in 1..m}
      /\ \A j \in 1..m : AccountPP(c)[pc[j]] = tc[j]
  BY AccountPPIs, ZenonT(60)
<1>6. \A j, k \in 1..m : pc[j] = pc[k] => j = k
  BY PPPairsDiffer
<1>7. p \in Who \X Who /\ p = PPPairOf(c, c.m_fight[i])
  <2> DEFINE f == c.m_fight[i]
  <2>1. /\ f.m_sourceId \in 1..Len(c.m_pc) /\ f.m_targetId \in 1..Len(c.m_pc)
        /\ c.m_pc \in Seq(Who)
    BY <1>1, PPParts
  <2>2. p = PPPairOf(c, f)
    BY <1>1
  <2> HIDE DEF f, p
  <2>3. PPPairOf(c, f) \in Who \X Who
    BY <2>1 DEF PPPairOf
  <2> QED BY <2>2, <2>3 DEF f
<1> HIDE DEF n, m, pb, pc, tb, tc
<1>8. p \in DOMAIN AccountPP(b) <=> i \in 1..n
  BY <1>1, <1>2, <1>3, <1>4, <1>6
<1>9. DOMAIN AccountPP(c) = DOMAIN AccountPP(b) \union {p}
  BY <1>1, <1>2, <1>3, <1>4, <1>5
<1>10. \A q \in DOMAIN AccountPP(b) \ {p} : AccountPP(c)[q] = AccountPP(b)[q]
  BY <1>1, <1>2, <1>3, <1>4, <1>5
<1>11. OneMore(IF p \in DOMAIN AccountPP(b) THEN AccountPP(b)[p] ELSE Ledger!Totals,
               AccountPP(c)[p])
  BY <1>1, <1>3, <1>4, <1>5, <1>8
<1> QED BY <1>7, <1>9, <1>10, <1>11 DEF Entered

LEMMA AccountPPEmpty ==
  ASSUME NEW b, b.m_fight = << >>
  PROVE  AccountPP(b) = Ledger!Empty
<1>1. Range(b.m_fight) = {}
  BY DEF Range
<1> QED BY <1>1 DEF AccountPP, Ledger!Empty
-----------------------------------------------------------------------------
(* The rows of what has one owner, and those of one owner after another.   *)
OwnedRows(n, own, row, o) ==
  FlattenSeq([k \in 1..n |-> IF own[k] = o THEN << row[k] >> ELSE << >>])
GroupedRows(n, m, own, row) == FlattenSeq([o \in 1..m |-> OwnedRows(n, own, row, o)])

LEMMA OwnedRange ==
  ASSUME NEW n \in Nat, NEW own, NEW row, NEW o
  PROVE  LET rows == OwnedRows(n, own, row, o)
         IN  /\ rows \in Seq({row[k] : k \in 1..n})
             /\ \A x : x \in Range(rows) <=> \E k \in 1..n : own[k] = o /\ x = row[k]
<1> DEFINE S == {row[k] : k \in 1..n}
           Part(k) == IF own[k] = o THEN << row[k] >> ELSE << >>
           seqs == [k \in 1..n |-> Part(k)]
<1>1. ASSUME NEW k \in 1..n
      PROVE  /\ Part(k) \in Seq(S)
             /\ \A x : x \in Range(Part(k)) <=> own[k] = o /\ x = row[k]
  <2> DEFINE r == row[k]
  <2>1. r \in S
    OBVIOUS
  <2> HIDE DEF r, S
  <2>2. << r >> \in Seq(S) /\ << >> \in Seq(S)
    BY <2>1
  <2>3. DOMAIN << r >> = {1} /\ DOMAIN << >> = {} /\ << r >>[1] = r
    OBVIOUS
  <2>4. (\A x : x \in Range(<< r >>) <=> x = r) /\ Range(<< >>) = {}
    BY <2>3 DEF Range
  <2>5. CASE own[k] = o
    BY <2>2, <2>4, <2>5 DEF r
  <2>6. CASE own[k] # o
    BY <2>2, <2>4, <2>6 DEF r
  <2> QED BY <2>5, <2>6
<1> HIDE DEF S, Part
<1>2. seqs \in Seq(Seq(S)) /\ Len(seqs) = n /\ \A k \in 1..n : seqs[k] = Part(k)
  <2>1. seqs \in [1..n -> Seq(S)]
    BY <1>1
  <2> QED BY <2>1
<1>3. OwnedRows(n, own, row, o) = FlattenSeq(seqs)
  BY DEF OwnedRows, Part
<1> HIDE DEF seqs
<1>4. /\ FlattenSeq(seqs) \in Seq(S)
      /\ \A x : x \in Range(FlattenSeq(seqs)) <=> \E k \in 1..Len(seqs) : x \in Range(seqs[k])
  BY <1>2, FlattenRange
<1>5. \A x : x \in Range(FlattenSeq(seqs)) <=> \E k \in 1..n : own[k] = o /\ x = row[k]
  BY <1>1, <1>2, <1>4
<1> QED BY <1>3, <1>4, <1>5 DEF S

LEMMA GroupedRange ==
  ASSUME NEW n \in Nat, NEW m \in Nat, NEW own, \A k \in 1..n : own[k] \in 1..m, NEW row
  PROVE  \A x : x \in Range(GroupedRows(n, m, own, row)) <=> \E k \in 1..n : x = row[k]
<1> DEFINE S == {row[k] : k \in 1..n}
           seqs == [o \in 1..m |-> OwnedRows(n, own, row, o)]
<1>1. \A o \in 1..m : /\ OwnedRows(n, own, row, o) \in Seq(S)
                      /\ \A x : x \in Range(OwnedRows(n, own, row, o))
                                  <=> \E k \in 1..n : own[k] = o /\ x = row[k]
  BY OwnedRange
<1> HIDE DEF S
<1>2. seqs \in Seq(Seq(S)) /\ Len(seqs) = m
      /\ \A o \in 1..m : seqs[o] = OwnedRows(n, own, row, o)
  <2>1. seqs \in [1..m -> Seq(S)]
    BY <1>1
  <2> QED BY <2>1
<1>3. GroupedRows(n, m, own, row) = FlattenSeq(seqs)
  BY DEF GroupedRows
<1> HIDE DEF seqs
<1>4. \A x : x \in Range(FlattenSeq(seqs)) <=> \E o \in 1..m : x \in Range(seqs[o])
  BY <1>2, FlattenRange
<1>5. \A x : x \in Range(FlattenSeq(seqs)) <=> \E k \in 1..n : x = row[k]
  BY <1>1, <1>2, <1>4
<1> QED BY <1>3, <1>5

(* What is printed row by row is the account the rows are of. *)
LEMMA RowsPrinted ==
  ASSUME NEW acc, NEW report,
         \A r \in Range(report.rows) : /\ <<r.source, r.target>> \in DOMAIN acc
                                       /\ r.hits = acc[<<r.source, r.target>>].hits
                                       /\ r.damage = acc[<<r.source, r.target>>].damage,
         \A q \in DOMAIN acc : \E r \in Range(report.rows) : <<r.source, r.target>> = q
  PROVE  AccountPrinted(report) = Ledger!Public(acc)
<1> DEFINE R == Range(report.rows)
           pair(r) == <<r.source, r.target>>
           D == {pair(r) : r \in R}
           RowOf(q) == CHOOSE r \in R : pair(r) = q
<1>1. AccountPrinted(report) = [q \in D |-> [hits |-> RowOf(q).hits, damage |-> RowOf(q).damage]]
  BY DEF AccountPrinted
<1>2. Ledger!Public(acc) = [q \in DOMAIN acc |-> [hits |-> acc[q].hits, damage |-> acc[q].damage]]
  BY DEF Ledger!Public
<1>3. D = DOMAIN acc
  OBVIOUS
<1>4. ASSUME NEW q \in DOMAIN acc
      PROVE  RowOf(q).hits = acc[q].hits /\ RowOf(q).damage = acc[q].damage
  <2>1. RowOf(q) \in R /\ pair(RowOf(q)) = q
    OBVIOUS
  <2> HIDE DEF RowOf
  <2> QED BY <2>1
<1> HIDE DEF D, RowOf
<1> QED BY <1>1, <1>2, <1>3, <1>4

(* What the port's report prints is the account the ledger publishes. *)
LEMMA PPRowsRange ==
  ASSUME NEW b, PPGood(b)
  PROVE  \A x : x \in Range(PP!Rows(b))
                  <=> \E i \in 1..Len(b.m_fight) : x = PP!Row(b, b.m_fight[i])
<1> DEFINE n == Len(b.m_fight)
           m == Len(b.m_pc)
           own == [k \in 1..n |-> IF ReportByTarget THEN b.m_fight[k].m_targetId
                                  ELSE b.m_fight[k].m_sourceId]
           row == [k \in 1..n |-> PP!Row(b, b.m_fight[k])]
<1>1. \A s : PP!FlattenSeq(s) = FlattenSeq(s)
  BY DEF PP!FlattenSeq, FlattenSeq
<1>2. PP!Rows(b) = GroupedRows(n, m, own, row)
  <2>1. PP!Rows(b) = FlattenSeq([o \in 1..m |-> FlattenSeq([k \in 1..n |->
                       IF (IF ReportByTarget THEN b.m_fight[k].m_targetId
                           ELSE b.m_fight[k].m_sourceId) = o
                       THEN << PP!Row(b, b.m_fight[k]) >> ELSE << >>])])
    BY <1>1 DEF PP!Rows
  <2>2. ASSUME NEW o \in 1..m
        PROVE  FlattenSeq([k \in 1..n |->
                       IF (IF ReportByTarget THEN b.m_fight[k].m_targetId
                           ELSE b.m_fight[k].m_sourceId) = o
                       THEN << PP!Row(b, b.m_fight[k]) >> ELSE << >>])
                 = OwnedRows(n, own, row, o)
    BY DEF OwnedRows
  <2> QED BY <2>1, <2>2 DEF GroupedRows
<1>3. n \in Nat /\ m \in Nat /\ \A k \in 1..n : own[k] \in 1..m
  BY PPParts
<1>4. \A k \in 1..n : row[k] = PP!Row(b, b.m_fight[k])
  OBVIOUS
<1> HIDE DEF n, m, own, row
<1>5. \A x : x \in Range(GroupedRows(n, m, own, row)) <=> \E k \in 1..n : x = row[k]
  BY <1>3, GroupedRange
<1> QED BY <1>2, <1>4, <1>5 DEF n

LEMMA PPPrinted ==
  ASSUME NEW b, PPGood(b), NEW report, report.rows = PP!Rows(b)
  PROVE  AccountPrinted(report) = Ledger!Public(AccountPP(b))
<1> DEFINE n == Len(b.m_fight)
           row(i) == PP!Row(b, b.m_fight[i])
           p(i) == PPPairOf(b, b.m_fight[i])
           acc == AccountPP(b)
<1>1. \A i \in 1..n : /\ <<row(i).source, row(i).target>> = p(i)
                      /\ row(i).hits = PPTotalsOf(b.m_fight[i]).hits
                      /\ row(i).damage = PPTotalsOf(b.m_fight[i]).damage
  BY DEF PP!Row, PPPairOf, PPTotalsOf
<1>2. DOMAIN acc = {p(i) : i \in 1..n} /\ \A i \in 1..n : acc[p(i)] = PPTotalsOf(b.m_fight[i])
  BY AccountPPIs
<1>3. \A x : x \in Range(report.rows) <=> \E i \in 1..n : x = row(i)
  BY PPRowsRange
<1> HIDE DEF n, row, p, acc
<1>4. ASSUME NEW r \in Range(report.rows)
      PROVE  /\ <<r.source, r.target>> \in DOMAIN acc
             /\ r.hits = acc[<<r.source, r.target>>].hits
             /\ r.damage = acc[<<r.source, r.target>>].damage
  <2>1. PICK i \in 1..n : r = row(i)
    BY <1>3
  <2> QED BY <1>1, <1>2, <2>1
<1>5. ASSUME NEW q \in DOMAIN acc
      PROVE  \E r \in Range(report.rows) : <<r.source, r.target>> = q
  <2>1. PICK i \in 1..n : q = p(i)
    BY <1>2
  <2>2. row(i) \in Range(report.rows)
    BY <1>3
  <2> QED BY <1>1, <2>1, <2>2
<1> QED BY <1>4, <1>5, RowsPrinted DEF acc
-----------------------------------------------------------------------------
(* One more report, as the ledger publishes it. *)
LEMMA PublishedOne ==
  ASSUME NEW out, IsSeq(out), NEW r
  PROVE  /\ IsSeq(out \o << r >>)
         /\ Published(out \o << r >>) = Append(Published(out), AccountPrinted(r))
<1> DEFINE S == Range(out) \union {r}
           n == Len(out)
           more == out \o << r >>
           pub  == Published(out)
           last == AccountPrinted(r)
<1>1. out \in Seq(S) /\ n \in Nat
  <2> DEFINE R == Range(out)
  <2>1. out \in Seq(R)
    BY DEF IsSeq
  <2> HIDE DEF R
  <2>2. out \in Seq(R \union {r}) /\ n \in Nat
    BY <2>1
  <2> QED BY <2>2 DEF R
<1>2. r \in S
  OBVIOUS
<1> HIDE DEF S
<1>3. /\ more \in Seq(S) /\ Len(more) = n + 1
      /\ \A k \in 1..n : more[k] = out[k]
      /\ more[n + 1] = r
  BY <1>1, <1>2
<1> HIDE DEF more, last
<1>4. IsSeq(more)
  BY <1>3, SeqIsSeq
<1>5. Published(more) = [k \in 1..(n + 1) |-> AccountPrinted(more[k])]
  BY <1>3 DEF Published
<1>6. pub = [k \in 1..n |-> AccountPrinted(out[k])]
  BY DEF Published
<1>7. Len(pub) = n
  <2> HIDE DEF pub
  <2> QED BY <1>1, <1>6
<1>8. Append(pub, last) = [k \in 1..(n + 1) |-> IF k = n + 1 THEN last ELSE pub[k]]
  <2> DEFINE T == {pub[k] : k \in 1..n} \union {last}
             app == Append(pub, last)
  <2>1. pub \in Seq(T) /\ last \in T
    <3>1. pub = [k \in 1..n |-> pub[k]] /\ \A k \in 1..n : pub[k] \in T
      BY <1>6
    <3> HIDE DEF pub, T
    <3>2. pub \in [1..n -> T]
      BY <3>1
    <3> QED BY <1>1, <3>2 DEF T
  <2> HIDE DEF pub, T
  <2>2. /\ app \in Seq(T) /\ Len(app) = n + 1 /\ app[n + 1] = last
        /\ \A k \in 1..n : app[k] = pub[k]
    BY <1>7, <2>1, AppendProperties
  <2>3. app = [k \in 1..(n + 1) |-> app[k]]
    <3> HIDE DEF app
    <3> QED BY <2>2
  <2> HIDE DEF app
  <2>4. \A k \in 1..(n + 1) : app[k] = IF k = n + 1 THEN last ELSE pub[k]
    BY <1>1, <2>2
  <2> QED BY <2>3, <2>4 DEF app
<1>9. \A k \in 1..(n + 1) : AccountPrinted(more[k]) = IF k = n + 1 THEN last ELSE pub[k]
  <2> SUFFICES ASSUME NEW k \in 1..(n + 1)
               PROVE  AccountPrinted(more[k]) = IF k = n + 1 THEN last ELSE pub[k]
    OBVIOUS
  <2>1. CASE k = n + 1
    BY <1>3, <2>1 DEF last
  <2>2. CASE k # n + 1
    <3>1. k \in 1..n
      BY <1>1, <2>2
    <3> HIDE DEF pub
    <3> QED BY <1>3, <1>6, <2>2, <3>1
  <2> QED BY <2>1, <2>2
<1>10. Published(more) = Append(pub, last)
  <2> HIDE DEF pub
  <2> QED BY <1>5, <1>8, <1>9
<1> QED BY <1>4, <1>10 DEF more, last

(* What the ledger of the port needs: ids and dates in order, and that what *)
(* was printed is a sequence.                                               *)
PPInv == /\ PPGood(battlePP)
         /\ date \in Int /\ date >= -1
         /\ PPWithin(battlePP, date)
         /\ IsSeq(stdoutPP)

LEMMA PPNewBattle ==
  /\ PPGood(PP!NewBattle)
  /\ PP!NewBattle.m_start = -1 /\ PP!NewBattle.m_end = -1 /\ PP!NewBattle.m_fight = << >>
<1> DEFINE zero == [c \in PP!Special |-> 0]
<1>1. zero \in [PP!Special -> Nat]
  OBVIOUS
<1>2. PP!NewBattle = [m_pc |-> << >>, m_fight |-> << >>, m_death |-> << >>,
              m_start |-> -1, m_end |-> -1, m_expire |-> 0, m_totalHeals |-> 0,
              m_last |-> zero, m_lastFinishingBlow |-> 0]
  BY DEF PP!NewBattle, PP!NoId
<1> HIDE DEF zero
<1>3. /\ PP!NewBattle \in PPBattle /\ PP!NewBattle.m_pc = << >> /\ PP!NewBattle.m_fight = << >>
      /\ PP!NewBattle.m_start = -1 /\ PP!NewBattle.m_end = -1
  BY <1>1, <1>2 DEF PPBattle
<1>4. Len(<< >>) = 0 /\ << >> \in Seq(PPFight)
  OBVIOUS
<1> QED BY <1>3, <1>4 DEF PPGood, Distinct, PPFightsOver

LEMMA EmptyAccount == << >> = Ledger!Empty
BY DEF Ledger!Empty

(* The battle and the dates, in numbers. *)
LEMMA PPLedgerParts ==
  ASSUME PPInv
  PROVE  /\ battlePP.m_start \in Int /\ battlePP.m_end \in Int /\ KeepAlive \in Int
         /\ battlePP.m_start # -1 => /\ battlePP.m_start > -1 /\ PP!InProgress(battlePP)
                                     /\ battlePP.m_end - battlePP.m_start >= 0
                                     /\ battlePP.m_expire = battlePP.m_end + KeepAlive
         /\ battlePP.m_start = -1 => ~PP!InProgress(battlePP)
<1>1. battlePP.m_start \in Int /\ battlePP.m_end \in Int /\ KeepAlive \in Int
  BY PPParts, ConfigAssumption DEF PPInv, PPBattle
<1>2. CASE battlePP.m_start # -1
  <2>1. PPBegun(battlePP, date)
    BY <1>2 DEF PPInv, PPWithin
  <2> QED BY <1>1, <1>2, <2>1 DEF PPBegun, PP!InProgress, PP!Seconds
<1>3. CASE battlePP.m_start = -1
  BY <1>1, <1>3 DEF PP!InProgress, PP!Seconds
<1> QED BY <1>2, <1>3

(* A report of the port, which it makes of a battle of any length. *)
LEMMA PPReports ==
  ASSUME PPInv, runningPP, battlePP.m_start # -1
  PROVE  /\ IsSeq(stdoutPP \o PP!Report(battlePP))
         /\ Published(stdoutPP \o PP!Report(battlePP)) = LedgerPP!Publish
<1> DEFINE r == [from |-> battlePP.m_start, to |-> battlePP.m_end, rows |-> PP!Rows(battlePP)]
<1>1. PP!Report(battlePP) = << r >> /\ r.rows = PP!Rows(battlePP)
  BY DEF PP!Report
<1> HIDE DEF r
<1>2. AccountPrinted(r) = Ledger!Public(AccountPP(battlePP))
  BY <1>1, PPPrinted DEF PPInv
<1>3. LedgerPP!Publish = Append(Published(stdoutPP), Ledger!Public(AccountPP(battlePP)))
  <2>1. battlePP.m_end - battlePP.m_start >= 0
    BY PPLedgerParts
  <2> QED BY <2>1 DEF LedgerPP!Publish, Published, LedgerPP!Public, Ledger!Public
<1> QED BY <1>1, <1>2, <1>3, PublishedOne DEF PPInv

(* The battle the port's handlers find, and the ledger settled. *)
LEMMA PPSettles ==
  ASSUME PPInv, NEW d \in Int, d > -1, date <= d, date' = d, PP!Accepts(d)
  PROVE  LET b == PP!Current(d)
         IN  /\ LedgerPP!Settle /\ LedgerPP!Carried = AccountPP(b)
             /\ b.m_start = IF LedgerPP!Stale THEN -1 ELSE battlePP.m_start
             /\ b.m_end = IF LedgerPP!Stale THEN -1 ELSE battlePP.m_end
             /\ PPGood(b) /\ PPWithin(b, d)
             /\ IsSeq(stdoutPP') /\ runningPP /\ runningPP'
<1>1. /\ battlePP.m_start \in Int /\ battlePP.m_end \in Int /\ KeepAlive \in Int
      /\ battlePP.m_start # -1 => /\ battlePP.m_start > -1
                                  /\ battlePP.m_expire = battlePP.m_end + KeepAlive
      /\ date \in Int /\ PPGood(battlePP) /\ PPWithin(battlePP, date)
  BY PPLedgerParts DEF PPInv
<1>2. /\ runningPP /\ runningPP'
      /\ stdoutPP' = IF PP!IsOver(battlePP, d) THEN stdoutPP \o PP!Report(battlePP)
                     ELSE stdoutPP
  BY DEF PP!Accepts, PP!Handed
<1>3. LedgerPP!Stale <=> PP!IsOver(battlePP, d)
  BY <1>1 DEF LedgerPP!Stale, LedgerPP!Opened, PP!IsOver
<1>4. LedgerPP!Stale => battlePP.m_start # -1
  BY DEF LedgerPP!Stale, LedgerPP!Opened
<1>5. PP!Current(d) = IF LedgerPP!Stale THEN PP!NewBattle ELSE battlePP
  BY <1>3 DEF PP!Current
<1>6. /\ IsSeq(stdoutPP')
      /\ Published(stdoutPP') = IF LedgerPP!Stale THEN LedgerPP!Publish ELSE Published(stdoutPP)
  BY <1>2, <1>3, <1>4, PPReports DEF PPInv
<1>7. LedgerPP!Settle
  BY <1>1, <1>6 DEF LedgerPP!Settle, Published
<1>8. LedgerPP!Carried = AccountPP(PP!Current(d))
  <2>1. AccountPP(PP!NewBattle) = Ledger!Empty
    BY PPNewBattle, AccountPPEmpty
  <2> QED BY <1>2, <1>5, <2>1 DEF LedgerPP!Carried, LedgerPP!Empty, Ledger!Empty
<1>9. PPWithin(battlePP, d)
  <2>1. battlePP.m_end <= date => battlePP.m_end <= d
    BY <1>1
  <2> QED BY <1>1, <2>1 DEF PPWithin, PPBegun
<1> QED BY <1>1, <1>2, <1>5, <1>6, <1>7, <1>8, <1>9, PPNewBattle DEF PPWithin

(* The handlers, as entries of the port's ledger. *)
LEMMA PPSwings ==
  ASSUME LedgerPP!Settle, runningPP', NEW b, PPGood(b), LedgerPP!Carried = AccountPP(b),
         b.m_start = IF LedgerPP!Stale THEN -1 ELSE battlePP.m_start,
         PPGood(battlePP'), Prolonged(b, battlePP', date'),
         \E i : PPStruck(b, battlePP', i)
  PROVE  LedgerPP!Swing
<1>1. PICK i : PPStruck(b, battlePP', i)
  OBVIOUS
<1> DEFINE p == PPPairOf(battlePP', battlePP'.m_fight[i])
<1>2. p \in Who \X Who /\ Entered(AccountPP(b), AccountPP(battlePP'), p)
  BY <1>1, AccountPPStruck
<1> HIDE DEF p
<1>3. LedgerPP!Enter(p)
  BY <1>2 DEF LedgerPP!Enter, Entered, OneMore, LedgerPP!Totals, Ledger!Totals
<1>4. p \in DOMAIN AccountPP(battlePP')
  BY <1>2 DEF Entered
<1>5. LedgerPP!Prolongs
  BY DEF LedgerPP!Prolongs, LedgerPP!Joins, LedgerPP!Opened, Prolonged, Joined
<1> QED BY <1>2, <1>3, <1>4, <1>5 DEF LedgerPP!Swing, Who

LEMMA PPNoSwing ==
  ASSUME LedgerPP!Settle, runningPP', NEW b, PPGood(b), LedgerPP!Carried = AccountPP(b),
         b.m_start = IF LedgerPP!Stale THEN -1 ELSE battlePP.m_start,
         b.m_end = IF LedgerPP!Stale THEN -1 ELSE battlePP.m_end,
         PPGood(battlePP'), PPUnstruck(b, battlePP')
  PROVE  /\ Prolonged(b, battlePP', date') => LedgerPP!Prolong
         /\ Opening(b, battlePP', date') => LedgerPP!Blow
         /\ battlePP'.m_start = b.m_start /\ battlePP'.m_end = b.m_end => LedgerPP!Tick
<1> DEFINE account == IF runningPP THEN AccountPP(battlePP) ELSE << >>
<1>1. account' = LedgerPP!Carried
  BY AccountPPSame
<1>2. ASSUME Prolonged(b, battlePP', date') PROVE LedgerPP!Prolong
  BY <1>1, <1>2 DEF LedgerPP!Prolong, LedgerPP!Prolongs, LedgerPP!Joins, LedgerPP!Opened,
                    Prolonged, Joined
<1>3. ASSUME Opening(b, battlePP', date') PROVE LedgerPP!Blow
  BY <1>1, <1>3 DEF LedgerPP!Blow, LedgerPP!Joins, LedgerPP!Opened, Opening, Joined
<1>4. ASSUME battlePP'.m_start = b.m_start, battlePP'.m_end = b.m_end PROVE LedgerPP!Tick
  BY <1>1, <1>4 DEF LedgerPP!Tick
<1> QED BY <1>2, <1>3, <1>4

(* The line as the port's parser gives it. *)
LEMMA AsPPLine ==
  ASSUME NEW a \in LogLines
  PROVE  PPLine(AsPP(a))
<1>1. /\ a \in Action
      /\ a.type \in {"MELEE", "MAGIC"} => a.source \in Name /\ a.target \in Name
      /\ a.type = "DEATH" => a.target \in Name
  BY LogAssumption
<1>2. CASE a.type \in Evasion
  <2> DEFINE x == [a EXCEPT !.type = "UNKNOWN"]
  <2>1. AsPP(a) = x
    BY <1>2 DEF AsPP
  <2>2. /\ x.type = "UNKNOWN" /\ x.source = a.source /\ x.target = a.target
        /\ x.damage = a.damage
    BY <1>1 DEF Action
  <2> HIDE DEF x
  <2> QED BY <1>1, <2>1, <2>2 DEF PPLine, Who, Action
<1>3. CASE a.type = "MAGIC"
  <2> DEFINE x == [a EXCEPT !.source = SpellsTotal]
  <2>1. AsPP(a) = x
    BY <1>3 DEF AsPP, Evasion
  <2>2. /\ x.type = "MAGIC" /\ x.source = SpellsTotal /\ x.target = a.target
        /\ x.damage = a.damage
    BY <1>1, <1>3 DEF Action
  <2> HIDE DEF x
  <2> QED BY <1>1, <1>3, <2>1, <2>2 DEF PPLine, Who, Action
<1>4. CASE a.type \notin Evasion /\ a.type # "MAGIC"
  <2>1. AsPP(a) = a
    BY <1>4 DEF AsPP
  <2> QED BY <1>1, <1>4, <2>1 DEF PPLine, Who, Action
<1> QED BY <1>2, <1>3, <1>4

(* A line that the port accepts is a step of its ledger. *)
LEMMA PPLineEnters ==
  ASSUME DatesInOrder, PPInv, NEW d \in Dates, date <= d, date' = d,
         NEW a, PPLine(a), PP!Accepts(d), PP!TellMe(d, a)
  PROVE  PPInv' /\ LedgerPP!Next
<1> DEFINE b == PP!Current(d)
<1>1. d \in Int /\ d > -1
  <2>1. d >= Since
    BY DEF PP!Accepts
  <2> QED BY <2>1, DatesAssumption DEF DatesInOrder, PPInv
<1>2. /\ LedgerPP!Settle /\ LedgerPP!Carried = AccountPP(b)
      /\ b.m_start = IF LedgerPP!Stale THEN -1 ELSE battlePP.m_start
      /\ b.m_end = IF LedgerPP!Stale THEN -1 ELSE battlePP.m_end
      /\ PPGood(b) /\ PPWithin(b, d)
      /\ IsSeq(stdoutPP') /\ runningPP /\ runningPP'
  BY <1>1, PPSettles
<1> HIDE DEF b
<1>3. ASSUME PPGood(battlePP'), PPWithin(battlePP', d) PROVE PPInv'
  <2>1. date' \in Int /\ date' >= -1
    BY <1>1
  <2> QED BY <1>2, <1>3, <2>1 DEF PPInv, PPGood, PPWithin, PPBegun, IsSeq
<1>4. ASSUME PPGood(battlePP'), PPBegun(battlePP', d), Prolonged(b, battlePP', d),
             \E i : PPStruck(b, battlePP', i)
      PROVE  PPInv' /\ LedgerPP!Next
  BY <1>2, <1>3, <1>4, PPSwings DEF LedgerPP!Next, PPWithin
<1>5. ASSUME PPGood(battlePP'), PPBegun(battlePP', d), PPUnstruck(b, battlePP'),
             Prolonged(b, battlePP', d) \/ Opening(b, battlePP', d)
      PROVE  PPInv' /\ LedgerPP!Next
  BY <1>2, <1>3, <1>5, PPNoSwing DEF LedgerPP!Next, PPWithin
<1>6. ASSUME PPGood(battlePP'), PPWithin(battlePP', d), PPUnstruck(b, battlePP'),
             battlePP'.m_start = b.m_start, battlePP'.m_end = b.m_end
      PROVE  PPInv' /\ LedgerPP!Next
  BY <1>2, <1>3, <1>6, PPNoSwing DEF LedgerPP!Next
<1>7. CASE PP!Skip(d) \/ PP!Stop(d)
  BY <1>1, <1>7, BoundsAssumption DEF PP!Skip, PP!Stop, PP!Accepts
<1>8. CASE PP!DoMelee(d, a)
  <2>1. battlePP' = PP!Melee(b, d, a) /\ a.source \in Who /\ a.target \in Name /\ a.damage \in Nat
    BY <1>8 DEF PP!DoMelee, PPLine, b
  <2>2. CASE PP!IsBlow(a)
    BY <1>1, <1>2, <1>5, <2>1, <2>2, PPBlowOpens
  <2>3. CASE ~PP!IsBlow(a)
    BY <1>1, <1>2, <1>4, <2>1, <2>3, PPMeleeStrikes
  <2> QED BY <2>2, <2>3
<1>9. CASE PP!DoAnnounce(d, a)
  <2>1. /\ battlePP' = PP!Announce(b, a) /\ a.damage \in Nat
        /\ a.type \in DOMAIN PP!SpecialOf
    BY <1>9 DEF PP!DoAnnounce, PPLine, b
  <2>2. /\ PPGood(battlePP') /\ PPUnstruck(b, battlePP')
        /\ battlePP'.m_start = b.m_start /\ battlePP'.m_end = b.m_end
        /\ battlePP'.m_expire = b.m_expire
    BY <1>2, <2>1, PPAnnounceKeeps
  <2>3. PPWithin(battlePP', d)
    BY <1>2, <2>2 DEF PPWithin, PPBegun
  <2> QED BY <1>6, <2>2, <2>3
<1>10. CASE PP!DoMagic(d, a)
  <2>1. /\ battlePP' = PP!Magic(b, d, a) /\ a.source \in Who /\ a.target \in Name
        /\ a.damage \in Nat /\ ~PP!IsBlow(a)
    BY <1>10 DEF PP!DoMagic, PPLine, PP!IsBlow, b
  <2> QED BY <1>1, <1>2, <1>4, <2>1, PPMagicStrikes
<1>11. CASE PP!DoHeal(d, a)
  <2>1. battlePP' = PP!Heal(b, d, a) /\ a.damage \in Nat
    BY <1>11 DEF PP!DoHeal, PPLine, b
  <2> QED BY <1>1, <1>2, <1>5, <2>1, PPHealProlongs
<1>12. CASE PP!DoDeath(d, a)
  <2>1. battlePP' = PP!Die(b, d, a) /\ a.source \in Who \union {NoName} /\ a.target \in Name
    BY <1>12 DEF PP!DoDeath, PPLine, b
  <2> QED BY <1>1, <1>2, <1>5, <2>1, PPDieProlongs
<1>13. CASE PP!DoNothing(d, a)
  <2>1. battlePP' = b
    BY <1>13 DEF PP!DoNothing, b
  <2>2. PPUnstruck(b, battlePP')
    BY <1>2, <2>1, PPParts, PPUnstruckMore DEF PcMore
  <2> QED BY <1>2, <1>6, <2>1, <2>2
<1> QED BY <1>7, <1>8, <1>9, <1>10, <1>11, <1>12, <1>13 DEF PP!TellMe

(* The inductive step, and the step of the port's ledger. *)
LEMMA PPNextLedger ==
  ASSUME DatesInOrder, PPInv, [PairNext]_pairVars
  PROVE  PPInv' /\ [LedgerPP!Next]_(LedgerPP!ledgerVars)
<1>1. ASSUME UNCHANGED <<battlePP, stdoutPP, runningPP>>, UNCHANGED date
      PROVE  PPInv' /\ UNCHANGED LedgerPP!ledgerVars
  <2>1. UNCHANGED LedgerPP!ledgerVars
    BY <1>1 DEF LedgerPP!ledgerVars
  <2>2. PPInv'
    BY <1>1 DEF PPInv, PPGood, PPWithin, PPBegun, IsSeq
  <2> QED BY <2>1, <2>2
<1>2. CASE UNCHANGED pairVars
  BY <1>1, <1>2 DEF pairVars, vars, PP!vars
<1>3. CASE Undated /\ (PP!Undated \/ PP!Refused) /\ UNCHANGED tried
  BY <1>1, <1>3 DEF Undated, PP!Undated, PP!Refused, PP!vars
<1>4. ASSUME NEW d \in Dates, NEW a \in LogLines, Skip(d) \/ Stop(d) \/ TellMe(d, a),
             PP!TellMe(d, AsPP(a)) \/ PP!Refused
      PROVE  PPInv' /\ LedgerPP!Next
  <2>1. date' = d /\ date <= d /\ d \in Int
    <3>1. Reads(d)
      BY <1>4 DEF Skip, Stop, TellMe, DoMelee, DoMiss, DoCrit, DoCrip, DoHolyBlade, DoMagic,
                  DoHeal, DoDeath, DoNothing, Accepts
    <3> QED BY <3>1, DatesAssumption DEF Reads, DatesInOrder, PPInv
  <2>2. CASE UNCHANGED <<battlePP, stdoutPP, runningPP>>
    <3>1. LedgerPP!Ignore
      BY <2>1, <2>2 DEF LedgerPP!Ignore, PPInv
    <3>2. PPInv'
      <4>1. battlePP.m_start \in Int /\ battlePP.m_end \in Int
        BY PPLedgerParts
      <4>2. battlePP.m_end <= date => battlePP.m_end <= d
        BY <2>1, <4>1 DEF PPInv
      <4>3. date' >= -1
        BY <2>1 DEF PPInv
      <4> QED BY <2>1, <2>2, <4>2, <4>3 DEF PPInv, PPGood, PPWithin, PPBegun, IsSeq
    <3> QED BY <3>1, <3>2 DEF LedgerPP!Next
  <2>3. CASE PP!Accepts(d) /\ PP!TellMe(d, AsPP(a))
    BY <2>1, <2>3, AsPPLine, PPLineEnters
  <2>4. PP!Refused \/ PP!Skip(d) \/ PP!Stop(d) \/ PP!Accepts(d)
    BY <1>4 DEF PP!TellMe, PP!DoMelee, PP!DoAnnounce, PP!DoMagic, PP!DoHeal, PP!DoDeath,
                PP!DoNothing
  <2> QED BY <1>4, <2>2, <2>3, <2>4 DEF PP!Refused, PP!Skip, PP!Stop, PP!vars
<1>5. CASE Finish /\ PP!Finish /\ UNCHANGED tried
  <2>1. /\ runningPP /\ ~runningPP' /\ date' = date /\ battlePP' = battlePP
        /\ stdoutPP' = IF PP!InProgress(battlePP) THEN stdoutPP \o PP!Report(battlePP)
                       ELSE stdoutPP
    BY <1>5 DEF Finish, PP!Finish
  <2>2. PP!InProgress(battlePP) <=> battlePP.m_start # -1
    BY PPLedgerParts
  <2>3. /\ IsSeq(stdoutPP')
        /\ Published(stdoutPP') = IF LedgerPP!Opened THEN LedgerPP!Publish
                                  ELSE Published(stdoutPP)
    BY <2>1, <2>2, PPReports DEF PPInv, LedgerPP!Opened
  <2>4. LedgerPP!Close
    BY <2>1, <2>3, EmptyAccount DEF LedgerPP!Close, Published, LedgerPP!Empty, Ledger!Empty
  <2>5. PPInv'
    BY <2>1, <2>3 DEF PPInv, PPGood, PPWithin, PPBegun, IsSeq
  <2> QED BY <2>4, <2>5 DEF LedgerPP!Next
<1> QED BY <1>1, <1>2, <1>3, <1>4, <1>5 DEF PairNext

LEMMA PPInitLedger ==
  ASSUME PairInit
  PROVE  PPInv /\ LedgerPP!Init
<1>1. battlePP = PP!NewBattle /\ stdoutPP = << >> /\ runningPP /\ date = -1
  BY DEF PairInit, PP!Init, Init
<1>2. IsSeq(stdoutPP)
  BY <1>1 DEF IsSeq
<1>3. AccountPP(battlePP) = Ledger!Empty
  BY <1>1, PPNewBattle, AccountPPEmpty
<1>4. [k \in 1..Len(stdoutPP) |-> AccountPrinted(stdoutPP[k])] = << >>
  BY <1>1
<1>5. PPInv
  BY <1>1, <1>2, PPNewBattle DEF PPInv, PPWithin
<1> QED BY <1>1, <1>3, <1>4, <1>5, PPNewBattle DEF LedgerPP!Init, LedgerPP!Empty, Ledger!Empty

(* With dates that never step back the port keeps the ledger too, on every *)
(* log it reads beside dps: but for tries, the names of spells and battles *)
(* of any length (TellMe::operator(), Battle::report, and every handler of *)
(* battle.cpp).                                                            *)
THEOREM PortImplementsLedger ==
  ASSUME DatesInOrder
  PROVE  PairSpec => PortRefinesLedger
<1>1. PairInit => PPInv /\ LedgerPP!Init
  BY PPInitLedger
<1>2. PPInv /\ [PairNext]_pairVars => PPInv' /\ [LedgerPP!Next]_(LedgerPP!ledgerVars)
  BY PPNextLedger
<1> QED BY <1>1, <1>2, PTL DEF PairSpec, PortRefinesLedger, LedgerPP!Spec
=============================================================================
