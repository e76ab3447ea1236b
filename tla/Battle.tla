------------------------------- MODULE Battle -------------------------------
(***************************************************************************)
(* struct Battle of src/dps/battle.c: the accounting of one battle.  The   *)
(* methods of the struct are operators from a battle (and the date `now'   *)
(* of the log line and the parsed action) to the battle they leave behind. *)
(* Dps.tla drives them from the lines of a log.                            *)
(*                                                                         *)
(* An id of the code is a 0-based index of m_pc, -1 for none; here it is a *)
(* 1-based index, NoId (0) for none.                                       *)
(*                                                                         *)
(* A definition directly above another one with the same parameters, and   *)
(* named for what is wrong with it (IsOverEarly above IsOver), is a broken *)
(* variant nothing here uses: the properties must notice it.               *)
(***************************************************************************)
EXTENDS Integers, SequencesExt

CONSTANTS
  Name,            \* the names the log prints
  YouAliases,      \* the spellings "You" and "YOU" of the log's owner
  Me,              \* config.me, the name given with --me
  NoName,          \* an empty source or target
  Verb,            \* the verbs of melee lines
  KeepAlive,       \* config.keepAlive
  Extra, ByVerb, ReportByTarget,   \* the flags --extra, --by-verb, --by-target
  FinishingDamage  \* the 32000 from which a melee hit is a finishing blow

ASSUME NamesAssumption ==
  /\ NoName \notin Name
  /\ YouAliases \subseteq Name
  /\ Me \in Name
ASSUME VerbsAssumption == IsFiniteSet(Verb)   \* the table of the parser
ASSUME ConfigAssumption ==
  /\ KeepAlive \in Nat
  /\ FinishingDamage \in Nat \ {0}
  /\ {Extra, ByVerb, ReportByTarget} \subseteq BOOLEAN

NoId    == 0
Special == {"crit", "crip", "holy"}
Class   == Special \union {"plain"}
Evasion == {"MISS", "PARRY", "DODGE", "RIPOSTE", "BLOCK", "ABSORB"}

(* struct MeleeDamage: hits and damage of each class of hit, and the swings *)
(* that did not hit.                                                        *)
MeleeDamage == [hits   : [Class -> Nat],
                damage : [Class -> Nat],
                evaded : [Evasion -> Nat]]
NewMelee == [hits   |-> [c \in Class |-> 0],
             damage |-> [c \in Class |-> 0],
             evaded |-> [e \in Evasion |-> 0]]

(* struct Fight.  m_byVerb is an array searched by verb; an entry is pushed *)
(* only to be counted in at once, so a verb that is absent from the array   *)
(* is a verb whose counters are all zero.                                   *)
Fight == [sourceId : Nat, targetId : Nat, start : Int, end : Int,
          m_melee  : MeleeDamage,
          m_byVerb : [Verb -> MeleeDamage],
          m_magic  : [hits : Nat, damage : Nat]]
NewFight(s, t, now) ==
  [sourceId |-> s, targetId |-> t, start |-> now, end |-> 0,
   m_melee  |-> NewMelee,
   m_byVerb |-> [v \in Verb |-> NewMelee],
   m_magic  |-> [hits |-> 0, damage |-> 0]]

Death == [sourceId : Nat, targetId : Nat, finishingBlow : BOOLEAN]

(* The object battleInstance() hands out, as constructed. *)
NewBattle == [m_pc |-> <<>>, m_fight |-> <<>>, m_death |-> <<>>,
              m_start |-> -1, m_end |-> -1, m_expire |-> 0,
              m_totalHeals |-> 0,
              m_last |-> [c \in Special |-> 0],
              m_lastFinishingBlow |-> NoId]
-----------------------------------------------------------------------------
(* Durations: a span of zero counts as one second; with dates that step    *)
(* back a span can be negative, and then the battle is not in progress.    *)
Fight_seconds(f) == IF f.end = f.start THEN 1 ELSE f.end - f.start
Battle_seconds(b) == IF b.m_start = -1 THEN 0
                     ELSE IF b.m_end = b.m_start THEN 1
                     ELSE b.m_end - b.m_start
InProgress(b)  == Battle_seconds(b) > 0
IsOverEarly(b, now) == b.m_start > -1 /\ b.m_expire <= now
IsOver(b, now) == b.m_start > -1 /\ b.m_expire < now

Keepalive(b, now) == [b EXCEPT !.m_end = now, !.m_expire = now + KeepAlive]
Start(b, now) == IF InProgress(b) THEN b
                 ELSE Keepalive([b EXCEPT !.m_start = now], now)
ResetKeepsLast(b) == [b EXCEPT !.m_start = -1, !.m_end = -1, !.m_expire = 0,
                               !.m_totalHeals = 0, !.m_lastFinishingBlow = NoId,
                               !.m_pc = <<>>, !.m_fight = <<>>, !.m_death = <<>>]
Reset(b) == [b EXCEPT !.m_start = -1, !.m_end = -1, !.m_expire = 0,
                      !.m_totalHeals = 0,
                      !.m_last = [c \in Special |-> 0],
                      !.m_lastFinishingBlow = NoId,
                      !.m_pc = <<>>, !.m_fight = <<>>, !.m_death = <<>>]
Dtor(b)  == [b EXCEPT !.m_pc = <<>>, !.m_fight = <<>>, !.m_death = <<>>]
-----------------------------------------------------------------------------
(* Names are interned in m_pc in the order they are first met, the aliases *)
(* of the log's owner under config.me.                                     *)
IsMe(n)      == n \in YouAliases
Canonical(n) == IF IsMe(n) THEN Me ELSE n

PositionOf(pc, n) ==
  IF \E i \in 1..Len(pc) : pc[i] = n
  THEN CHOOSE i \in 1..Len(pc) : pc[i] = n /\ \A j \in 1..(i-1) : pc[j] # n
  ELSE NoId
PCIndex(pc, n) == IF n = NoName THEN NoId ELSE PositionOf(pc, Canonical(n))
InternAsPrinted(pc, n) == IF n = NoName \/ PCIndex(pc, n) # NoId THEN pc
                          ELSE Append(pc, n)
Intern(pc, n)  == IF n = NoName \/ PCIndex(pc, n) # NoId THEN pc
                  ELSE Append(pc, Canonical(n))

(* What every handler but crit, crip, holyBlade and heal begins with. *)
Engage(b, now, a) ==
  LET started == Start(b, now)
  IN  [started EXCEPT !.m_pc = Intern(Intern(@, a.source), a.target)]

FightPositionLast(fights, s, t) ==
  IF Len(fights) > 0 /\ fights[Len(fights)].sourceId = s
                     /\ fights[Len(fights)].targetId = t
  THEN Len(fights) ELSE NoId
FightPosition(fights, s, t) ==
  IF \E i \in 1..Len(fights) : fights[i].sourceId = s /\ fights[i].targetId = t
  THEN CHOOSE i \in 1..Len(fights) :
         /\ fights[i].sourceId = s /\ fights[i].targetId = t
         /\ \A j \in 1..(i-1) : ~(fights[j].sourceId = s /\ fights[j].targetId = t)
  ELSE NoId
(* Battle_getFightIndex pushes the fight it does not find. *)
GetFight(fights, now, s, t) ==
  IF FightPosition(fights, s, t) # NoId THEN fights
  ELSE Append(fights, NewFight(s, t, now))
-----------------------------------------------------------------------------
Counters(f, verb) == IF ByVerb THEN f.m_byVerb[verb] ELSE f.m_melee
SetCounters(f, verb, m) == IF ByVerb THEN [f EXCEPT !.m_byVerb[verb] = m]
                           ELSE [f EXCEPT !.m_melee = m]

(* Which counters a hit goes to: with --extra, those of the special hit    *)
(* last announced with exactly this damage.                                *)
HitClass(last, damage) ==
  IF ~Extra THEN "plain"
  ELSE IF last["crit"] = damage THEN "crit"
  ELSE IF last["crip"] = damage THEN "crip"
  ELSE IF last["holy"] = damage THEN "holy"
  ELSE "plain"

Hit(f, now, verb, class, damage) ==
  LET m == Counters(f, verb)
  IN  SetCounters([f EXCEPT !.end = now], verb,
                  [m EXCEPT !.hits[class] = @ + 1,
                            !.damage[class] = @ + damage])
Evade(f, now, verb, evasion) ==
  LET m == Counters(f, verb)
  IN  SetCounters([f EXCEPT !.end = now], verb,
                  [m EXCEPT !.evaded[evasion] = @ + 1])

Melee(b, now, a) ==
  LET e      == Engage(b, now, a)
      s      == PCIndex(e.m_pc, a.source)
      t      == PCIndex(e.m_pc, a.target)
      fights == GetFight(e.m_fight, now, s, t)
      i      == FightPosition(fights, s, t)
      class  == HitClass(e.m_last, a.damage)
  IN  IF a.type = "MELEE" /\ a.damage >= FinishingDamage
      THEN [e EXCEPT !.m_lastFinishingBlow = t]
      ELSE Keepalive(
             [e EXCEPT !.m_fight = [fights EXCEPT ![i] =
                                      Hit(@, now, a.verb, class, a.damage)],
                       !.m_last  = [c \in Special |->
                                      IF c = class THEN 0 ELSE @[c]]], now)

Miss(b, now, a) ==
  LET e      == Engage(b, now, a)
      s      == PCIndex(e.m_pc, a.source)
      t      == PCIndex(e.m_pc, a.target)
      fights == GetFight(e.m_fight, now, s, t)
      i      == FightPosition(fights, s, t)
  IN  Keepalive([e EXCEPT !.m_fight = [fights EXCEPT ![i] =
                                         Evade(@, now, a.verb, a.type)]], now)

(* Battle_crit, Battle_crip and Battle_holyBlade. *)
Announce(b, class, a) == [b EXCEPT !.m_last[class] = a.damage]

MagicOnly(b, now, a) ==
  LET e      == Engage(b, now, a)
      s      == PCIndex(e.m_pc, a.source)
      t      == PCIndex(e.m_pc, a.target)
      fights == GetFight(e.m_fight, now, s, t)
      i      == FightPosition(fights, s, t)
  IN  Keepalive([e EXCEPT !.m_fight = [fights EXCEPT
                   ![i].m_magic.hits = @ + 1,
                   ![i].m_magic.damage = @ + a.damage,
                   ![i].end = now]], now)
(* Spells and damage shields are counted as a hit, and again as magic. *)
Magic(b, now, a) ==
  LET e      == Engage(Melee(b, now, a), now, a)
      s      == PCIndex(e.m_pc, a.source)
      t      == PCIndex(e.m_pc, a.target)
      fights == GetFight(e.m_fight, now, s, t)
      i      == FightPosition(fights, s, t)
  IN  Keepalive([e EXCEPT !.m_fight = [fights EXCEPT
                   ![i].m_magic.hits = @ + 1,
                   ![i].m_magic.damage = @ + a.damage,
                   ![i].end = now]], now)

HealSubtracts(b, now, a) ==
  Keepalive([Start(b, now) EXCEPT !.m_totalHeals = @ - a.damage], now)
Heal(b, now, a) ==
  Keepalive([Start(b, now) EXCEPT !.m_totalHeals = @ + a.damage], now)

DieKeepsBlow(b, now, a) ==
  LET e == Engage(b, now, a)
      s == PCIndex(e.m_pc, a.source)
      t == PCIndex(e.m_pc, a.target)
  IN  Keepalive([e EXCEPT
        !.m_death = Append(@, [sourceId |-> s, targetId |-> t,
                     finishingBlow |-> t = e.m_lastFinishingBlow])], now)
Die(b, now, a) ==
  LET e == Engage(b, now, a)
      s == PCIndex(e.m_pc, a.source)
      t == PCIndex(e.m_pc, a.target)
      finishing == t = e.m_lastFinishingBlow
  IN  Keepalive([e EXCEPT
        !.m_death = Append(@, [sourceId |-> s, targetId |-> t,
                               finishingBlow |-> finishing]),
        !.m_lastFinishingBlow = IF finishing THEN NoId ELSE @], now)
-----------------------------------------------------------------------------
(* The totals of a fight: the verbs if there are any, else m_melee. *)
ByVerbHitUsed(f) == \E v \in Verb : f.m_byVerb[v].damage # NewMelee.damage
ByVerbUsed(f) == \E v \in Verb : f.m_byVerb[v] # NewMelee
Total(f, Of(_)) == IF ByVerbUsed(f) THEN SumFunction([v \in Verb |-> Of(f.m_byVerb[v])])
                   ELSE Of(f.m_melee)
OverClasses(h) == h["plain"] + h["crit"] + h["crip"] + h["holy"]
MeleeDamage_hits(m)   == OverClasses(m.hits)
MeleeDamage_damage(m) == OverClasses(m.damage)
MeleeDamage_avoided(m) == m.evaded["PARRY"] + m.evaded["DODGE"] + m.evaded["RIPOSTE"]
                          + m.evaded["BLOCK"] + m.evaded["ABSORB"]
MeleeDamage_swings(m) == MeleeDamage_hits(m) + MeleeDamage_avoided(m) + m.evaded["MISS"]
Fight_hits(f)   == Total(f, MeleeDamage_hits)
Fight_damage(f) == Total(f, MeleeDamage_damage)
Fight_swings(f) == Total(f, MeleeDamage_swings)

(* ratio(x, xs) < ratio(y, ys); seconds are never zero. *)
RatioLess(x, xs, y, ys) == x * xs * ys * ys < y * ys * xs * xs

(* The comparison and exchange inside Battle_sort's two loops, and the     *)
(* positions j the loops visit.                                            *)
SwapIfLess(fights, j) ==
  LET l == fights[j]
      r == fights[j + 1]
  IN  IF RatioLess(MeleeDamage_damage(l.m_melee), Fight_seconds(l),
                   MeleeDamage_damage(r.m_melee), Fight_seconds(r))
      THEN [fights EXCEPT ![j] = r, ![j + 1] = l]
      ELSE fights
BubbleStepsShort(n) == FlattenSeq([i \in 1..(n - 1) |-> [j \in 1..(n - i - 1) |-> j]])
BubbleSteps(n) == FlattenSeq([i \in 1..(n - 1) |-> [j \in 1..(n - i) |-> j]])
Sort(fights)   == IF Len(fights) < 2 THEN fights
                  ELSE FoldLeft(SwapIfLess, fights, BubbleSteps(Len(fights)))

(* The report: for every name in m_pc the rows of its fights, the fights   *)
(* taken in the order the sort leaves them in.                             *)
Row(b, f) == [source  |-> b.m_pc[f.sourceId], target |-> b.m_pc[f.targetId],
              seconds |-> Fight_seconds(f),
              hits |-> Fight_hits(f), damage |-> Fight_damage(f)]
Owner(f) == IF ReportByTarget THEN f.targetId ELSE f.sourceId
RowsOf(b, fights, pcId) ==
  FlattenSeq([k \in 1..Len(fights) |->
                IF Owner(fights[k]) = pcId THEN << Row(b, fights[k]) >> ELSE << >>])
Rows(b) == LET fights == Sort(b.m_fight)
           IN  FlattenSeq([pcId \in 1..Len(b.m_pc) |-> RowsOf(b, fights, pcId)])

Reported(b) == b.m_end - b.m_start >= KeepAlive
Report(b) == IF Reported(b)
             THEN << [from |-> b.m_start, to |-> b.m_end, rows |-> Rows(b)] >>
             ELSE << >>
=============================================================================
