------------------------------- MODULE DpsPP --------------------------------
(***************************************************************************)
(* The C++ port: class TellMe and the end of main() of src/dps++/dps.cpp,  *)
(* and struct Battle of src/dps++/battle.cpp.  The lines come from outside,*)
(* as the actions the port's parser makes of them; it makes nothing of a   *)
(* try that does not hit.  An id is a 1-based index of m_pc, NoId for -1.  *)
(***************************************************************************)
EXTENDS Integers, SequencesExt

CONSTANTS
  YouAliases, Me, NoName, KeepAlive, ReportByTarget, FinishingDamage,
             \* as in Battle.tla
  Backstabs, \* the verbs that start with "backstab"
  Since, Until

VARIABLES battle, keepgoing, stdout, running

vars == <<battle, keepgoing, stdout, running>>

NoId  == 0
Special == {"crit", "crip", "holyBlade"}
(* The counters of struct Fight: all hits, and shares of them. *)
Share == {"melee", "backstab", "magic"} \union Special
NewFight(s, t, now) == [m_sourceId |-> s, m_targetId |-> t, m_start |-> now,
                        m_end |-> 0,
                        hits |-> [x \in Share |-> 0], damage |-> [x \in Share |-> 0]]
NewBattle == [m_pc |-> << >>, m_fight |-> << >>, m_death |-> << >>,
              m_start |-> -1, m_end |-> -1, m_expire |-> 0, m_totalHeals |-> 0,
              m_last |-> [c \in Special |-> 0], m_lastFinishingBlow |-> NoId]

Fight_seconds(f) == IF f.m_end = f.m_start THEN 1 ELSE f.m_end - f.m_start
Seconds(b) == IF b.m_start = -1 THEN 0
              ELSE IF b.m_end = b.m_start THEN 1 ELSE b.m_end - b.m_start
InProgress(b) == Seconds(b) > 0
IsOverLate(b, now) == b.m_start > -1 /\ b.m_expire + 1 < now
IsOver(b, now) == b.m_start > -1 /\ b.m_expire < now
Keepalive(b, now) == [b EXCEPT !.m_end = now, !.m_expire = now + KeepAlive]
Start(b, now) == IF InProgress(b) THEN b
                 ELSE Keepalive([b EXCEPT !.m_start = now], now)
-----------------------------------------------------------------------------
Called(n)  == IF n \in YouAliases THEN Me ELSE n
Id(pc, n)  == IF n = NoName THEN NoId ELSE SelectInSeq(pc, LAMBDA x : x = Called(n))
Intern(pc, n) == IF n = NoName \/ Id(pc, n) # NoId THEN pc ELSE Append(pc, Called(n))
Engage(b, now, a) ==
  [Start(b, now) EXCEPT !.m_pc = Intern(Intern(@, a.source), a.target)]

FightId(fights, s, t) ==
  SelectInSeq(fights, LAMBDA f : f.m_sourceId = s /\ f.m_targetId = t)
(* getFight makes the fight it does not find; what its caller does with    *)
(* the reference is to count the damage in some of the shares.             *)
GetFight(fights, now, s, t) ==
  IF FightId(fights, s, t) # NoId THEN fights ELSE Append(fights, NewFight(s, t, now))
CountIn(f, now, damage, shares) ==
  [f EXCEPT !.m_end = now,
            !.hits = [x \in Share |-> @[x] + (IF x \in shares THEN 1 ELSE 0)],
            !.damage = [x \in Share |-> @[x] + (IF x \in shares THEN damage ELSE 0)]]
Count(b, now, a, shares) ==
  LET s      == Id(b.m_pc, a.source)
      t      == Id(b.m_pc, a.target)
      fights == GetFight(b.m_fight, now, s, t)
  IN  [b EXCEPT !.m_fight = [fights EXCEPT ![FightId(fights, s, t)] =
                               CountIn(@, now, a.damage, shares)]]

(* The one share a hit has besides "melee", if any: a backstab never uses  *)
(* up an announcement.                                                     *)
ShareOf(b, a) ==
  IF a.verb \in Backstabs THEN {"backstab"}
  ELSE IF b.m_last["crit"] = a.damage THEN {"crit"}
  ELSE IF b.m_last["crip"] = a.damage THEN {"crip"}
  ELSE IF b.m_last["holyBlade"] = a.damage THEN {"holyBlade"}
  ELSE {}
IsBlow(a) == a.type = "MELEE" /\ a.damage >= FinishingDamage

Melee(b, now, a) ==
  LET e     == Engage(b, now, a)
      share == ShareOf(e, a)
  IN  IF IsBlow(a) THEN [e EXCEPT !.m_lastFinishingBlow = Id(e.m_pc, a.target)]
      ELSE Keepalive([Count(e, now, a, share \union {"melee"}) EXCEPT
             !.m_last = [c \in Special |-> IF c \in share THEN 0 ELSE @[c]]], now)
MagicAsMelee(b, now, a) ==
  Keepalive(Count(Engage(Melee(b, now, a), now, a), now, a, {"melee", "magic"}), now)
Magic(b, now, a) ==
  Keepalive(Count(Engage(Melee(b, now, a), now, a), now, a, {"magic"}), now)

SpecialOf == [CRIT |-> "crit", CRIP |-> "crip", HOLYBLADE |-> "holyBlade"]
Announce(b, a) == [b EXCEPT !.m_last[SpecialOf[a.type]] = a.damage]
Heal(b, now, a) ==
  Keepalive([Start(b, now) EXCEPT !.m_totalHeals = @ + a.damage], now)
Die(b, now, a) ==
  LET e == Engage(b, now, a)
      t == Id(e.m_pc, a.target)
      finishing == t = e.m_lastFinishingBlow
  IN  Keepalive([e EXCEPT
        !.m_death = Append(@, [m_sourceId |-> Id(e.m_pc, a.source), m_targetId |-> t,
                               m_finishingBlow |-> finishing]),
        !.m_lastFinishingBlow = IF finishing THEN NoId ELSE @], now)
-----------------------------------------------------------------------------
(* The report, of a battle of any length: the rows of each name's fights,  *)
(* in the order of the log.                                                *)
Row(b, f) == [source |-> b.m_pc[f.m_sourceId], target |-> b.m_pc[f.m_targetId],
              seconds |-> Fight_seconds(f),
              hits |-> f.hits["melee"], damage |-> f.damage["melee"]]
Rows(b) ==
  LET Owner(f)   == IF ReportByTarget THEN f.m_targetId ELSE f.m_sourceId
      OfPC(pcId) == FlattenSeq([k \in 1..Len(b.m_fight) |->
                      IF Owner(b.m_fight[k]) = pcId THEN << Row(b, b.m_fight[k]) >>
                      ELSE << >>])
  IN  FlattenSeq([pcId \in 1..Len(b.m_pc) |-> OfPC(pcId)])
Report(b) == << [from |-> b.m_start, to |-> b.m_end, rows |-> Rows(b)] >>
-----------------------------------------------------------------------------
Init == /\ battle = NewBattle
        /\ keepgoing = TRUE
        /\ stdout = << >>
        /\ running = TRUE

(* The loop of tail.cpp hands over a line while the last answer was yes.   *)
Handed == running /\ keepgoing
Skip(d) == /\ Handed
           /\ d < Since
           /\ UNCHANGED vars
Stop(d) == /\ Handed
           /\ d >= Since /\ Until > 0 /\ d > Until
           /\ keepgoing' = FALSE
           /\ UNCHANGED <<battle, stdout, running>>
Undated == /\ running /\ keepgoing
           /\ UNCHANGED vars

Current(d) == IF IsOver(battle, d) THEN NewBattle ELSE battle
Accepts(d) == /\ Handed
              /\ d >= Since /\ ~(Until > 0 /\ d > Until)
              /\ stdout' = IF IsOver(battle, d) THEN stdout \o Report(battle) ELSE stdout
              /\ UNCHANGED <<keepgoing, running>>
DoMelee(d, a) == /\ a.type = "MELEE"
                 /\ Accepts(d)
                 /\ battle' = Melee(Current(d), d, a)
DoAnnounce(d, a) == /\ a.type \in DOMAIN SpecialOf
                    /\ Accepts(d)
                    /\ battle' = Announce(Current(d), a)
DoMagic(d, a) == /\ a.type = "MAGIC"
                 /\ Accepts(d)
                 /\ battle' = Magic(Current(d), d, a)
DoHeal(d, a)  == /\ a.type = "HEAL"
                 /\ Accepts(d)
                 /\ battle' = Heal(Current(d), d, a)
DoDeath(d, a) == /\ a.type = "DEATH"
                 /\ Accepts(d)
                 /\ battle' = Die(Current(d), d, a)
DoNothing(d, a) == /\ a.type = "UNKNOWN"
                   /\ Accepts(d)
                   /\ battle' = Current(d)
TellMe(d, a) == \/ Skip(d) \/ Stop(d)
                \/ DoMelee(d, a) \/ DoAnnounce(d, a) \/ DoMagic(d, a)
                \/ DoHeal(d, a) \/ DoDeath(d, a) \/ DoNothing(d, a)

(* After a refusal nothing is handed over. *)
Refused == ~keepgoing /\ UNCHANGED vars
Finish == /\ running
          /\ running' = FALSE
          /\ stdout' = IF InProgress(battle) THEN stdout \o Report(battle) ELSE stdout
          /\ UNCHANGED <<battle, keepgoing>>
=============================================================================
