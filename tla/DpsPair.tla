------------------------------ MODULE DpsPair -------------------------------
(***************************************************************************)
(* dps and its C++ port over the same log: each line goes to both, as the  *)
(* action its own parser makes of it.  Where a property of the two need    *)
(* not hold is what GameLog's SameAsDpsPP leaves aside: the port does not  *)
(* know tries, and it calls the source of every spell SpellsTotal.         *)
(***************************************************************************)
EXTENDS Dps

CONSTANTS Backstabs,     \* the verbs that start with "backstab"
          SpellsTotal    \* the source "Spell/DS(Total)"
ASSUME PairAssumption == Backstabs \subseteq Verb /\ SpellsTotal \notin Name \union {NoName}

VARIABLES
  battlePP, keepgoingPP, stdoutPP, runningPP,
  tried          \* history: whether the log had a try that did not hit

PP == INSTANCE DpsPP WITH battle <- battlePP, keepgoing <- keepgoingPP,
                          stdout <- stdoutPP, running <- runningPP
pairVars == <<vars, PP!vars, tried>>

AsPP(a) == IF a.type \in Evasion THEN [a EXCEPT !.type = "UNKNOWN"]
           ELSE IF a.type = "MAGIC" THEN [a EXCEPT !.source = SpellsTotal]
           ELSE a

PairInit == Init /\ PP!Init /\ tried = FALSE
PairNext ==
  \/ \E d \in Dates, a \in LogLines :
       /\ Skip(d) \/ Stop(d) \/ TellMe(d, a)
       /\ PP!TellMe(d, AsPP(a)) \/ PP!Refused
       /\ tried' = (tried \/ a.type \in Evasion)
  \/ Undated /\ (PP!Undated \/ PP!Refused) /\ UNCHANGED tried
  \/ Finish /\ PP!Finish /\ UNCHANGED tried
PairSpec == PairInit /\ [][PairNext]_pairVars
-----------------------------------------------------------------------------
(* The port keeps the same ledger as dps, but for the names of the spells'  *)
(* source, tries, and that it publishes a battle of any length             *)
(* (Battle::report has no least length).                                   *)
AccountPP(b) ==
  LET PairOf(f) == <<b.m_pc[f.m_sourceId], b.m_pc[f.m_targetId]>>
      FightOf(p) == b.m_fight[SelectInSeq(b.m_fight, LAMBDA f : PairOf(f) = p)]
  IN  [p \in {PairOf(f) : f \in Range(b.m_fight)} |->
         [hits   |-> FightOf(p).hits["melee"],
          damage |-> FightOf(p).damage["melee"],
          swings |-> FightOf(p).hits["melee"]]]
LedgerPP == INSTANCE BattleLedger WITH
              Who       <- Name \union {SpellsTotal},
              Least     <- 0,
              now       <- date,
              account   <- IF runningPP THEN AccountPP(battlePP) ELSE << >>,
              first     <- battlePP.m_start,
              last      <- battlePP.m_end,
              published <- [k \in 1..Len(stdoutPP) |-> AccountPrinted(stdoutPP[k])]
PortRefinesLedger == LedgerPP!Spec

(* As long as every swing hits, the two programs tell the same story: the  *)
(* same battle, what each target suffered, the same heals and deaths, and  *)
(* dps has reported those of the port's battles that lasted --keepalive.   *)
Suffered(account) ==
  [t \in {p[2] : p \in DOMAIN account} |->
     LET against == {p \in DOMAIN account : p[2] = t}
     IN  [hits   |-> MapThenSumSet(LAMBDA p : account[p].hits, against),
          damage |-> MapThenSumSet(LAMBDA p : account[p].damage, against)]]
Story(report) == [from |-> report.from, to |-> report.to,
                  suffered |-> Suffered(AccountPrinted(report))]
Stories(reports) == [k \in 1..Len(reports) |-> Story(reports[k])]
SameStory ==
  ~tried =>
    /\ battle.m_start = battlePP.m_start
    /\ battle.m_end = battlePP.m_end
    /\ battle.m_totalHeals = battlePP.m_totalHeals
    /\ running => /\ Suffered(Account(battle)) = Suffered(AccountPP(battlePP))
                  /\ [i \in 1..Len(battle.m_death) |-> battle.m_death[i].finishingBlow]
                       = [i \in 1..Len(battlePP.m_death) |->
                            battlePP.m_death[i].m_finishingBlow]
    /\ Stories(stdout)
         = Stories(SelectSeq(stdoutPP, LAMBDA r : r.to - r.from >= KeepAlive))
=============================================================================
