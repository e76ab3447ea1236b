-------------------------------- MODULE Dps ---------------------------------
(***************************************************************************)
(* The program of src/dps/dps.c: tellme(), called with every line of the   *)
(* log, and the end of main().  One step is one whole call of tellme: the  *)
(* window check, the report and reset of a battle that is over, and the    *)
(* handler the parsed action is dispatched to.  LogLines is the set of     *)
(* actions that Action_parse (Parser.tla) makes of the lines of the log.   *)
(***************************************************************************)
EXTENDS Battle

CONSTANTS
  LogLines,        \* the actions the lines of the log parse to
  Dates,           \* the dates they carry
  MonotoneDates,   \* whether dates never step back (FALSE: a clock was set)
  Since, Until,    \* config.since, config.until; -1 when not given
  MaxLines         \* bound on the length of the log

ActionType == {"MELEE", "MAGIC", "HEAL", "DEATH", "CRIT", "CRIP", "HOLYBLADE",
               "UNKNOWN"} \union Evasion
Action == [type : ActionType, source : Name \union {NoName},
           target : Name \union {NoName}, verb : Verb, damage : Nat]

(* What the parser fills in: lines of fighting name both sides, the line   *)
(* "X died." has no source, and a hit is for at least one point of damage. *)
ASSUME LogAssumption ==
  /\ LogLines \subseteq Action
  /\ \A a \in LogLines :
       /\ a.type \in {"MELEE", "MAGIC"} \union Evasion =>
            a.source \in Name /\ a.target \in Name
       /\ a.type = "DEATH" => a.target \in Name
       /\ a.type \in {"MELEE", "MAGIC"} => a.damage > 0
ASSUME DatesAssumption == Dates \subseteq Int /\ MonotoneDates \in BOOLEAN
ASSUME BoundsAssumption == {Since, Until} \subseteq Int /\ MaxLines \in Nat

VARIABLES
  battle,       \* battleInstance()
  lineno,       \* the static counter of tellme
  date,         \* the date of the last line, -1 before the first
  keepgoing,    \* what the last call of tellme returned
  stdout,       \* the reports printed so far
  running,      \* FALSE once main() has returned
  \* history, of the battle in m_start .. m_end:
  announced,    \* how many lines announced a special hit of each class
  blows,        \* how many finishing blows there were
  dealt, swung  \* the damage its lines dealt, and how many there were

history == <<announced, blows, dealt, swung>>
vars == <<battle, lineno, date, keepgoing, stdout, running, history>>

NothingAnnounced == [c \in Special |-> 0]

Init == /\ battle = NewBattle
        /\ lineno = 0
        /\ date = -1
        /\ keepgoing = TRUE
        /\ stdout = << >>
        /\ running = TRUE
        /\ announced = NothingAnnounced
        /\ blows = 0
        /\ dealt = 0
        /\ swung = 0
-----------------------------------------------------------------------------
(* A line dated d is the next one of the log. *)
Reads(d) == /\ running
            /\ lineno < MaxLines
            /\ MonotoneDates => d >= date
            /\ lineno' = lineno + 1
            /\ date' = d
            /\ UNCHANGED running

BeforeSince(d) == d < Since
PastUntilLate(d) == Until > 0 /\ d > Until + 1
PastUntil(d)   == Until > 0 /\ d > Until

(* The lines tellme returns for before it looks at the battle. *)
Skip(d) == /\ BeforeSince(d)
           /\ Reads(d)
           /\ keepgoing' = TRUE
           /\ UNCHANGED <<battle, stdout, history>>
Stop(d) == /\ ~BeforeSince(d) /\ PastUntil(d)
           /\ Reads(d)
           /\ keepgoing' = FALSE
           /\ UNCHANGED <<battle, stdout, history>>

(* An empty line, or one without a date in brackets. *)
Undated == /\ running
           /\ lineno < MaxLines
           /\ lineno' = lineno + 1
           /\ keepgoing' = TRUE
           /\ UNCHANGED <<battle, date, stdout, running, history>>

(* The battle a handler finds: a battle that is over is reported and reset. *)
Current(d) == IF IsOver(battle, d) THEN Reset(battle) ELSE battle
Accepts(d) ==
  /\ ~BeforeSince(d) /\ ~PastUntil(d)
  /\ Reads(d)
  /\ keepgoing' = TRUE
  /\ stdout' = IF IsOver(battle, d) THEN stdout \o Report(battle) ELSE stdout

(* The history the line leaves, which the reset of a battle clears. *)
IsBlow(a) == a.type = "MELEE" /\ a.damage >= FinishingDamage
Remembers(d, a, class) ==
  LET over == IsOver(battle, d)
      told == IF over THEN NothingAnnounced ELSE announced
      hits == a.type \in {"MELEE", "MAGIC"} /\ ~IsBlow(a)
  IN  /\ announced' = IF class \in Special THEN [told EXCEPT ![class] = @ + 1]
                      ELSE told
      /\ blows' = (IF over THEN 0 ELSE blows) + (IF IsBlow(a) THEN 1 ELSE 0)
      /\ dealt' = (IF over THEN 0 ELSE dealt) + (IF hits THEN a.damage ELSE 0)
      /\ swung' = (IF over THEN 0 ELSE swung)
                    + (IF hits \/ a.type \in Evasion THEN 1 ELSE 0)

DoMelee(d, a) == /\ a.type = "MELEE"
                 /\ Accepts(d)
                 /\ battle' = Melee(Current(d), d, a)
                 /\ Remembers(d, a, "plain")
DoMiss(d, a)  == /\ a.type \in Evasion
                 /\ Accepts(d)
                 /\ battle' = Miss(Current(d), d, a)
                 /\ Remembers(d, a, "plain")
DoCrit(d, a)  == /\ a.type = "CRIT"
                 /\ Accepts(d)
                 /\ battle' = Announce(Current(d), "crit", a)
                 /\ Remembers(d, a, "crit")
DoCrip(d, a)  == /\ a.type = "CRIP"
                 /\ Accepts(d)
                 /\ battle' = Announce(Current(d), "crip", a)
                 /\ Remembers(d, a, "crip")
DoHolyBlade(d, a) == /\ a.type = "HOLYBLADE"
                     /\ Accepts(d)
                     /\ battle' = Announce(Current(d), "holy", a)
                     /\ Remembers(d, a, "holy")
DoMagic(d, a) == /\ a.type = "MAGIC"
                 /\ Accepts(d)
                 /\ battle' = Magic(Current(d), d, a)
                 /\ Remembers(d, a, "plain")
DoHeal(d, a)  == /\ a.type = "HEAL"
                 /\ Accepts(d)
                 /\ battle' = Heal(Current(d), d, a)
                 /\ Remembers(d, a, "plain")
DoDeath(d, a) == /\ a.type = "DEATH"
                 /\ Accepts(d)
                 /\ battle' = Die(Current(d), d, a)
                 /\ Remembers(d, a, "plain")
(* CHAT, UNKNOWN: any other line. *)
DoNothing(d, a) == /\ a.type = "UNKNOWN"
                   /\ Accepts(d)
                   /\ battle' = Current(d)
                   /\ Remembers(d, a, "plain")

TellMe(d, a) == \/ DoMelee(d, a) \/ DoMiss(d, a)
                \/ DoCrit(d, a) \/ DoCrip(d, a) \/ DoHolyBlade(d, a)
                \/ DoMagic(d, a) \/ DoHeal(d, a) \/ DoDeath(d, a)
                \/ DoNothing(d, a)

(* tail() has returned: main reports a battle in progress and destroys it. *)
Finish == /\ running
          /\ running' = FALSE
          /\ stdout' = IF InProgress(battle) THEN stdout \o Report(battle) ELSE stdout
          /\ battle' = Dtor(battle)
          /\ UNCHANGED <<lineno, date, keepgoing, history>>

Next == \/ \E d \in Dates : Skip(d) \/ Stop(d) \/ \E a \in LogLines : TellMe(d, a)
        \/ Undated
        \/ Finish

Spec == Init /\ [][Next]_vars
-----------------------------------------------------------------------------
(* Types of the state. *)
BattleState == [m_pc : Seq(Name), m_fight : Seq(Fight), m_death : Seq(Death),
           m_start : Int, m_end : Int, m_expire : Int, m_totalHeals : Nat,
           m_last : [Special -> Nat], m_lastFinishingBlow : Nat]
TypeOK == /\ battle \in BattleState
          /\ lineno \in 0..MaxLines
          /\ date \in Dates \union {-1}
          /\ keepgoing \in BOOLEAN
          /\ running \in BOOLEAN
          /\ announced \in [Special -> Nat]
          /\ {blows, dealt, swung} \subseteq Nat

(* No name is interned twice and no alias of the log's owner is interned,  *)
(* unless --me is that alias: two ids of one name would split its report   *)
(* (Battle_getPCIndex).                                                    *)
NamesInterned ==
  LET pc == battle.m_pc
  IN  /\ \A i, j \in 1..Len(pc) : pc[i] = pc[j] => i = j
      /\ \A i \in 1..Len(pc) : IsMe(pc[i]) => pc[i] = Me

(* A fight and a death only use ids of m_pc, which the report dereferences *)
(* without a check (only the slayer of a death may be missing), and no two *)
(* fights are between the same source and target.                          *)
FightsIndexed ==
  /\ \A i \in 1..Len(battle.m_fight) :
       {battle.m_fight[i].sourceId, battle.m_fight[i].targetId}
          \subseteq 1..Len(battle.m_pc)
  /\ \A i, j \in 1..Len(battle.m_fight) :
       /\ battle.m_fight[i].sourceId = battle.m_fight[j].sourceId
       /\ battle.m_fight[i].targetId = battle.m_fight[j].targetId
       => i = j
  /\ \A i \in 1..Len(battle.m_death) :
       /\ battle.m_death[i].sourceId \in 0..Len(battle.m_pc)
       /\ battle.m_death[i].targetId \in 1..Len(battle.m_pc)
  /\ running => battle.m_lastFinishingBlow \in 0..Len(battle.m_pc)

(* Spells are in the totals of their fight too, so the spell/ds line of the *)
(* report never claims more than the fight (Battle_magic calls Battle_melee).*)
MagicWithinFight ==
  \A i \in 1..Len(battle.m_fight) :
    LET f == battle.m_fight[i]
    IN  f.m_magic.hits <= Fight_hits(f) /\ f.m_magic.damage <= Fight_damage(f)

(* The fights hold every point of damage and every swing of the lines that *)
(* tellme accepted since the last reset, and nothing else: nothing is lost *)
(* or counted twice between verbs, classes of hits, magic and fights.      *)
NothingLost ==
  LET sumOver(Of(_)) == SumFunction([i \in 1..Len(battle.m_fight) |->
                                       Of(battle.m_fight[i])])
  IN  running => /\ sumOver(Fight_damage) = dealt
                 /\ sumOver(Fight_swings) = swung

(* A hit is only counted as a critical hit, a crippling blow or a holy     *)
(* blade if a line of this battle announced one, and each announcement     *)
(* serves one hit (m_lastCrit, m_lastCrip, m_lastHolyBlade in Battle_melee).*)
ClassHits(class) ==
  SumFunction([i \in 1..Len(battle.m_fight) |->
    battle.m_fight[i].m_melee.hits[class]
    + SumFunction([v \in Verb |-> battle.m_fight[i].m_byVerb[v].hits[class]])])
SpecialsAnnounced ==
  \A c \in Special :
    ClassHits(c) + (IF battle.m_last[c] # 0 THEN 1 ELSE 0) <= announced[c]

(* A death is only marked as a finishing blow if this battle had a finishing*)
(* blow, and no blow marks two deaths (m_lastFinishingBlow).               *)
FinishingDeaths == {i \in 1..Len(battle.m_death) : battle.m_death[i].finishingBlow}
FinishingBlowsDealt ==
  Cardinality(FinishingDeaths)
    + (IF battle.m_lastFinishingBlow # NoId THEN 1 ELSE 0) <= blows

(* With dates that never step back: what has been recorded belongs to a    *)
(* battle in progress, the battle lies within --since, --until and the log *)
(* read so far, and each fight lies within the battle.                     *)
BattleWindow ==
  /\ battle.m_fight # <<>> \/ battle.m_death # <<>> \/ battle.m_totalHeals > 0
       => InProgress(battle)
  /\ InProgress(battle) =>
       /\ Since <= battle.m_start /\ battle.m_start <= battle.m_end
       /\ battle.m_end <= date /\ (Until > 0 => battle.m_end <= Until)
       /\ battle.m_expire = battle.m_end + KeepAlive
  /\ \A i \in 1..Len(battle.m_fight) :
       /\ battle.m_start <= battle.m_fight[i].start
       /\ battle.m_fight[i].start <= battle.m_fight[i].end
       /\ battle.m_fight[i].end <= battle.m_end

(* Below one another, the rows of one name fall in damage per second: what *)
(* Battle_sort is for ("Sort fight by dps", battle.c:806).                 *)
RowsSortedByDps ==
  \A k \in 1..Len(stdout) : \A i, j \in 1..Len(stdout[k].rows) :
    LET x == stdout[k].rows[i]
        y == stdout[k].rows[j]
    IN  i < j /\ (IF ReportByTarget THEN x.target = y.target ELSE x.source = y.source)
          => ~RatioLess(x.damage, x.seconds, y.damage, y.seconds)

(* With dates that never step back the program keeps the ledger promised   *)
(* in BattleLedger: totals by name, silences, and what is published.       *)
Account(b) ==
  LET PairOf(f) == <<b.m_pc[f.sourceId], b.m_pc[f.targetId]>>
      Pairs     == {PairOf(b.m_fight[i]) : i \in 1..Len(b.m_fight)}
      FightOf(p) == b.m_fight[CHOOSE i \in 1..Len(b.m_fight) : PairOf(b.m_fight[i]) = p]
  IN  [p \in Pairs |-> [hits   |-> Fight_hits(FightOf(p)),
                        damage |-> Fight_damage(FightOf(p)),
                        swings |-> Fight_swings(FightOf(p))]]
AccountPrinted(report) ==
  LET Pairs == {<<r.source, r.target>> : r \in Range(report.rows)}
      RowOf(p) == CHOOSE r \in Range(report.rows) : <<r.source, r.target>> = p
  IN  [p \in Pairs |-> [hits |-> RowOf(p).hits, damage |-> RowOf(p).damage]]

Ledger == INSTANCE BattleLedger WITH
            Who       <- Name,
            Least     <- KeepAlive,
            now       <- date,
            account   <- Account(battle),
            first     <- battle.m_start,
            last      <- battle.m_end,
            published <- [k \in 1..Len(stdout) |-> AccountPrinted(stdout[k])]
RefinesLedger == Ledger!Spec
=============================================================================
