------------------------------- MODULE MCDps --------------------------------
(***************************************************************************)
(* Small logs for Dps: who fights, what the lines say, when.               *)
(***************************************************************************)
EXTENDS Dps

CONSTANTS You, Kai, Orc, hit, backstab

Line(type, s, t, v, d) ==
  [type |-> type, source |-> s, target |-> t, verb |-> v, damage |-> d]

MCName    == {You, Kai, Orc}
MCAliases == {You}
MCVerb    == {hit, backstab}

(* Both spellings of the log's owner, a fight each way, spells, misses,    *)
(* heals and deaths.                                                       *)
LedgerLines ==
  {Line("MELEE", You, Orc, hit, 1), Line("MELEE", Kai, Orc, backstab, 2),
   Line("MELEE", Orc, You, hit, 1), Line("MELEE", Kai, Orc, hit, 3),
   Line("MAGIC", You, Orc, hit, 2), Line("CRIT", You, NoName, hit, 1),
   Line("MISS", Orc, You, hit, 0),
   Line("HEAL", NoName, You, hit, 2), Line("DEATH", NoName, Orc, hit, 0),
   Line("UNKNOWN", NoName, NoName, hit, 0)}

(* Special hits announced and not, of the same damage by two attackers,    *)
(* finishing blows (damage 3 stands for 32000), deaths, and the rest.      *)
SpecialLines ==
  {Line("HEAL", NoName, You, hit, 2), Line("MISS", Orc, Orc, hit, 0),
   Line("CRIT", You, NoName, hit, 1), Line("CRIP", Orc, NoName, hit, 1),
   Line("HOLYBLADE", You, NoName, hit, 2),
   Line("MELEE", You, Orc, hit, 1), Line("MELEE", Orc, You, hit, 2),
   Line("MELEE", You, Orc, hit, 3), Line("MAGIC", Kai, Orc, hit, 3),
   Line("DEATH", You, Orc, hit, 0), Line("DEATH", NoName, You, hit, 0),
   Line("UNKNOWN", NoName, NoName, hit, 0)}

(* One attacker of three targets, another attacker, and misses. *)
ReportLines ==
  {Line("MELEE", You, Orc, hit, 1), Line("MELEE", You, Kai, hit, 2),
   Line("MELEE", You, You, hit, 4), Line("MELEE", Orc, You, hit, 1),
   Line("DODGE", You, Orc, hit, 0)}

NoDate == -1

(* The clock was set back, even to the second before the game's release,   *)
(* whose -1 also marks a battle that has not begun, and further.            *)
ClockDates == {-2, -1, 0, 1, 3, 5}
=============================================================================
