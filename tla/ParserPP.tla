------------------------------ MODULE ParserPP ------------------------------
(***************************************************************************)
(* Action::parse of src/dps++/action.cpp, the rewrite of the parser that   *)
(* dps++ feeds its battle with.  It knows no line of a try that did not    *)
(* hit, keeps a verb as the text puts it, and names other sources.         *)
(***************************************************************************)
EXTENDS Words

CONSTANT Me   \* Config::instance().me

Verbs == {"backstab", "backstabs", "bash", "bashes", "bites", "claw", "claws",
          "crush", "crushes", "gore", "gores", "hit", "hits", "kick", "kicks",
          "maul", "mauls", "pierce", "pierces", "punch", "punches", "rend",
          "rends", "slash", "slashes", "slice", "slices", "smash", "smashes"}
MeleeAt(text, i) == \E v \in Verbs : PhraseAt(text, i, <<v>>)

(* " have taken " right before the damage, of at most five digits. *)
HasTaken(text) == PhraseAt(text, Len(text) - 2, <<"have", "taken">>)
NonMeleeAt(text, i) == \/ PhraseAt(text, i, <<"was", "hit", "by">>)
                       \/ PhraseAt(text, i, <<"were", "hit", "by">>)
HealedAt(text, i) == PhraseAt(text, i, <<"have", "been", "healed">>)
VerbPlace(text) ==
  LET at == {i \in 1..Len(text) : \/ NonMeleeAt(text, i)
                                  \/ HealedAt(text, i)
                                  \/ MeleeAt(text, i)}
  IN  IF at = {} THEN 0 ELSE Min(at)

(* Every " for " cuts what follows it off the target: the second one cuts  *)
(* the target that the first one left, by the length of a text that is     *)
(* no longer in it.                                                        *)
Mangled == <<"?">>
ForPlaces(text, from) == {i \in Places(text, <<"for">>) : i >= from}
DamageFrom(text, from) ==
  IF ForPlaces(text, from) = {} THEN 0
  ELSE ToInt(After(text, Max(ForPlaces(text, from))))
TargetWhole(text, i) == After(text, i)
TargetAfter(text, i) ==
  LET fors == ForPlaces(text, i + 2)
  IN  IF fors = {} THEN After(text, i)
      ELSE IF Cardinality(fors) = 1 THEN Between(text, i, Min(fors))
      ELSE Mangled

ParseDamage(text) ==
  LET i == VerbPlace(text)
  IN  CASE HasTaken(text) ->
             [type |-> "MAGIC", source |-> <<"AoE", "Damage">>, target |-> Me,
              verb |-> <<"have", "taken">>, damage |-> ToInt(<<Last(text)>>)]
        [] ~HasTaken(text) /\ i = 0 -> Unknown
        [] ~HasTaken(text) /\ i > 0 /\ NonMeleeAt(text, i) ->
             [type |-> "MAGIC", source |-> <<"Spell/DS(Total)">>,
              target |-> Before(text, i), verb |-> <<text[i + 3]>>,
              damage |-> DamageFrom(text, i + 4)]
        [] ~HasTaken(text) /\ i > 0 /\ HealedAt(text, i) ->
             [type |-> "HEAL", source |-> << >>, target |-> Before(text, i),
              verb |-> <<"have", "been", "healed">>,
              damage |-> DamageFrom(text, i + 3)]
        [] OTHER ->
             [type |-> "MELEE", source |-> Before(text, i),
              target |-> TargetAfter(text, i), verb |-> <<text[i]>>,
              damage |-> DamageFrom(text, i + 2)]
-----------------------------------------------------------------------------
ParseStatement(text) ==
  CASE EndsWith(text, PointsOfDamage) -> ParseDamage(Without(text, PointsOfDamage))
    [] EndsWith(text, PointOfDamage)  -> ParseDamage(Without(text, PointOfDamage))
    [] EndsWith(text, <<"died", ".">>) ->
         [Unknown EXCEPT !.type = "DEATH", !.verb = <<"died">>,
                         !.target = Without(text, <<"died", ".">>)]
    [] OTHER -> Unknown

Announced(text, phrase, type) ==
  LET i == Place(text, phrase)
  IN  [Unknown EXCEPT !.type = type, !.source = Before(text, i),
         !.damage = ToInt(Between(text, i + Len(phrase) - 1, Len(text)))]
CriticalHit   == <<"Scores", "a", "critical", "hit", "!", "(">>
CripplingBlow == <<"lands", "a", "Crippling", "Blow", "!", "(">>
HolyBlade     == <<"'s", "holy", "blade", "cleanses", "his", "target", "!", "(">>
ParseAnnouncement(text) ==
  IF Has(text, CriticalHit) THEN Announced(text, CriticalHit, "CRIT")
  ELSE IF Has(text, CripplingBlow) THEN Announced(text, CripplingBlow, "CRIP")
  ELSE IF Has(text, HolyBlade) THEN Announced(text, HolyBlade, "HOLYBLADE")
  ELSE Unknown

(* The one line it looks for after " have slain ": the passive, of which   *)
(* the third letter tells the has from the have.                           *)
SlainBy(text) ==
  LET has  == Place(text, <<"has", "been", "slain", "by">>)
      i    == IF has # 0 THEN has ELSE Place(text, <<"have", "been", "slain", "by">>)
      verb == <<text[i], "been", "slain", "by">>
  IN  [Unknown EXCEPT !.type = "DEATH", !.verb = verb, !.target = Before(text, i),
                      !.source = Between(text, i + 3, Len(text))]
ParseExclamation(text) ==
  LET i == Place(text, <<"have", "slain">>)
  IN  CASE i # 0 ->
             [Unknown EXCEPT !.type = "DEATH", !.verb = <<"have", "slain">>,
                !.source = Before(text, i), !.target = Between(text, i + 1, Len(text))]
        [] i = 0 /\ \/ Has(text, <<"has", "been", "slain", "by">>)
                    \/ Has(text, <<"have", "been", "slain", "by">>) -> SlainBy(text)
        [] OTHER -> Unknown

Action_parse(text) ==
  CASE LastMark(text) = "." -> ParseStatement(text)
    [] LastMark(text) = ")" -> ParseAnnouncement(text)
    [] LastMark(text) = "!" -> ParseExclamation(text)
    [] OTHER -> Unknown
=============================================================================
