------------------------------- MODULE Parser -------------------------------
(***************************************************************************)
(* Action_parse of src/dps/action.c: what a line of the log says, without  *)
(* its date.  Definitions named for what is wrong with them are broken     *)
(* variants of the one below, used by none.                                *)
(***************************************************************************)
EXTENDS Words

CONSTANT Me   \* config.me

(* The verbs parseDamage looks for: how the text may put them, and what it *)
(* calls them.  The table gives " bite " the length 7, one more than it    *)
(* has: compared with its terminator it is in no text, and cut by two it   *)
(* is a verb with a space.                                                 *)
ActionVerbs ==
  [backstab |-> [put |-> {"backstab", "backstabs"}, verb |-> <<"backstab">>],
   bash     |-> [put |-> {"bash", "bashes"},        verb |-> <<"bash">>],
   bite     |-> [put |-> {"bites"},                 verb |-> <<"bite", NoWord>>],
   claw     |-> [put |-> {"claw", "claws"},         verb |-> <<"claw">>],
   crush    |-> [put |-> {"crush", "crushes"},      verb |-> <<"crush">>],
   gore     |-> [put |-> {"gore", "gores"},         verb |-> <<"gore">>],
   hit      |-> [put |-> {"hit", "hits"},           verb |-> <<"hit">>],
   kick     |-> [put |-> {"kick", "kicks"},         verb |-> <<"kick">>],
   maul     |-> [put |-> {"maul", "mauls"},         verb |-> <<"maul">>],
   pierce   |-> [put |-> {"pierce", "pierces"},     verb |-> <<"pierce">>],
   punch    |-> [put |-> {"punch", "punches"},      verb |-> <<"punch">>],
   rend     |-> [put |-> {"rend", "rends"},         verb |-> <<"rend">>],
   slash    |-> [put |-> {"slash", "slashes"},      verb |-> <<"slash">>],
   slice    |-> [put |-> {"slice", "slices"},       verb |-> <<"slice">>],
   smash    |-> [put |-> {"smash", "smashes"},      verb |-> <<"smash">>]]
MeleeAt(text, i) == {v \in DOMAIN ActionVerbs :
                       \E w \in ActionVerbs[v].put : PhraseAt(text, i, <<w>>)}

(* " have taken " right before the damage, of at most five digits. *)
HasTakenLater(text) == PhraseAt(text, Len(text) - 1, <<"have", "taken">>)
HasTaken(text) == PhraseAt(text, Len(text) - 2, <<"have", "taken">>)
NonMeleeAt(text, i) == \/ PhraseAt(text, i, <<"was", "hit", "by">>)
                       \/ PhraseAt(text, i, <<"were", "hit", "by">>)
HealedAt(text, i) == PhraseAt(text, i, <<"have", "been", "healed">>)

(* State0: the first word that any of the verbs begins at, 0 if none does. *)
VerbPlace(text) ==
  LET at == {i \in 1..Len(text) : \/ NonMeleeAt(text, i)
                                  \/ HealedAt(text, i)
                                  \/ MeleeAt(text, i) # {}}
  IN  IF at = {} THEN 0 ELSE Min(at)

(* State1 and State2: the damage follows the last " for " from a word on; *)
(* 0 if there is none.                                                     *)
ForPlaceFirst(text, from) ==
  LET at == {i \in Places(text, <<"for">>) : i >= from}
  IN  IF at = {} THEN 0 ELSE Min(at)
ForPlace(text, from) ==
  LET at == {i \in Places(text, <<"for">>) : i >= from}
  IN  IF at = {} THEN 0 ELSE Max(at)
DamageFrom(text, from) == IF ForPlace(text, from) = 0 THEN 0
                          ELSE ToInt(After(text, ForPlace(text, from)))

ParseDamage(text) ==
  LET i == VerbPlace(text)
  IN  CASE HasTaken(text) ->
             [type |-> "MAGIC", source |-> <<"Non-melee">>, target |-> Me,
              verb |-> <<"have", "taken">>, damage |-> ToInt(<<Last(text)>>)]
        [] ~HasTaken(text) /\ i = 0 -> Unknown
        [] ~HasTaken(text) /\ i > 0 /\ NonMeleeAt(text, i) ->
             [type |-> "MAGIC", source |-> <<"You">>, target |-> Before(text, i),
              verb |-> <<text[i + 3]>>, damage |-> DamageFrom(text, i + 4)]
        [] ~HasTaken(text) /\ i > 0 /\ HealedAt(text, i) ->
             [type |-> "HEAL", source |-> << >>, target |-> Before(text, i),
              verb |-> <<"have", "been", "healed">>,
              damage |-> DamageFrom(text, i + 3)]
        [] OTHER ->
             [type |-> "MELEE", source |-> Before(text, i),
              target |-> Between(text, i, ForPlace(text, i + 2)),
              verb |-> ActionVerbs[CHOOSE v \in MeleeAt(text, i) : TRUE].verb,
              damage |-> DamageFrom(text, i + 2)]
-----------------------------------------------------------------------------
(* Lines that end in a full stop. *)
ParseStatement(text) ==
  CASE EndsWith(text, PointsOfDamage) -> ParseDamage(Without(text, PointsOfDamage))
    [] EndsWith(text, PointOfDamage)  -> ParseDamage(Without(text, PointOfDamage))
    [] EndsWith(text, <<"died", ".">>) ->
         [Unknown EXCEPT !.type = "DEATH", !.verb = <<"died">>,
                         !.target = Without(text, <<"died", ".">>)]
    [] OTHER -> Unknown

(* Lines that end in a number in parentheses announce a special hit. *)
Announcement ==
  [CRIT |-> <<"Scores", "a", "critical", "hit", "!", "(">>,
   CRIP |-> <<"lands", "a", "Crippling", "Blow", "!", "(">>,
   HOLYBLADE |-> <<"'s", "holy", "blade", "cleanses", "his", "target", "!", "(">>]
Announces(text, type) == Has(text, Announcement[type])
ParseAnnouncement(text) ==
  LET type == CASE Announces(text, "CRIT") -> "CRIT"
                [] ~Announces(text, "CRIT") /\ Announces(text, "CRIP") -> "CRIP"
                [] OTHER -> "HOLYBLADE"
      i == Place(text, Announcement[type])
  IN  IF \A t \in DOMAIN Announcement : ~Announces(text, t) THEN Unknown
      ELSE [Unknown EXCEPT !.type = type, !.source = Before(text, i),
              !.damage = ToInt(Between(text, i + Len(Announcement[type]) - 1,
                                       Len(text)))]

(* What ends a try that did not hit, said of "You" and of anybody else. *)
Ending == [MISS    |-> {<<"miss", "!">>, <<"misses", "!">>},
           PARRY   |-> {<<"parry", "!">>, <<"parries", "!">>},
           DODGE   |-> {<<"dodge", "!">>, <<"dodges", "!">>},
           RIPOSTE |-> {<<"riposte", "!">>, <<"ripostes", "!">>},
           BLOCK   |-> {<<"block", "!">>, <<"blocks", "!">>},
           ABSORB  |-> {<<"magical", "skin", "absorbs", "the", "blow", "!">>}]
Evaded(text) == {t \in DOMAIN Ending : \E e \in Ending[t] : EndsWith(text, e)}
ParseTry(text, i) ==
  [type   |-> IF Evaded(text) = {} THEN "UNKNOWN"
              ELSE CHOOSE t \in Evaded(text) : TRUE,
   source |-> Before(text, i),
   target |-> Between(text, i + 2, Place(text, <<",", "but">>)),
   verb   |-> <<text[i + 2]>>, damage |-> 0]

ParseSlainBy(text, phrase) ==
  LET i == Place(text, phrase)
  IN  [Unknown EXCEPT !.type = "DEATH", !.verb = phrase,
         !.target = Before(text, i),
         !.source = Between(text, i + Len(phrase) - 1, Len(text))]
ParseSlain(text) ==
  LET i == Place(text, <<"have", "slain">>)
  IN  [Unknown EXCEPT !.type = "DEATH", !.verb = <<"have", "slain">>,
         !.source = Before(text, i), !.target = Between(text, i + 1, Len(text))]

(* Lines that end in an exclamation mark. *)
Tries(text) == IF Has(text, <<"try", "to">>) THEN Place(text, <<"try", "to">>)
               ELSE Place(text, <<"tries", "to">>)
HasBeenSlainBy  == <<"has", "been", "slain", "by">>
HaveBeenSlainBy == <<"have", "been", "slain", "by">>
ParseExclamation(text) ==
  IF Tries(text) # 0 THEN ParseTry(text, Tries(text))
  ELSE IF Has(text, <<"have", "slain">>) THEN ParseSlain(text)
  ELSE IF Has(text, HasBeenSlainBy) THEN ParseSlainBy(text, HasBeenSlainBy)
  ELSE IF Has(text, HaveBeenSlainBy) THEN ParseSlainBy(text, HaveBeenSlainBy)
  ELSE Unknown

Action_parse(text) ==
  CASE LastMark(text) = "." -> ParseStatement(text)
    [] LastMark(text) = ")" -> ParseAnnouncement(text)
    [] LastMark(text) = "!" -> ParseExclamation(text)
    [] OTHER -> Unknown
=============================================================================
