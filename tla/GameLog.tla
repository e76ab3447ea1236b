------------------------------ MODULE GameLog -------------------------------
(***************************************************************************)
(* The lines the game writes about a fight, and the two parsers reading    *)
(* them.  What the game means by a line is a record; Text is how it puts   *)
(* it, in the forms that the comments and the tests of action.c and the    *)
(* sample logs give.  In front of each line is a date, by the calendar; a  *)
(* reader that comes to the log in the middle of a line gets only its end. *)
(***************************************************************************)
EXTENDS Parser, Date

CONSTANTS
  Release,       \* the day the game was released
  Instants,      \* seconds of the day at which lines are dated
  LastDay,       \* bound on the days since the release
  LastTextDay,   \* bound on the days of which the texts are looked at: they
                 \* do not depend on the date
  Name,          \* who fights: sequences of words
  ThirdPerson    \* the verbs of fighting, from "slash" to "slashes"

Number == DOMAIN Value
VerbWords == UNION {ActionVerbs[v].put : v \in DOMAIN ActionVerbs}
(* A name that holds one of these pairs reads as a try or a death, and one *)
(* that ends in a verb or in "by" may read as the beginning of a hit that  *)
(* has no target or no damage: "You bite a claw for 7 points of damage."   *)
Pairs == {<<"try", "to">>, <<"tries", "to">>, <<"have", "slain">>, <<"been", "slain">>}
Harmless(name) ==
  /\ Last(name) \notin VerbWords \union {"by"}
  /\ \A i \in 1..(Len(name) - 1) : <<name[i], name[i + 1]>> \notin Pairs

ASSUME WordsAssumption ==
  /\ Value \in [Number -> Nat \ {0}]
  /\ Number \subseteq STRING \ (Mark \union {NoWord})
  /\ Name \union {Me} \subseteq Seq(STRING \ (Mark \union {NoWord})) \ {<< >>}
  /\ DOMAIN ThirdPerson \subseteq DOMAIN ActionVerbs
  /\ \A v \in DOMAIN ThirdPerson : ThirdPerson[v] \in ActionVerbs[v].put \ {v}
ASSUME NamesAssumption == \A n \in Name : Harmless(n)

ASSUME CalendarAssumption ==
  /\ Release = [year |-> 1999, month |-> 3, day |-> 16]
  /\ NoStamp \notin [year : Nat, month : {Month[m] : m \in 1..12}, day : Nat,
                     hour : Nat, minute : Nat, second : Nat]
  /\ Instants \subseteq 0..(DAY - 1) /\ LastDay \in Nat /\ LastTextDay \in 0..LastDay

PP == INSTANCE ParserPP

VARIABLES
  said,      \* what the game meant by the line, Nothing between two lines
  dated,     \* whether the line that was handed over has its date in front
  text,      \* what is behind the date, or what is left of that
  action,    \* what dps makes of it
  actionPP   \* what dps++ makes of it

VARIABLES
  calendar,  \* the day, as year, month (a number) and day
  days,      \* the days since the release
  stamped,   \* the date in front of the line, NoStamp between two lines
  instant,   \* the second of the day that it means
  date       \* what dps makes of it

line  == <<said, dated, text, action, actionPP>>
dates == <<calendar, days, stamped, instant, date>>
vars  == <<line, dates>>

You == <<"You">>
YOU == <<"YOU">>
Nobody == << >>
Says(says, source, target, verb, number) ==
  [says |-> says, source |-> source, target |-> target, verb |-> verb,
   number |-> number]
Nothing == Says("nothing", Nobody, Nobody, NoWord, NoWord)

(* The log's owner fights others; others fight each other, too. *)
Opponents == (Name \X (Name \union {YOU})) \union ({You} \X Name)
Sayings ==
  {Says("MELEE", p[1], p[2], v, n) :
     p \in Opponents, v \in DOMAIN ThirdPerson, n \in Number}
  \union {Says(t, p[1], p[2], v, NoWord) :
     t \in DOMAIN Ending, p \in Opponents, v \in DOMAIN ThirdPerson}
  \union {Says("spell", You, t, NoWord, n) : t \in Name \union {You}, n \in Number}
  \union {Says(t, Nobody, You, NoWord, n) : t \in {"area", "HEAL"}, n \in Number}
  \union {Says(t, s, Nobody, NoWord, n) :
     t \in {"CRIT", "CRIP", "HOLYBLADE"}, s \in Name \union {You}, n \in Number}
  \union {Says("slew", You, t, NoWord, NoWord) : t \in Name}
  \union {Says("slain", s, t, NoWord, NoWord) : s \in Name, t \in Name \union {You}}
  \union {Says("died", Nobody, t, NoWord, NoWord) : t \in Name}

(* The second person of a verb goes with "You" and "YOU". *)
Conj(who, second, third) == <<IF who \in {You, YOU} THEN second ELSE third>>
Tried(s) == s.source \o Conj(s.source, "try", "tries") \o <<"to", s.verb>>
            \o s.target \o <<",", "but">>
Hurt(s, points) == <<"for", s.number>> \o points

Text(s, points) ==
  CASE s.says = "MELEE" ->
         s.source \o Conj(s.source, s.verb, ThirdPerson[s.verb]) \o s.target
           \o Hurt(s, points)
    [] s.says = "spell" ->
         s.target \o Conj(s.target, "were", "was")
           \o <<"hit", "by", "non-melee">> \o Hurt(s, points)
    [] s.says = "area" ->
         <<"Your", "body", "combusts", "as", "the", "lava", "hits", "you", ".",
           "You", "have", "taken", s.number>> \o points
    [] s.says = "HEAL" -> <<"You", "have", "been", "healed">> \o Hurt(s, points)
    [] s.says = "CRIT" -> s.source \o <<"Scores", "a", "critical", "hit", "!",
                                        "(", s.number, ")">>
    [] s.says = "CRIP" -> s.source \o <<"lands", "a", "Crippling", "Blow", "!",
                                        "(", s.number, ")">>
    [] s.says = "HOLYBLADE" ->
         s.source \o <<"'s", "holy", "blade", "cleanses", "his", "target", "!",
                       "(", s.number, ")">>
    [] s.says = "MISS" -> Tried(s) \o Conj(s.source, "miss", "misses") \o <<"!">>
    [] s.says = "PARRY" -> Tried(s) \o s.target \o Conj(s.target, "parry", "parries") \o <<"!">>
    [] s.says = "DODGE" -> Tried(s) \o s.target \o Conj(s.target, "dodge", "dodges") \o <<"!">>
    [] s.says = "RIPOSTE" -> Tried(s) \o s.target \o Conj(s.target, "riposte", "ripostes") \o <<"!">>
    [] s.says = "BLOCK" -> Tried(s) \o s.target \o Conj(s.target, "block", "blocks") \o <<"!">>
    [] s.says = "ABSORB" ->
         Tried(s) \o (IF s.target = YOU THEN <<"YOUR">> ELSE s.target \o <<"'s">>)
           \o <<"magical", "skin", "absorbs", "the", "blow", "!">>
    [] s.says = "slew" -> <<"You", "have", "slain">> \o s.target \o <<"!">>
    [] s.says = "slain" -> s.target \o Conj(s.target, "have", "has")
                             \o <<"been", "slain", "by">> \o s.source \o <<"!">>
    [] OTHER -> s.target \o <<"died", ".">>

(* How many points, if the line counts any; the logs hold both spellings   *)
(* with any number.                                                        *)
Points(s) == IF s.says \in {"MELEE", "spell", "area", "HEAL"}
             THEN {PointsOfDamage, PointOfDamage} ELSE {<< >>}

(* What a parser should make of it. *)
Meaning(s) ==
  LET Act(type, source, verb) ==
        [type |-> type, source |-> source, target |-> s.target, verb |-> verb,
         damage |-> IF s.number = NoWord THEN 0 ELSE Value[s.number]]
  IN  CASE s.says = "spell" -> Act("MAGIC", You, <<"non-melee">>)
        [] s.says = "area" -> [Act("MAGIC", <<"Non-melee">>, <<"have", "taken">>)
                                 EXCEPT !.target = Me]
        [] s.says = "HEAL" -> Act("HEAL", Nobody, <<"have", "been", "healed">>)
        [] s.says \in {"CRIT", "CRIP", "HOLYBLADE"} -> Act(s.says, s.source, << >>)
        [] s.says = "slew" -> Act("DEATH", s.source, <<"have", "slain">>)
        [] s.says = "slain" ->
             Act("DEATH", s.source,
                 Conj(s.target, "have", "has") \o <<"been", "slain", "by">>)
        [] s.says = "died" -> Act("DEATH", Nobody, <<"died">>)
        [] OTHER -> Act(s.says, s.source, <<s.verb>>)

Init == /\ said = Nothing
        /\ dated = FALSE
        /\ text = << >>
        /\ action = Unknown
        /\ actionPP = Unknown
        /\ calendar = Release /\ days = 0
        /\ stamped = NoStamp /\ instant = 0 /\ date = -1

(* Between two lines tellme gets one.  tail hands over whole lines, but    *)
(* the first is what the game writes after the log was opened: without     *)
(* --history it may lack a beginning, of the date and of some words.  No   *)
(* such rest of a line looks like a date, and tellme returns.              *)
Parse(s, points, missed) ==
  /\ said' = s
  /\ dated' = (missed = 0)
  /\ text' = IF dated' THEN Text(s, points)
             ELSE SubSeq(Text(s, points), missed, Len(Text(s, points)))
  /\ action' = IF dated' THEN Action_parse(text') ELSE Unknown
  /\ actionPP' = IF dated' THEN PP!Action_parse(text') ELSE Unknown
(* The action is destroyed when tellme returns. *)
Return == /\ said # Nothing
          /\ said' = Nothing
          /\ dated' = FALSE
          /\ text' = << >>
          /\ action' = Unknown
          /\ actionPP' = Unknown

Lines == /\ \/ /\ said = Nothing /\ days <= LastTextDay /\ stamped = NoStamp
               /\ \E s \in Sayings : \E points \in Points(s) :
                    \E missed \in 0..Len(Text(s, points)) : Parse(s, points, missed)
            \/ Return
         /\ UNCHANGED dates
-----------------------------------------------------------------------------
(* The calendar of the game, the Gregorian. *)
Thirty == {4, 6, 9, 11}
LengthOfMonth(c) ==
  IF c.month = 2
  THEN IF (c.year % 4 = 0 /\ c.year % 100 # 0) \/ c.year % 400 = 0 THEN 29 ELSE 28
  ELSE IF c.month \in Thirty THEN 30 ELSE 31
DayAfter(c) ==
  IF c.day < LengthOfMonth(c) THEN [c EXCEPT !.day = @ + 1]
  ELSE IF c.month < 12 THEN [c EXCEPT !.month = @ + 1, !.day = 1]
  ELSE [year |-> c.year + 1, month |-> 1, day |-> 1]
Midnight == /\ stamped = NoStamp /\ said = Nothing
            /\ days < LastDay
            /\ days' = days + 1
            /\ calendar' = DayAfter(calendar)
            /\ UNCHANGED <<line, stamped, instant, date>>

(* The date of a line written at a second of the day. *)
StampAt(c, s) == [year |-> c.year, month |-> Month[c.month], day |-> c.day,
                  hour |-> s \div HOUR, minute |-> (s \div MINUTE) % (HOUR \div MINUTE),
                  second |-> s % MINUTE]
(* tellme parses the date in front of a line before the line. *)
ReadDate(s) == /\ stamped = NoStamp /\ said = Nothing
               /\ stamped' = StampAt(calendar, s)
               /\ instant' = s
               /\ date' = parseDate(stamped')
               /\ UNCHANGED <<line, calendar, days>>
ForgetDate == /\ stamped # NoStamp
              /\ stamped' = NoStamp /\ instant' = 0 /\ date' = -1
              /\ UNCHANGED <<line, calendar, days>>

Next == Lines \/ Midnight \/ (\E s \in Instants : ReadDate(s)) \/ ForgetDate

Spec == Init /\ [][Next]_vars
-----------------------------------------------------------------------------
(* A verb anywhere but at the beginning of a name is taken for the verb,  *)
(* and so is "have been healed".                                          *)
Plain(name) == \A i \in 2..Len(name) :
                 /\ name[i] \notin VerbWords
                 /\ <<name[i - 1], name[i]>> # <<"been", "healed">>

(* A line is parsed to what the game meant by it: the area effect whose    *)
(* text says "hits", the passive and the active death, a target of several *)
(* words, the number after the last " for ".  The rest of one whose        *)
(* beginning was missed is nothing, and above all not a shorter line with  *)
(* other fighters.  Left aside are names that are not Plain and the verb   *)
(* "bite".                                                                 *)
MeaningParsed ==
  /\ said # Nothing
  /\ Plain(said.source) /\ Plain(said.target)
  /\ said.verb # "bite"
  => action = IF dated THEN Meaning(said) ELSE Unknown

(* What Dps assumes of the lines it accounts for (its LogAssumption), a    *)
(* verb or a "for" in a name notwithstanding: fighters on both sides of a  *)
(* hit or a try, a dead one in a death, a hit for at least a point.        *)
FightersNamed ==
  /\ action.type \in {"MELEE", "MAGIC"} \union DOMAIN Ending =>
       action.source # Nobody /\ action.target # Nobody
  /\ action.type = "DEATH" => action.target # Nobody
  /\ action.type \in {"MELEE", "MAGIC"} => action.damage > 0

(* The two parsers agree on the kind of a line, its damage and its target, *)
(* and on a source that the text names, but for the tries, which dps++     *)
(* does not parse, and for the target of a hit with the word "for" in what *)
(* dps takes for the target, which dps++ mangles.                          *)
ForIn(name) == "for" \in ToSet(name)
SameAsDpsPP ==
  IF action.type \in DOMAIN Ending THEN actionPP = Unknown
  ELSE /\ actionPP.type = action.type
       /\ actionPP.damage = action.damage
       /\ action.type # "MAGIC" => actionPP.source = action.source
       /\ \/ actionPP.target = action.target
          \/ action.type = "MELEE" /\ ForIn(action.target)

(* Over leap years, leap centuries and the ends of months, the date of a   *)
(* line is parsed to the seconds since the release that have passed, and   *)
(* the report, which prints it from them, gives it back as the line had it *)
(* (parseDate and unparseDate count days in two different ways).           *)
DatesAgree ==
  stamped # NoStamp => /\ date = days * DAY + instant
                       /\ unparseDate(date) = stamped

(* The verb of a hit is stored without spaces (action.c: "No spaces").     *)
VerbWithoutSpaces == action.type = "MELEE" => NoWord \notin ToSet(action.verb)
=============================================================================
