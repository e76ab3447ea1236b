------------------------------- MODULE Words --------------------------------
(***************************************************************************)
(* The text of a log line as both parsers search it: a sequence of words   *)
(* and marks, the single spaces between words left out.  A phrase the code *)
(* writes with a space at either end (" have slain ") is a run of words    *)
(* that neither begins the text nor is followed by a mark or by its end.   *)
(* The empty word stands for a space too many, as at the end of "bite ".   *)
(***************************************************************************)
EXTENDS Integers, SequencesExt

CONSTANT Value   \* the numbers the log prints: from their digits to their value

NoWord == ""
Mark == {".", "!", ",", "(", ")", "'s"}

Before(text, i) == SubSeq(text, 1, i - 1)
After(text, i)  == SubSeq(text, i + 1, Len(text))
Between(text, i, j) == SubSeq(text, i + 1, j - 1)

PhraseAt(text, i, phrase) ==
  LET next == i + Len(phrase)
  IN  /\ i > 1
      /\ next <= Len(text)
      /\ SubSeq(text, i, next - 1) = phrase
      /\ text[next] \notin Mark

(* String_find: the first place of a phrase, 0 if it is not in the text. *)
Places(text, phrase) == {i \in 1..Len(text) : PhraseAt(text, i, phrase)}
Place(text, phrase) == IF Places(text, phrase) = {} THEN 0
                       ELSE Min(Places(text, phrase))
Has(text, phrase) == Places(text, phrase) # {}

(* String_endsWith, the ending being preceded by a space. *)
EndsWith(text, ending) == IsSuffix(ending, text) /\ Len(text) > Len(ending)
Without(text, ending)  == SubSeq(text, 1, Len(text) - Len(ending))
LastMark(text) == IF text = << >> THEN NoWord ELSE Last(text)

(* String_toInt adds up whatever the characters are; of words that are no  *)
(* number it makes some integer, here a negative one.                      *)
Gibberish == -1
ToInt(text) == IF text = << >> THEN 0
               ELSE IF Len(text) = 1 /\ text[1] \in DOMAIN Value
               THEN Value[text[1]] ELSE Gibberish

PointsOfDamage == <<"points", "of", "damage", ".">>
PointOfDamage  == <<"point", "of", "damage", ".">>

(* struct Action as Action_ctor leaves it. *)
Unknown == [type |-> "UNKNOWN", source |-> << >>, target |-> << >>,
            verb |-> << >>, damage |-> 0]
=============================================================================
