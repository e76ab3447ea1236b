---------------------------- MODULE ParserProofs ----------------------------
(***************************************************************************)
(* For every set of names (of words, none with a verb at its end or a pair *)
(* of words that begins a try or a death) and every set of numbers: no     *)
(* hit, try or death that the parser makes of a line lacks a fighter or    *)
(* damage, of a line with plain names it makes what the line says, and     *)
(* both parsers make the same of a line.                                   *)
(*                                                                         *)
(* First what the parser finds in a text of a certain form, whatever the   *)
(* words around: HitParsed, AreaParsed, SlainParsed, TryParsed.  Then that *)
(* every line the game writes has one of six forms (TextIs), which are     *)
(* where its marks and its pairs of words are, and what the parser makes   *)
(* of each form (LineNamed).  The invariant LineInv says what the          *)
(* variables hold: there is no line, or one without its date of which      *)
(* nothing was made, or one that the parsers were given.                   *)
(*                                                                         *)
(* Then the values: Holds says where the parts of a line stand in it, a    *)
(* lemma for each branch of the parser (HitMeant, SpellMeant, HealMeant    *)
(* and so on) what is read from there, a lemma for each kind of line that  *)
(* this is what was meant, and LineMeant puts them together.               *)
(*                                                                         *)
(* Then the port: on any text it finds the same places (SamePlaces,        *)
(* SameVerbPlace) and cuts out the same words, so each branch gives the    *)
(* same (DamageAgrees, AnnouncementAgrees, ExclamationAgrees) but for the  *)
(* tries, in the text of which there is nothing for it (TryIgnored).       *)
(*                                                                         *)
(* Last, the dates in front of the lines: within a year, whatever year it  *)
(* is and however long its days, what parseDate makes of a stamp of        *)
(* unparseDate is what the stamp was made of; the loops over the years     *)
(* take and add the same days (YearReached); and the calendar of the game  *)
(* goes along with both (DateInv).                                         *)
(***************************************************************************)
EXTENDS GameLog, SequenceTheorems, FiniteSetTheorems, WellFoundedInduction, TLAPS

(* The first and the last of some places of a text. *)
LEMMA LeastPlace ==
  ASSUME NEW n \in Nat, NEW T \in SUBSET (1..n), T # {}
  PROVE  Min(T) \in T /\ \A y \in T : Min(T) <= y
<1> DEFINE R == StrictSubsetOrdering(1..n)
           D == FiniteSubsetsOf(1..n)
           W == {1..i : i \in T}
<1>1. IsWellFoundedOn(R, D)
  BY FS_StrictSubsetOrderingWellFounded
<1>2. W \subseteq D /\ W # {}
  <2>1. \A i \in T : IsFiniteSet(1..i)
    BY FS_Interval
  <2>2. \A i \in T : 1..i \in SUBSET (1..n)
    OBVIOUS
  <2>3. W \subseteq D
    BY <2>1, <2>2 DEF FiniteSubsetsOf
  <2> QED BY <2>3
<1>3. \E x \in W : \A y \in W : <<y, x>> \notin R
  <2> HIDE DEF R, D, W
  <2> QED BY <1>1, <1>2, WFMin
<1>4. PICK i \in T : \A j \in T : <<1..j, 1..i>> \notin R
  BY <1>3
<1>5. ASSUME NEW j \in T, j < i
      PROVE  <<1..j, 1..i>> \in R
  <2>1. i \in 1..i /\ i \notin 1..j
    BY <1>5
  <2>2. 1..j \subseteq 1..i /\ 1..j # 1..i
    BY <1>5, <2>1
  <2> QED BY <2>2 DEF StrictSubsetOrdering
<1>6. \A j \in T : i <= j
  <2>1. \A j \in T : ~(j < i)
    BY <1>4, <1>5, Zenon
  <2> QED BY <2>1
<1> QED BY <1>6 DEF Min

(* VerbWords, spelled out, holds no word of the other phrases. *)
LEMMA VerbWordsAre ==
  VerbWords = {"backstab", "backstabs", "bash", "bashes", "bites", "claw", "claws",
               "crush", "crushes", "gore", "gores", "hit", "hits", "kick", "kicks",
               "maul", "mauls", "pierce", "pierces", "punch", "punches", "rend",
               "rends", "slash", "slashes", "slice", "slices", "smash", "smashes"}
<1> DEFINE Put(v) == ActionVerbs[v].put
           V == {"backstab", "bash", "bite", "claw", "crush", "gore", "hit", "kick",
                 "maul", "pierce", "punch", "rend", "slash", "slice", "smash"}
<1>1. DOMAIN ActionVerbs = V
  BY DEF ActionVerbs
<1>2. /\ Put("backstab") = {"backstab", "backstabs"} /\ Put("bash") = {"bash", "bashes"}
      /\ Put("bite") = {"bites"} /\ Put("claw") = {"claw", "claws"}
      /\ Put("crush") = {"crush", "crushes"} /\ Put("gore") = {"gore", "gores"}
      /\ Put("hit") = {"hit", "hits"} /\ Put("kick") = {"kick", "kicks"}
      /\ Put("maul") = {"maul", "mauls"} /\ Put("pierce") = {"pierce", "pierces"}
      /\ Put("punch") = {"punch", "punches"} /\ Put("rend") = {"rend", "rends"}
      /\ Put("slash") = {"slash", "slashes"} /\ Put("slice") = {"slice", "slices"}
      /\ Put("smash") = {"smash", "smashes"}
  BY DEF ActionVerbs
<1>3. VerbWords = UNION {Put(v) : v \in V}
  BY <1>1 DEF VerbWords
<1> HIDE DEF Put
<1> QED BY <1>2, <1>3

(* What PhraseAt finds, word by word. *)
LEMMA PhraseLength ==
  ASSUME NEW words, NEW i, NEW phrase, PhraseAt(words, i, phrase)
  PROVE  i > 1 /\ i + Len(phrase) <= Len(words)
BY DEF PhraseAt

(* ... and that the words of the text there are those of the phrase. *)
LEMMA PhraseWords ==
  ASSUME NEW words, NEW i \in Int, NEW phrase, PhraseAt(words, i, phrase), Len(phrase) \in Nat
  PROVE  \A m \in 1..Len(phrase) : phrase[m] = words[i + m - 1]
<1> DEFINE j == i + Len(phrase) - 1
           S == {words[m] : m \in i..j}
<1>1. i > 1 /\ i + Len(phrase) <= Len(words) /\ SubSeq(words, i, j) = phrase
  BY DEF PhraseAt
<1>2. i \in Int /\ j \in Int /\ \A m \in i..j : words[m] \in S
  BY <1>1
<1>3. \A m \in 1..(j - i + 1) : SubSeq(words, i, j)[m] = words[i + m - 1]
  BY <1>2, SubSeqProperties
<1>4. j - i + 1 = Len(phrase)
  BY ONLY i \in Int, Len(phrase) \in Nat
<1> QED BY ONLY <1>1, <1>3, <1>4

(* The first word of a phrase that was found. *)
LEMMA PhraseFirst ==
  ASSUME NEW words, NEW i \in Int, NEW phrase, PhraseAt(words, i, phrase),
         Len(phrase) \in Nat, Len(phrase) >= 1
  PROVE  words[i] = phrase[1]
<1>1. \A m \in 1..Len(phrase) : phrase[m] = words[i + m - 1]
  BY PhraseWords
<1> QED BY <1>1

(* The second. *)
LEMMA PhraseSecond ==
  ASSUME NEW words, NEW i \in Int, NEW phrase, PhraseAt(words, i, phrase),
         Len(phrase) \in Nat, Len(phrase) >= 2
  PROVE  words[i + 1] = phrase[2]
<1>1. \A m \in 1..Len(phrase) : phrase[m] = words[i + m - 1]
  BY PhraseWords
<1> QED BY <1>1

(* The third. *)
LEMMA PhraseThird ==
  ASSUME NEW words, NEW i \in Int, NEW phrase, PhraseAt(words, i, phrase),
         Len(phrase) \in Nat, Len(phrase) >= 3
  PROVE  words[i + 2] = phrase[3]
<1>1. \A m \in 1..Len(phrase) : phrase[m] = words[i + m - 1]
  BY PhraseWords
<1> QED BY <1>1

(* The other way round, for a phrase of one word and of two. *)
LEMMA WordFits ==
  ASSUME NEW S, NEW words \in Seq(S), NEW i \in Int,
         i > 1, i + 1 <= Len(words), words[i + 1] \notin Mark
  PROVE  PhraseAt(words, i, <<words[i]>>)
<1>1. i \in Int /\ \A k \in i..i : words[k] \in S
  OBVIOUS
<1>2. SubSeq(words, i, i) \in Seq(S) /\ Len(SubSeq(words, i, i)) = 1
      /\ \A k \in 1..(i - i + 1) : SubSeq(words, i, i)[k] = words[i + k - 1]
  BY <1>1, SubSeqProperties
<1> DEFINE run == SubSeq(words, i, i)
<1>3. run \in Seq(S) /\ Len(run) = 1 /\ run[1] = words[i]
  BY <1>2
<1> HIDE DEF run
<1>4. <<words[i]>> \in Seq(S) /\ Len(<<words[i]>>) = 1 /\ <<words[i]>>[1] = words[i]
  OBVIOUS
<1>5. run = <<words[i]>>
  BY <1>3, <1>4, SeqEqual
<1> QED BY <1>4, <1>5 DEF PhraseAt, run

(* Two words of the text are a phrase in it. *)
LEMMA TwoWordsFit ==
  ASSUME NEW S, NEW words \in Seq(S), NEW i \in Int,
         i > 1, i + 2 <= Len(words), words[i + 2] \notin Mark
  PROVE  PhraseAt(words, i, <<words[i], words[i + 1]>>)
<1> DEFINE run == SubSeq(words, i, i + 1)
           two == <<words[i], words[i + 1]>>
<1>1. i \in Int /\ i + 1 \in Int /\ \A k \in i..(i + 1) : words[k] \in S
  OBVIOUS
<1>2. run \in Seq(S) /\ Len(run) = (IF i <= i + 1 THEN i + 1 - i + 1 ELSE 0)
      /\ \A k \in 1..(i + 1 - i + 1) : run[k] = words[i + k - 1]
  BY <1>1, SubSeqProperties
<1> HIDE DEF run
<1>3. Len(run) = 2 /\ run[1] = words[i] /\ run[2] = words[i + 1]
  BY <1>2
<1>4. two \in Seq(S) /\ Len(two) = 2 /\ two[1] = words[i] /\ two[2] = words[i + 1]
  BY <1>1
<1> HIDE DEF two
<1>5. run = two
  BY <1>2, <1>3, <1>4, SeqEqual
<1> QED BY <1>4, <1>5 DEF PhraseAt, run, two

(* Where one of the verbs of a hit is put. *)
LEMMA MeleeWord ==
  ASSUME NEW S, NEW words \in Seq(S), NEW i \in Int, MeleeAt(words, i) # {}
  PROVE  i > 1 /\ i < Len(words) /\ words[i] \in VerbWords
<1>1. PICK v \in DOMAIN ActionVerbs : \E w \in ActionVerbs[v].put : PhraseAt(words, i, <<w>>)
  BY DEF MeleeAt
<1>2. PICK w \in ActionVerbs[v].put : PhraseAt(words, i, <<w>>)
  BY <1>1
<1>3. w \in VerbWords
  BY DEF VerbWords
<1> DEFINE phrase == <<w>>
<1>4. phrase[1] = w /\ Len(phrase) \in Nat /\ Len(phrase) >= 1 /\ Len(phrase) = 1
  OBVIOUS
<1>5. PhraseAt(words, i, phrase)
  BY <1>2
<1> HIDE DEF phrase
<1>6. i > 1 /\ i + 1 <= Len(words)
  BY <1>4, <1>5, PhraseLength
<1>7. words[i] = phrase[1]
  BY <1>4, <1>5, PhraseFirst, Zenon
<1> QED BY <1>3, <1>4, <1>6, <1>7

(* The words before a place, and those between two. *)
LEMMA BeforeIs ==
  ASSUME NEW S, NEW words \in Seq(S), NEW i \in 2..(Len(words) + 1)
  PROVE  Before(words, i) \in Seq(S) /\ Len(Before(words, i)) = i - 1 /\ Before(words, i) # << >>
<1> DEFINE j == i - 1
<1>1. j \in Int /\ 1 <= j /\ \A k \in 1..j : words[k] \in S
  OBVIOUS
<1>2. SubSeq(words, 1, j) \in Seq(S) /\ Len(SubSeq(words, 1, j)) = (IF 1 <= j THEN j - 1 + 1 ELSE 0)
  BY <1>1, SubSeqProperties
<1> QED BY <1>1, <1>2 DEF Before

(* Two places with a word between them have words between them. *)
LEMMA BetweenIs ==
  ASSUME NEW S, NEW words \in Seq(S), NEW i \in 0..Len(words), NEW j \in Int,
         i + 1 < j, j <= Len(words) + 1
  PROVE  Between(words, i, j) # << >>
<1> DEFINE m == i + 1
           n == j - 1
<1>1. m \in Int /\ n \in Int /\ m <= n /\ \A k \in m..n : words[k] \in S
  OBVIOUS
<1>2. Len(SubSeq(words, m, n)) = (IF m <= n THEN n - m + 1 ELSE 0)
  BY <1>1, SubSeqProperties
<1>3. Len(SubSeq(words, m, n)) # 0
  BY <1>1, <1>2
<1> QED BY <1>3 DEF Between

(* The phrases that are looked for in a hit, word by word. *)
LEMMA HitByWords ==
  ASSUME NEW S, NEW words \in Seq(S), NEW i \in Int, NonMeleeAt(words, i)
  PROVE  /\ i > 1 /\ i + 3 <= Len(words)
         /\ words[i] \in {"was", "were"} /\ words[i + 1] = "hit" /\ words[i + 2] = "by"
<1>1. PICK were \in {"was", "were"} : PhraseAt(words, i, <<were, "hit", "by">>)
  BY DEF NonMeleeAt
<1> DEFINE phrase == <<were, "hit", "by">>
<1>2. /\ phrase[1] = were /\ phrase[2] = "hit" /\ phrase[3] = "by"
      /\ Len(phrase) \in Nat /\ Len(phrase) >= 3 /\ Len(phrase) = 3
  OBVIOUS
<1>3. PhraseAt(words, i, phrase)
  BY <1>1
<1> HIDE DEF phrase
<1>4. i > 1 /\ i + 3 <= Len(words)
  BY <1>2, <1>3, PhraseLength
<1>5. words[i + 2] = phrase[3]
  BY <1>2, <1>3, PhraseThird, Zenon
<1>6. words[i] = phrase[1]
  <2>1. Len(phrase) >= 1
    BY <1>2
  <2> QED BY <2>1, <1>2, <1>3, PhraseFirst, Zenon
<1>7. words[i + 1] = phrase[2]
  <2>1. Len(phrase) >= 2
    BY <1>2
  <2> QED BY <2>1, <1>2, <1>3, PhraseSecond, Zenon
<1> QED BY <1>2, <1>4, <1>5, <1>6, <1>7

(* " have been healed ", too. *)
LEMMA HealedWords ==
  ASSUME NEW words, NEW i \in Int, HealedAt(words, i)
  PROVE  /\ i > 1
         /\ words[i] = "have" /\ words[i + 1] = "been" /\ words[i + 2] = "healed"
<1> DEFINE phrase == <<"have", "been", "healed">>
<1>1. /\ phrase[1] = "have" /\ phrase[2] = "been" /\ phrase[3] = "healed"
      /\ Len(phrase) \in Nat /\ Len(phrase) >= 1 /\ Len(phrase) >= 2 /\ Len(phrase) >= 3
  OBVIOUS
<1>2. PhraseAt(words, i, phrase)
  BY DEF HealedAt
<1> HIDE DEF phrase
<1>3. words[i] = phrase[1]
  BY <1>1, <1>2, PhraseFirst, Zenon
<1>4. words[i + 1] = phrase[2]
  BY <1>1, <1>2, PhraseSecond, Zenon
<1>5. words[i + 2] = phrase[3]
  BY <1>1, <1>2, PhraseThird, Zenon
<1>6. i > 1
  BY <1>2, PhraseLength
<1> QED BY <1>1, <1>3, <1>4, <1>5, <1>6

(* " have taken " is right before the last word. *)
LEMMA HaveTakenWords ==
  ASSUME NEW S, NEW words \in Seq(S), HasTaken(words)
  PROVE  Len(words) > 3 /\ words[Len(words) - 1] = "taken"
<1> DEFINE phrase == <<"have", "taken">>
           i == Len(words) - 2
<1>1. phrase[2] = "taken" /\ Len(phrase) \in Nat /\ Len(phrase) >= 2 /\ Len(phrase) = 2
  OBVIOUS
<1>2. PhraseAt(words, i, phrase)
  BY DEF HasTaken
<1>3. i \in Int /\ i + 1 = Len(words) - 1
  OBVIOUS
<1> HIDE DEF phrase, i
<1>4. i > 1 /\ i + 2 <= Len(words)
  BY <1>1, <1>2, PhraseLength
<1>5. words[i + 1] = phrase[2]
  BY <1>1, <1>2, <1>3, PhraseSecond, Zenon
<1> QED BY <1>1, <1>3, <1>4, <1>5

(* A number the log prints counts for at least one. *)
LEMMA NumberIs ==
  ASSUME NEW w \in Number
  PROVE  w \in DOMAIN Value /\ Value[w] > 0 /\ w \notin Mark
<1>1. Value \in [Number -> Nat \ {0}]
  BY WordsAssumption
<1>2. Value[w] \in Nat \ {0}
  BY <1>1
<1>3. w \notin Mark
  BY WordsAssumption
<1> QED BY <1>2, <1>3 DEF Number

(* The damage of a hit follows its last " for ", which is the last but one *)
(* word.                                                                   *)
LEMMA LastFor ==
  ASSUME NEW S, NEW words \in Seq(S), NEW from \in 2..(Len(words) - 1),
         words[Len(words) - 1] = "for", words[Len(words)] \in Number
  PROVE  /\ ForPlace(words, from) = Len(words) - 1
         /\ DamageFrom(words, from) = Value[words[Len(words)]]
         /\ DamageFrom(words, from) > 0
<1> DEFINE n  == Len(words)
           at == {i \in Places(words, <<"for">>) : i >= from}
<1>1. n \in Nat /\ n - 1 \in 1..n /\ n - 1 > 1
  OBVIOUS
<1>2. words[n] \notin Mark
  BY WordsAssumption
<1>3. PhraseAt(words, n - 1, <<words[n - 1]>>)
  BY <1>1, <1>2, WordFits
<1>4. n - 1 \in at
  BY <1>1, <1>3 DEF Places
<1>5. \A i \in at : i <= n - 1
  <2> SUFFICES ASSUME NEW i \in 1..n, PhraseAt(words, i, <<"for">>) PROVE i <= n - 1
    BY <1>1 DEF Places
  <2>1. Len(<<"for">>) = 1
    OBVIOUS
  <2> QED BY <2>1 DEF PhraseAt
<1>6. at \subseteq Int
  BY DEF Places
<1>7. ForPlace(words, from) = IF at = {} THEN 0 ELSE Max(at)
  BY DEF ForPlace
<1> HIDE DEF at
<1>8. Max(at) = n - 1
  <2>1. \A x \in at : (\A y \in at : x >= y) => x = n - 1
    BY <1>1, <1>4, <1>5, <1>6
  <2>2. \A y \in at : n - 1 >= y
    BY <1>1, <1>5, <1>6
  <2> QED BY <1>4, <2>1, <2>2 DEF Max
<1>9. ForPlace(words, from) = n - 1
  BY <1>4, <1>7, <1>8
<1>10. After(words, n - 1) = <<words[n]>>
  <2>1. n - 1 + 1 = n
    BY <1>1
  <2>2. SubSeq(words, n, n) \in Seq(S) /\ Len(SubSeq(words, n, n)) = (IF n <= n THEN n - n + 1 ELSE 0)
        /\ \A i \in 1..(n - n + 1) : SubSeq(words, n, n)[i] = words[n + i - 1]
    <3>1. n \in Int /\ \A k \in n..n : words[k] \in S
      BY <1>1
    <3> HIDE DEF n
    <3> QED BY <3>1, SubSeqProperties
  <2>3. Len(SubSeq(words, n, n)) = 1 /\ SubSeq(words, n, n)[1] = words[n]
    BY <1>1, <2>2
  <2>4. <<words[n]>> \in Seq(S) /\ Len(<<words[n]>>) = 1 /\ <<words[n]>>[1] = words[n]
    BY <1>1
  <2>5. SubSeq(words, n, n) = <<words[n]>>
    <3> DEFINE run == SubSeq(words, n, n)
               one == <<words[n]>>
    <3>1. run \in Seq(S) /\ one \in Seq(S) /\ Len(run) = 1 /\ Len(one) = 1 /\ run[1] = one[1]
      BY <2>2, <2>3, <2>4
    <3> HIDE DEF run, one
    <3>2. run = one
      BY <3>1, SeqEqual
    <3> QED BY <3>2 DEF run, one
  <2> QED BY <2>1, <2>5 DEF After
<1>11. ToInt(<<words[n]>>) = Value[words[n]]
  <2> DEFINE w == words[n]
  <2>1. w \in DOMAIN Value
    BY DEF Number
  <2> HIDE DEF w
  <2>2. Len(<<w>>) = 1 /\ <<w>>[1] = w /\ <<w>> # << >>
    OBVIOUS
  <2>3. ToInt(<<w>>) = Value[w]
    BY <2>1, <2>2 DEF ToInt
  <2> QED BY <2>3 DEF w
<1>12. Value[words[n]] > 0
  BY NumberIs
<1>13. DamageFrom(words, from) = ToInt(After(words, n - 1))
  BY <1>1, <1>9 DEF DamageFrom
<1> QED BY <1>9, <1>10, <1>11, <1>12, <1>13

(* The verb of a hit is found where one begins. *)
LEMMA VerbPlaceIs ==
  ASSUME NEW S, NEW words \in Seq(S)
  PROVE  LET i == VerbPlace(words)
         IN  \/ i = 0
             \/ i \in 1..Len(words) /\ (NonMeleeAt(words, i) \/ HealedAt(words, i)
                                         \/ MeleeAt(words, i) # {})
<1> DEFINE at == {i \in 1..Len(words) : \/ NonMeleeAt(words, i)
                                      \/ HealedAt(words, i)
                                      \/ MeleeAt(words, i) # {}}
<1>1. CASE at = {}
  BY <1>1 DEF VerbPlace
<1>2. CASE at # {}
  <2>1. VerbPlace(words) = Min(at)
    BY <1>2 DEF VerbPlace
  <2>2. at \in SUBSET (1..Len(words)) /\ Len(words) \in Nat
    OBVIOUS
  <2>3. Min(at) \in at
    <3> HIDE DEF at
    <3> QED BY <1>2, <2>2, LeastPlace
  <2> QED BY <2>1, <2>3
<1> QED BY <1>1, <1>2

(* What the parser makes of the text of a hit: "for" is its last but one   *)
(* word, a number the last, and in front is no word that a verb might end  *)
(* with.                                                                   *)
Counted(a) == a.type \in {"MELEE", "MAGIC"} =>
                a.source # << >> /\ a.target # << >> /\ a.damage > 0

(* What the parser makes of such a text names both sides and counts. *)
LEMMA HitParsed ==
  ASSUME NEW S, NEW words \in Seq(S), Len(words) > 2,
         words[Len(words) - 1] = "for", words[Len(words)] \in Number,
         words[Len(words) - 2] \notin VerbWords \union {"by"}
  PROVE  LET a == ParseDamage(words)
         IN  a.type \in {"MELEE", "MAGIC", "HEAL", "UNKNOWN"} /\ Counted(a)
<1> DEFINE n == Len(words)
           i == VerbPlace(words)
           a == ParseDamage(words)
<1>1. n \in Nat /\ n > 2
  OBVIOUS
<1>2. ~HasTaken(words)
  BY HaveTakenWords
<1>3. CASE i = 0
  BY <1>2, <1>3 DEF ParseDamage, Unknown, Counted
<1>4. CASE i # 0
  <2>1. /\ i \in 1..n
        /\ NonMeleeAt(words, i) \/ HealedAt(words, i) \/ MeleeAt(words, i) # {}
    BY <1>4, VerbPlaceIs
  <2>2. i \in Int /\ i > 0
    BY <2>1
  <2> HIDE DEF i
  <2>3. CASE NonMeleeAt(words, i)
    <3>1. i > 1 /\ i + 3 <= n /\ words[i] \in {"was", "were"} /\ words[i + 2] = "by"
      BY <2>2, <2>3, HitByWords, Zenon
    <3>2. i + 2 # n - 1 /\ i + 2 # n - 2
      BY <3>1
    <3>3. i + 4 \in 2..(n - 1) /\ i \in 2..(n + 1)
      BY <1>1, <2>2, <3>1, <3>2
    <3>4. DamageFrom(words, i + 4) > 0
      BY <3>3, LastFor
    <3>5. Before(words, i) # << >>
      BY <3>3, BeforeIs
    <3>6. a = [type |-> "MAGIC", source |-> <<"You">>, target |-> Before(words, i),
               verb |-> <<words[i + 3]>>, damage |-> DamageFrom(words, i + 4)]
      <4>1. ~HealedAt(words, i)
        BY <2>2, <3>1, HealedWords
      <4> QED BY <1>2, <2>2, <2>3, <4>1 DEF ParseDamage, i
    <3> QED BY <3>4, <3>5, <3>6 DEF Counted
  <2>4. CASE ~NonMeleeAt(words, i) /\ HealedAt(words, i)
    <3>1. a.type = "HEAL"
      BY <1>2, <2>2, <2>4 DEF ParseDamage, i
    <3> QED BY <3>1 DEF Counted
  <2>5. CASE ~NonMeleeAt(words, i) /\ ~HealedAt(words, i)
    <3>1. i > 1 /\ i < n /\ words[i] \in VerbWords
      BY <2>1, <2>2, <2>5, MeleeWord
    <3>2. i # n - 1
      BY <3>1, VerbWordsAre
    <3>3. i # n - 2
      BY <3>1
    <3>4. i + 2 \in 2..(n - 1) /\ i \in 2..(n + 1) /\ i \in 0..n
      BY <1>1, <2>2, <3>1, <3>2, <3>3
    <3>5. ForPlace(words, i + 2) = n - 1 /\ DamageFrom(words, i + 2) > 0
      BY <3>4, LastFor
    <3>6. Before(words, i) # << >>
      BY <3>4, BeforeIs
    <3>7. Between(words, i, n - 1) # << >>
      <4>1. n - 1 \in Int /\ i + 1 < n - 1 /\ n - 1 <= n + 1
        BY <1>1, <2>2, <3>4
      <4> QED BY <3>4, <4>1, BetweenIs, Zenon
    <3>8. a = [type |-> "MELEE", source |-> Before(words, i),
               target |-> Between(words, i, ForPlace(words, i + 2)),
               verb |-> ActionVerbs[CHOOSE v \in MeleeAt(words, i) : TRUE].verb,
               damage |-> DamageFrom(words, i + 2)]
      BY <1>2, <2>2, <2>5 DEF ParseDamage, i
    <3> QED BY <3>5, <3>6, <3>7, <3>8 DEF Counted
  <2> QED BY <2>3, <2>4, <2>5
<1> QED BY <1>3, <1>4

(* The text of an area effect. *)
LEMMA AreaParsed ==
  ASSUME NEW S, NEW words \in Seq(S), Len(words) > 3,
         words[Len(words) - 2] = "have", words[Len(words) - 1] = "taken",
         words[Len(words)] \in Number
  PROVE  LET a == ParseDamage(words)
         IN  /\ a = [type |-> "MAGIC", source |-> <<"Non-melee">>, target |-> Me,
                     verb |-> <<"have", "taken">>, damage |-> Value[words[Len(words)]]]
             /\ a.type = "MAGIC" /\ Counted(a)
<1> DEFINE n == Len(words)
           a == ParseDamage(words)
<1>1. n \in Nat /\ n - 2 \in Int /\ n - 2 > 1 /\ n - 2 + 2 <= n /\ n - 2 + 2 = n
      /\ n - 2 + 1 = n - 1
  OBVIOUS
<1>2. words[n - 2 + 2] \notin Mark
  BY <1>1, NumberIs
<1>3. PhraseAt(words, n - 2, <<words[n - 2], words[n - 2 + 1]>>)
  BY <1>1, <1>2, TwoWordsFit
<1>4. HasTaken(words)
  BY <1>1, <1>3 DEF HasTaken
<1>5. a = [type |-> "MAGIC", source |-> <<"Non-melee">>, target |-> Me,
           verb |-> <<"have", "taken">>, damage |-> ToInt(<<Last(words)>>)]
  BY <1>4 DEF ParseDamage
<1>6. ToInt(<<Last(words)>>) = Value[words[n]] /\ Value[words[n]] > 0
  <2> DEFINE w == words[n]
  <2>1. w \in DOMAIN Value /\ Value[w] > 0
    BY NumberIs
  <2>2. Last(words) = w
    BY DEF Last
  <2> HIDE DEF w
  <2>3. Len(<<w>>) = 1 /\ <<w>>[1] = w /\ <<w>> # << >>
    OBVIOUS
  <2>4. ToInt(<<w>>) = Value[w]
    BY <2>1, <2>3 DEF ToInt
  <2>5. ToInt(<<Last(words)>>) = Value[w] /\ Value[w] > 0
    BY <2>1, <2>2, <2>4, Zenon
  <2> QED BY <2>5 DEF w
<1>7. Me # << >>
  BY WordsAssumption
<1> DEFINE damage == Value[words[n]]
<1>8. a = [type |-> "MAGIC", source |-> <<"Non-melee">>, target |-> Me,
           verb |-> <<"have", "taken">>, damage |-> damage]
      /\ damage > 0
  BY <1>5, <1>6, Zenon
<1> HIDE DEF a, damage
<1>9. a.type = "MAGIC" /\ a.source # << >> /\ a.target # << >> /\ a.damage > 0
  BY <1>7, <1>8
<1>10. Counted(a)
  BY <1>9 DEF Counted
<1> QED BY <1>8, <1>9, <1>10 DEF a, damage

(* The words a text ends with. *)
LEMMA EndsWithIs ==
  ASSUME NEW words, NEW ending, Len(words) \in Nat, Len(ending) \in Nat,
         EndsWith(words, ending)
  PROVE  /\ Len(words) > Len(ending)
         /\ \A k \in 0..(Len(ending) - 1) : words[Len(words) - k] = ending[Len(ending) - k]
<1> DEFINE m == Len(ending)
           n == Len(words)
           rt == Reverse(words)
           re == Reverse(ending)
<1>1. n > m /\ IsPrefix(re, rt)
  BY DEF EndsWith, IsSuffix
<1>2. rt = [k \in 1..n |-> words[n - k + 1]] /\ re = [k \in 1..m |-> ending[m - k + 1]]
  BY DEF Reverse
<1> DEFINE S == {ending[k] : k \in 1..m}
           T == {words[k] : k \in 1..n}
<1>3. re \in Seq(S) /\ rt \in Seq(T) /\ Len(re) = m /\ Len(rt) = n
  <2> HIDE DEF m, n
  <2>m. m \in Nat /\ n \in Nat
    BY DEF m, n
  <2>1. ASSUME NEW k \in 1..m
        PROVE  ending[m - k + 1] \in S
    <3>1. m - k + 1 \in 1..m
      BY ONLY <2>m, k \in 1..m
    <3> QED BY ONLY <3>1 DEF S
  <2>2. ASSUME NEW k \in 1..n
        PROVE  words[n - k + 1] \in T
    <3>1. n - k + 1 \in 1..n
      BY ONLY <2>m, k \in 1..n
    <3> QED BY ONLY <3>1 DEF T
  <2> HIDE DEF re, rt
  <2> HIDE DEF S, T
  <2>3. re \in Seq(S) /\ Len(re) = m
    BY ONLY <1>2, <2>1, <2>m
  <2>4. rt \in Seq(T) /\ Len(rt) = n
    BY ONLY <1>2, <2>2, <2>m
  <2> QED BY <2>3, <2>4
<1>4. SubSeq(re, 1, m) = SubSeq(rt, 1, m)
  BY <1>1, <1>3 DEF IsPrefix
<1>5. \A k \in 1..m : re[k] = rt[k]
  <2>1. \A k \in 1..m : SubSeq(re, 1, m)[k] = re[k]
    BY <1>3
  <2>2. \A k \in 1..m : SubSeq(rt, 1, m)[k] = rt[k]
    BY <1>1, <1>3
  <2> QED BY <1>4, <2>1, <2>2
<1>6. ASSUME NEW k \in 0..(m - 1) PROVE words[n - k] = ending[m - k]
  <2>1. k + 1 \in 1..m /\ k + 1 \in 1..n
    BY <1>1
  <2>2. re[k + 1] = ending[m - (k + 1) + 1] /\ rt[k + 1] = words[n - (k + 1) + 1]
    BY <1>2, <2>1
  <2>3. m - (k + 1) + 1 = m - k /\ n - (k + 1) + 1 = n - k
    OBVIOUS
  <2>4. re[k + 1] = rt[k + 1]
    BY <1>5, <2>1
  <2> QED BY <2>2, <2>3, <2>4
<1> QED BY <1>1, <1>6
-----------------------------------------------------------------------------
(* The first place of a phrase. *)
LEMMA PlaceIs ==
  ASSUME NEW S, NEW words \in Seq(S), NEW phrase
  PROVE  /\ ~Has(words, phrase) => Place(words, phrase) = 0
         /\ Has(words, phrase) => /\ Place(words, phrase) \in 1..Len(words)
                                 /\ PhraseAt(words, Place(words, phrase), phrase)
<1> DEFINE at == Places(words, phrase)
<1>1. CASE at = {}
  BY <1>1 DEF Place, Has
<1>2. CASE at # {}
  <2>1. Place(words, phrase) = Min(at)
    BY <1>2 DEF Place
  <2>2. at \in SUBSET (1..Len(words)) /\ Len(words) \in Nat
    BY DEF Places
  <2>3. Min(at) \in at
    <3> HIDE DEF at
    <3> QED BY <1>2, <2>2, LeastPlace
  <2> QED BY <2>1, <2>3, <1>2 DEF Places, Has
<1> QED BY <1>1, <1>2

(* A death names the dead. *)
LEMMA SlainParsed ==
  ASSUME NEW S, NEW words \in Seq(S), words # << >>, Last(words) \in Mark,
         Has(words, <<"have", "slain">>)
  PROVE  ParseSlain(words).type = "DEATH" /\ ParseSlain(words).target # << >>
<1> DEFINE phrase == <<"have", "slain">>
           i == Place(words, phrase)
           n == Len(words)
<1>1. i \in 1..n /\ PhraseAt(words, i, phrase)
  BY PlaceIs
<1>2. Len(phrase) = 2
  OBVIOUS
<1>3. i > 1 /\ i + 2 <= n /\ words[i + 2] \notin Mark
  BY <1>1, <1>2 DEF PhraseAt
<1>4. i + 2 # n
  BY <1>3 DEF Last
<1>5. i + 1 \in 0..n /\ n \in Int /\ i + 1 + 1 < n /\ n <= n + 1
  BY <1>1, <1>3, <1>4
<1>6. Between(words, i + 1, n) # << >>
  <2> HIDE DEF n, i
  <2> QED BY <1>5, BetweenIs DEF n
<1> QED BY <1>6 DEF ParseSlain, Unknown

(* So does a death in the passive. *)
LEMMA SlainByParsed ==
  ASSUME NEW S, NEW words \in Seq(S), NEW phrase, Has(words, phrase)
  PROVE  /\ ParseSlainBy(words, phrase).type = "DEATH"
         /\ ParseSlainBy(words, phrase).target # << >>
<1> DEFINE i == Place(words, phrase)
<1>1. i \in 1..Len(words) /\ PhraseAt(words, i, phrase)
  BY PlaceIs
<1>2. i \in 2..(Len(words) + 1)
  BY <1>1 DEF PhraseAt
<1>3. Before(words, i) # << >>
  BY <1>2, BeforeIs
<1> QED BY <1>3 DEF ParseSlainBy, Unknown

(* A try that is told before its ", but" names both sides. *)
EndingTypes == {"MISS", "PARRY", "DODGE", "RIPOSTE", "BLOCK", "ABSORB"}

(* The ways a try may end, by name. *)
LEMMA EndingIs == DOMAIN Ending = EndingTypes
BY DEF Ending, EndingTypes

(* A try that is told up to its ", but" names both sides: they are around  *)
(* the verb.                                                               *)
LEMMA TryParsed ==
  ASSUME NEW S, NEW words \in Seq(S), NEW i \in 2..Len(words), NEW c \in 1..Len(words),
         i + 3 < c, c + 2 <= Len(words),
         words[c] = ",", words[c + 1] = "but", words[c + 2] \notin Mark,
         \A k \in 1..Len(words) : words[k] = "," => k = c
  PROVE  LET a == ParseTry(words, i)
         IN  /\ a = [type   |-> IF Evaded(words) = {} THEN "UNKNOWN"
                              ELSE CHOOSE t \in Evaded(words) : TRUE,
                     source |-> Before(words, i), target |-> Between(words, i + 2, c),
                     verb   |-> <<words[i + 2]>>, damage |-> 0]
             /\ a.type \in {"UNKNOWN"} \union EndingTypes /\ a.source # << >> /\ a.target # << >>
<1> DEFINE but == <<",", "but">>
           a == ParseTry(words, i)
<1> DEFINE n == Len(words)
<1>0. n \in Nat /\ i \in Int /\ c \in Int /\ 2 <= i /\ i + 3 < c /\ c + 2 <= n
  BY ONLY words \in Seq(S), i \in 2..Len(words), c \in 1..Len(words), i + 3 < c, c + 2 <= Len(words)
<1>1. PhraseAt(words, c, <<words[c], words[c + 1]>>)
  <2>1. c \in Int /\ c > 1
    BY ONLY <1>0
  <2> QED BY <2>1, TwoWordsFit
<1>2. Has(words, but)
  BY <1>1 DEF Has, Places
<1>3. /\ Place(words, but) \in 1..Len(words)
      /\ PhraseAt(words, Place(words, but), but)
  BY <1>2, PlaceIs
<1>4. Len(but) \in Nat /\ Len(but) >= 1 /\ but[1] = ","
  BY ONLY TRUE
<1>5. Place(words, but) = c
  <2> DEFINE p == Place(words, but)
  <2>0. p \in 1..n
    BY <1>3, Zenon
  <2> HIDE DEF but, p
  <2>1. p \in Int
    BY ONLY <2>0, <1>0
  <2>2. words[p] = but[1]
    BY <1>3, <1>4, <2>1, PhraseFirst, Zenon DEF p
  <2>3. words[p] = ","
    BY <1>4, <2>2
  <2> QED BY <1>3, <2>3 DEF p
<1>6. Before(words, i) # << >>
  <2>1. i \in 2..(Len(words) + 1)
    BY ONLY <1>0
  <2> QED BY <2>1, BeforeIs
<1>7. Between(words, i + 2, c) # << >>
  <2>1. i + 2 \in 0..Len(words) /\ c \in Int /\ i + 2 + 1 < c /\ c <= Len(words) + 1
    BY ONLY <1>0
  <2> QED BY <2>1, BetweenIs
<1>8. (CHOOSE t \in Evaded(words) : TRUE) \in Evaded(words) \/ Evaded(words) = {}
  BY ONLY TRUE
<1>9. Evaded(words) \subseteq EndingTypes
  BY EndingIs DEF Evaded
<1>10. a = [type   |-> IF Evaded(words) = {} THEN "UNKNOWN"
                      ELSE CHOOSE t \in Evaded(words) : TRUE,
            source |-> Before(words, i), target |-> Between(words, i + 2, c),
            verb   |-> <<words[i + 2]>>, damage |-> 0]
  BY <1>5 DEF ParseTry
<1> HIDE DEF a
<1>11. a.type \in {"UNKNOWN"} \union EndingTypes
  BY <1>8, <1>9, <1>10
<1>12. a.source = Before(words, i) /\ a.target = Between(words, i + 2, c)
  BY ONLY <1>10
<1> QED BY ONLY <1>6, <1>7, <1>10, <1>11, <1>12 DEF a
-----------------------------------------------------------------------------
(* Sequences of whatever words: joined, and spelled out. *)
Listed(f) == \E S : f \in Seq(S)

(* A sequence of whatever words has a length. *)
LEMMA ListedLength == ASSUME NEW f, Listed(f) PROVE Len(f) \in Nat
<1>1. PICK S : f \in Seq(S)
  BY DEF Listed
<1> QED BY <1>1

(* What a joined sequence holds, and where. *)
Joins(f, a, b) ==
  /\ Listed(f)
  /\ Len(f) = Len(a) + Len(b)
  /\ \A i \in 1..Len(a) : f[i] = a[i]
  /\ \A i \in 1..Len(b) : f[Len(a) + i] = b[i]

(* Two sequences joined hold what they should. *)
LEMMA Joined ==
  ASSUME NEW a, NEW b, Listed(a), Listed(b)
  PROVE  Joins(a \o b, a, b)
<1> DEFINE f == a \o b
<1>1. PICK S : a \in Seq(S)
  BY DEF Listed
<1>2. PICK T : b \in Seq(T)
  BY DEF Listed
<1> DEFINE U == S \union T
<1>3. a \in Seq(U) /\ b \in Seq(U)
  BY <1>1, <1>2
<1> HIDE DEF U
<1>4. /\ a \o b \in Seq(U) /\ Len(a \o b) = Len(a) + Len(b)
      /\ \A i \in 1..Len(a) + Len(b) : (a \o b)[i] =
                IF i <= Len(a) THEN a[i] ELSE b[i - Len(a)]
  BY <1>3, ConcatProperties
<1>5. /\ f \in Seq(U) /\ Len(f) = Len(a) + Len(b)
      /\ \A i \in 1..Len(a) + Len(b) : f[i] =
                IF i <= Len(a) THEN a[i] ELSE b[i - Len(a)]
  BY <1>4
<1> HIDE DEF f
<1>6. Listed(f)
  BY <1>5, Zenon DEF Listed
<1>7. Len(a) \in Nat /\ Len(b) \in Nat
  BY <1>3
<1>8. \A i \in 1..Len(a) : f[i] = a[i]
  BY ONLY <1>5, <1>7
<1>9. ASSUME NEW i \in 1..Len(b) PROVE f[Len(a) + i] = b[i]
  <2>1. Len(a) + i \in 1..Len(a) + Len(b) /\ ~(Len(a) + i <= Len(a)) /\ Len(a) + i - Len(a) = i
    BY ONLY <1>7, i \in 1..Len(b)
  <2>2. f[Len(a) + i] = b[Len(a) + i - Len(a)]
    BY ONLY <1>5, <2>1
  <2> QED BY <2>1, <2>2
<1>10. Joins(f, a, b)
  BY <1>5, <1>6, <1>8, <1>9 DEF Joins
<1> QED BY <1>10 DEF f

(* One word. *)
LEMMA One == ASSUME NEW u PROVE Listed(<<u>>) /\ Len(<<u>>) = 1 /\ <<u>>[1] = u
<1>1. <<u>> \in Seq({u})
  OBVIOUS
<1> QED BY <1>1 DEF Listed

(* Two. *)
LEMMA Two ==
  ASSUME NEW u, NEW v
  PROVE  Listed(<<u, v>>) /\ Len(<<u, v>>) = 2 /\ <<u, v>>[1] = u /\ <<u, v>>[2] = v
<1>1. <<u, v>> \in Seq({u, v})
  OBVIOUS
<1> QED BY <1>1 DEF Listed

(* Three. *)
LEMMA Three ==
  ASSUME NEW u, NEW v, NEW w
  PROVE  LET f == <<u, v, w>>
         IN  Listed(f) /\ Len(f) = 3 /\ f[1] = u /\ f[2] = v /\ f[3] = w
<1>1. <<u, v, w>> \in Seq({u, v, w})
  OBVIOUS
<1> QED BY <1>1 DEF Listed
-----------------------------------------------------------------------------
(* Who fights: what the parser looks for is not in the name. *)
Fighters == Name \union {You, YOU}

(* No fighter has a mark, a pair, or a verb at the end. *)
LEMMA FighterIs ==
  ASSUME NEW f \in Fighters
  PROVE  /\ Listed(f) /\ Len(f) \in Nat \ {0}
         /\ \A i \in 1..Len(f) : f[i] \notin Mark
         /\ f[Len(f)] \notin VerbWords \union {"by"}
         /\ \A i \in 1..(Len(f) - 1) : <<f[i], f[i + 1]>> \notin Pairs
<1>1. CASE f \in Name
  <2>1. f \in Seq(STRING \ (Mark \union {NoWord})) /\ f # << >>
    BY <1>1, WordsAssumption
  <2>2. Listed(f)
    BY <2>1 DEF Listed
  <2>3. Len(f) \in Nat \ {0} /\ \A i \in 1..Len(f) : f[i] \notin Mark
    <3> DEFINE W == STRING \ (Mark \union {NoWord})
    <3>1. f \in Seq(W) /\ f # << >>
      BY <2>1
    <3>2. \A w \in W : w \notin Mark
      OBVIOUS
    <3> HIDE DEF W
    <3>3. Len(f) \in Nat \ {0} /\ \A i \in 1..Len(f) : f[i] \in W
      BY <3>1
    <3> QED BY <3>2, <3>3
  <2>4. Harmless(f)
    BY <1>1, NamesAssumption
  <2> QED BY <2>2, <2>3, <2>4 DEF Harmless, Last
<1>2. ASSUME NEW w \in {"You", "YOU"}, f = <<w>>
      PROVE  /\ Listed(f) /\ Len(f) \in Nat \ {0}
             /\ \A i \in 1..Len(f) : f[i] \notin Mark
             /\ f[Len(f)] \notin VerbWords \union {"by"}
             /\ \A i \in 1..(Len(f) - 1) : <<f[i], f[i + 1]>> \notin Pairs
  <2>1. Listed(f) /\ Len(f) = 1 /\ f[1] = w
    BY <1>2, One
  <2>2. w \notin Mark /\ w \notin VerbWords \union {"by"}
    BY VerbWordsAre DEF Mark
  <2> QED BY <2>1, <2>2
<1>3. f \in Name \/ \E w \in {"You", "YOU"} : f = <<w>>
  BY DEF Fighters, You, YOU
<1> QED BY <1>1, <1>2, <1>3

(* The parts of what the game means. *)
LEMMA SaysIs ==
  ASSUME NEW t, NEW q, NEW u, NEW v, NEW n
  PROVE  LET s == Says(t, q, u, v, n)
         IN  s.says = t /\ s.source = q /\ s.target = u /\ s.verb = v /\ s.number = n
BY DEF Says

(* What the game may mean. *)
LEMMA SayingIs ==
  ASSUME NEW s \in Sayings
  PROVE  \/ s.says = "MELEE" /\ s.source \in Fighters /\ s.target \in Fighters
              /\ s.verb \in DOMAIN ThirdPerson /\ s.number \in Number
         \/ s.says \in EndingTypes /\ s.source \in Fighters /\ s.target \in Fighters
              /\ s.verb \in DOMAIN ThirdPerson /\ s.number = NoWord
         \/ s.says = "spell" /\ s.target \in Fighters /\ s.number \in Number
         \/ s.says \in {"area", "HEAL"} /\ s.target = You /\ s.number \in Number
         \/ s.says \in {"CRIT", "CRIP", "HOLYBLADE"} /\ s.source \in Fighters
              /\ s.target = Nobody /\ s.number \in Number
         \/ s.says = "slew" /\ s.source = You /\ s.target \in Fighters /\ s.number = NoWord
         \/ s.says = "slain" /\ s.source \in Fighters /\ s.target \in Fighters
              /\ s.number = NoWord
         \/ s.says = "died" /\ s.target \in Fighters /\ s.number = NoWord
<1> DEFINE A == {Says("MELEE", p[1], p[2], v, n) :
                   p \in Opponents, v \in DOMAIN ThirdPerson, n \in Number}
           B == {Says(t, p[1], p[2], v, NoWord) :
                   t \in DOMAIN Ending, p \in Opponents, v \in DOMAIN ThirdPerson}
           C == {Says("spell", You, t, NoWord, n) : t \in Name \union {You}, n \in Number}
           D == {Says(t, Nobody, You, NoWord, n) : t \in {"area", "HEAL"}, n \in Number}
           E == {Says(t, q, Nobody, NoWord, n) :
                   t \in {"CRIT", "CRIP", "HOLYBLADE"}, q \in Name \union {You}, n \in Number}
           F == {Says("slew", You, t, NoWord, NoWord) : t \in Name}
           G == {Says("slain", q, t, NoWord, NoWord) : q \in Name, t \in Name \union {You}}
           H == {Says("died", Nobody, t, NoWord, NoWord) : t \in Name}
<1>1. \A p \in Opponents : p[1] \in Fighters /\ p[2] \in Fighters
  BY DEF Opponents, Fighters
<1>2. CASE s \in A
  BY <1>1, <1>2 DEF Says
<1>3. CASE s \in B
  <2>1. PICK t \in DOMAIN Ending, p \in Opponents, v \in DOMAIN ThirdPerson :
          s = Says(t, p[1], p[2], v, NoWord)
    BY <1>3
  <2>2. s.says = t /\ s.source = p[1] /\ s.target = p[2] /\ s.verb = v /\ s.number = NoWord
    BY ONLY <2>1, SaysIs
  <2> QED BY ONLY <1>1, <2>1, <2>2, EndingIs
<1>4. CASE s \in C
  <2>1. PICK t \in Name \union {You}, n \in Number : s = Says("spell", You, t, NoWord, n)
    BY <1>4
  <2>2. s.says = "spell" /\ s.target = t /\ s.number = n
    BY ONLY <2>1, SaysIs
  <2> QED BY ONLY <2>1, <2>2 DEF Fighters
<1>5. CASE s \in D
  <2>1. PICK t \in {"area", "HEAL"}, n \in Number : s = Says(t, Nobody, You, NoWord, n)
    BY <1>5
  <2>2. s.says = t /\ s.target = You /\ s.number = n
    BY ONLY <2>1, SaysIs
  <2> QED BY ONLY <2>1, <2>2
<1>6. CASE s \in E
  <2>1. PICK t \in {"CRIT", "CRIP", "HOLYBLADE"}, q \in Name \union {You}, n \in Number :
          s = Says(t, q, Nobody, NoWord, n)
    BY <1>6
  <2>2. s.says = t /\ s.source = q /\ s.target = Nobody /\ s.number = n
    BY ONLY <2>1, SaysIs
  <2> QED BY ONLY <2>1, <2>2 DEF Fighters
<1>7. CASE s \in F
  <2>1. PICK t \in Name : s = Says("slew", You, t, NoWord, NoWord)
    BY <1>7
  <2>2. s.says = "slew" /\ s.source = You /\ s.target = t /\ s.number = NoWord
    BY ONLY <2>1, SaysIs
  <2> QED BY ONLY <2>1, <2>2 DEF Fighters
<1>8. CASE s \in G
  <2>1. PICK q \in Name, t \in Name \union {You} : s = Says("slain", q, t, NoWord, NoWord)
    BY <1>8
  <2>2. s.says = "slain" /\ s.source = q /\ s.target = t /\ s.number = NoWord
    BY ONLY <2>1, SaysIs
  <2> QED BY ONLY <2>1, <2>2 DEF Fighters
<1>9. CASE s \in H
  <2>1. PICK t \in Name : s = Says("died", Nobody, t, NoWord, NoWord)
    BY <1>9
  <2>2. s.says = "died" /\ s.target = t /\ s.number = NoWord
    BY ONLY <2>1, SaysIs
  <2> QED BY ONLY <2>1, <2>2 DEF Fighters
<1>10. Sayings = A \union B \union C \union D \union E \union F \union G \union H
  BY DEF Sayings
<1>11. \/ s \in A \/ s \in B \/ s \in C \/ s \in D
       \/ s \in E \/ s \in F \/ s \in G \/ s \in H
  <2> HIDE DEF A, B, C, D, E, F, G, H
  <2> QED BY <1>10
<1> HIDE DEF A, B, C, D, E, F, G, H
<1> QED BY ONLY <1>2, <1>3, <1>4, <1>5, <1>6, <1>7, <1>8, <1>9, <1>11, Zenon
-----------------------------------------------------------------------------
(* Both spellings of the points. *)
ThePoints == {PointsOfDamage, PointOfDamage}

(* Both are four words, of which the last two are the same. *)
LEMMA ThePointsAre ==
  ASSUME NEW p \in ThePoints
  PROVE  Listed(p) /\ Len(p) = 4 /\ p[1] \notin Mark /\ p[2] = "of" /\ p[3] = "damage" /\ p[4] = "."
<1>1. CASE p = PointsOfDamage
  <2>1. p \in Seq({"points", "of", "damage", "."})
    BY <1>1 DEF PointsOfDamage
  <2> QED BY <1>1, <2>1 DEF PointsOfDamage, Listed, Mark
<1>2. CASE p = PointOfDamage
  <2>1. p \in Seq({"point", "of", "damage", "."})
    BY <1>2 DEF PointOfDamage
  <2> QED BY <1>2, <2>1 DEF PointOfDamage, Listed, Mark
<1> QED BY <1>1, <1>2 DEF ThePoints

(* " for " and the damage, in points. *)
IsHurt(h, n) ==
  /\ Listed(h) /\ Len(h) = 6
  /\ h[1] = "for" /\ h[2] = n /\ h[3] \notin Mark
  /\ h[4] = "of" /\ h[5] = "damage" /\ h[6] = "."

(* " for " and the damage, word by word. *)
LEMMA HurtIs ==
  ASSUME NEW p \in ThePoints, NEW n
  PROVE  IsHurt(<<"for", n>> \o p, n)
<1> DEFINE a == <<"for", n>>
<1>1. Listed(p) /\ Len(p) = 4 /\ p[1] \notin Mark /\ p[2] = "of" /\ p[3] = "damage" /\ p[4] = "."
  BY ThePointsAre
<1>2. Listed(a) /\ Len(a) = 2 /\ a[1] = "for" /\ a[2] = n
  BY Two
<1> DEFINE h == a \o p
<1> HIDE DEF a
<1>4. Joins(h, a, p)
  BY <1>1, <1>2, Joined
<1> HIDE DEF h
<1>5. h[1] = "for" /\ h[2] = n
  BY <1>2, <1>4 DEF Joins
<1>6. h[3] = p[1] /\ h[4] = p[2] /\ h[5] = p[3] /\ h[6] = p[4]
  BY <1>1, <1>2, <1>4 DEF Joins
<1>7. IsHurt(h, n)
  BY <1>1, <1>2, <1>4, <1>5, <1>6 DEF Joins, IsHurt
<1> QED BY <1>7 DEF h, a
-----------------------------------------------------------------------------
(* The marks a line may end with, and where they are in a line of damage,  *)
(* of an area effect, of a death without a killer, of a try, of a death    *)
(* with one, and of an announcement.                                       *)
Stops == {".", "!", ")"}

(* The only stop of a text is its last word. *)
StopsAtEnd(f) == \A k \in 1..Len(f) : f[k] \in Stops => k = Len(f)

(* No two neighbours of a text are a pair of P. *)
Free(f, P) == \A k \in 1..(Len(f) - 1) : <<f[k], f[k + 1]>> \notin P

(* The pairs that begin a try. *)
TryPairs == {<<"try", "to">>, <<"tries", "to">>}

(* A hit, a spell or a healing. *)
HitText(f) ==
  /\ Listed(f) /\ Len(f) > 6
  /\ f[Len(f)] = "." /\ f[Len(f) - 1] = "damage"
  /\ f[Len(f) - 4] \in Number /\ f[Len(f) - 5] = "for"
  /\ f[Len(f) - 6] \notin VerbWords \union {"by"}
  /\ StopsAtEnd(f)

(* The effect on an area, of two statements. *)
AreaText(f) ==
  /\ Listed(f) /\ Len(f) = 17
  /\ f[17] = "." /\ f[16] = "damage" /\ f[13] \in Number
  /\ f[12] = "taken" /\ f[11] = "have" /\ f[9] = "." /\ f[8] = "you"
  /\ \A k \in 1..17 : f[k] \in Stops => k \in {9, 17}

(* A death without a killer. *)
DiedText(f) ==
  /\ Listed(f) /\ Len(f) > 1
  /\ f[Len(f)] = "." /\ f[Len(f) - 1] = "died"
  /\ StopsAtEnd(f)

(* A try that did not hit. *)
TryText(f) ==
  /\ Listed(f) /\ f[Len(f)] = "!" /\ StopsAtEnd(f)
  /\ \E c \in 1..Len(f) :
       /\ f[c] = "," /\ f[c + 1] = "but" /\ c + 2 <= Len(f) /\ f[c + 2] \notin Mark
       /\ \A k \in 1..Len(f) : f[k] = "," => k = c
       /\ \A k \in 1..(Len(f) - 1) : <<f[k], f[k + 1]>> \in TryPairs => k + 3 < c

(* A death with a killer. *)
KillText(f) == Listed(f) /\ Len(f) > 0 /\ f[Len(f)] = "!" /\ StopsAtEnd(f) /\ Free(f, TryPairs)

(* An announcement of a special hit. *)
AnnounceText(f) ==
  /\ Listed(f) /\ Len(f) > 0 /\ f[Len(f)] = ")"
  /\ \A k \in 1..Len(f) : (f[k] = ")" => k = Len(f)) /\ f[k] # "."
  /\ Free(f, Pairs)
-----------------------------------------------------------------------------
(* How the parts make up the whole. *)
Unmarked(f) == Listed(f) /\ \A k \in 1..Len(f) : f[k] \notin Mark

(* Every place of the whole is one of a part. *)
LEMMA JoinsAt ==
  ASSUME NEW a, NEW b, NEW f, Listed(a), Listed(b), Joins(f, a, b), NEW k \in 1..Len(f)
  PROVE  \/ k \in 1..Len(a) /\ f[k] = a[k]
         \/ k - Len(a) \in 1..Len(b) /\ f[k] = b[k - Len(a)]
<1>1. Len(a) \in Nat /\ Len(b) \in Nat
  BY ListedLength
<1>2. Len(f) = Len(a) + Len(b)
  BY DEF Joins
<1>3. CASE k <= Len(a)
  <2>1. k \in 1..Len(a)
    BY ONLY <1>1, <1>2, <1>3, k \in 1..Len(f)
  <2> QED BY <2>1 DEF Joins
<1>4. CASE ~(k <= Len(a))
  <2> DEFINE j == k - Len(a)
  <2>1. j \in 1..Len(b) /\ Len(a) + j = k
    BY ONLY <1>1, <1>2, <1>4, k \in 1..Len(f)
  <2> HIDE DEF j
  <2>2. f[Len(a) + j] = b[j]
    BY <2>1 DEF Joins
  <2> QED BY <2>1, <2>2 DEF j
<1> QED BY <1>3, <1>4

(* The ends of the whole are those of the parts. *)
LEMMA JoinsEnds ==
  ASSUME NEW a, NEW b, NEW f, Listed(a), Listed(b), Joins(f, a, b)
  PROVE  /\ Len(a) > 0 => f[1] = a[1]
         /\ Len(b) > 0 => f[Len(f)] = b[Len(b)] /\ f[Len(a) + 1] = b[1]
<1>1. Len(a) \in Nat /\ Len(b) \in Nat
  BY ListedLength
<1>2. /\ Len(f) = Len(a) + Len(b)
      /\ \A i \in 1..Len(a) : f[i] = a[i]
      /\ \A i \in 1..Len(b) : f[Len(a) + i] = b[i]
  BY DEF Joins
<1>3. CASE Len(b) > 0
  <2>1. Len(b) \in 1..Len(b) /\ 1 \in 1..Len(b)
    BY ONLY <1>1, <1>3
  <2>2. f[Len(a) + Len(b)] = b[Len(b)] /\ f[Len(a) + 1] = b[1]
    BY ONLY <1>2, <2>1
  <2> QED BY ONLY <1>1, <1>2, <2>2
<1>4. CASE ~(Len(b) > 0)
  BY ONLY <1>1, <1>2, <1>4
<1> QED BY <1>3, <1>4

(* Two parts without a mark make a whole without one. *)
LEMMA UnmarkedJoins ==
  ASSUME NEW a, NEW b, NEW f, Unmarked(a), Unmarked(b), Joins(f, a, b)
  PROVE  Unmarked(f)
<1>1. Listed(a) /\ Listed(b) /\ Listed(f)
  BY DEF Unmarked, Joins
<1>2. ASSUME NEW k \in 1..Len(f) PROVE f[k] \notin Mark
  <2>1. \/ k \in 1..Len(a) /\ f[k] = a[k]
        \/ k - Len(a) \in 1..Len(b) /\ f[k] = b[k - Len(a)]
    BY <1>1, JoinsAt
  <2> QED BY <2>1 DEF Unmarked
<1> QED BY <1>1, <1>2 DEF Unmarked

(* Two parts without a pair make a whole without one, unless they meet in  *)
(* one.                                                                    *)
LEMMA FreeJoins ==
  ASSUME NEW P, NEW a, NEW b, NEW f, Listed(a), Listed(b), Joins(f, a, b),
         Free(a, P), Free(b, P), Len(a) > 0, Len(b) > 0,
         <<a[Len(a)], b[1]>> \notin P
  PROVE  Free(f, P)
<1>1. Len(a) \in Nat /\ Len(b) \in Nat
  BY ListedLength
<1>2. /\ Len(f) = Len(a) + Len(b)
      /\ \A i \in 1..Len(a) : f[i] = a[i]
      /\ \A i \in 1..Len(b) : f[Len(a) + i] = b[i]
  BY DEF Joins
<1>3. SUFFICES ASSUME NEW k \in 1..(Len(f) - 1) PROVE <<f[k], f[k + 1]>> \notin P
  BY DEF Free
<1>4. CASE k < Len(a)
  <2>1. k \in 1..(Len(a) - 1) /\ k \in 1..Len(a) /\ k + 1 \in 1..Len(a)
    BY ONLY <1>1, <1>2, <1>4, k \in 1..(Len(f) - 1)
  <2>2. f[k] = a[k] /\ f[k + 1] = a[k + 1]
    BY ONLY <1>2, <2>1
  <2> QED BY <2>1, <2>2 DEF Free
<1>5. CASE k = Len(a)
  <2>1. k \in 1..Len(a) /\ 1 \in 1..Len(b)
    BY ONLY <1>1, <1>5, Len(a) > 0, Len(b) > 0
  <2>2. f[k] = a[Len(a)] /\ f[k + 1] = b[1]
    BY ONLY <1>2, <1>5, <2>1
  <2> QED BY <2>2
<1>6. CASE k > Len(a)
  <2> DEFINE j == k - Len(a)
  <2>1. j \in 1..(Len(b) - 1) /\ j \in 1..Len(b) /\ j + 1 \in 1..Len(b)
        /\ Len(a) + j = k /\ Len(a) + (j + 1) = k + 1
    BY ONLY <1>1, <1>2, <1>6, k \in 1..(Len(f) - 1)
  <2> HIDE DEF j
  <2>2. f[Len(a) + j] = b[j] /\ f[Len(a) + (j + 1)] = b[j + 1]
    BY ONLY <1>2, <2>1
  <2>3. f[k] = b[j] /\ f[k + 1] = b[j + 1]
    BY ONLY <2>1, <2>2
  <2> QED BY <2>1, <2>3 DEF Free
<1>7. Len(f) - 1 \in Int
  BY <1>1, <1>2
<1> QED BY <1>1, <1>4, <1>5, <1>6, <1>7
-----------------------------------------------------------------------------
(* Words without a mark and " for " and the points are the text of a hit. *)
LEMMA HitTextIs ==
  ASSUME NEW g, Unmarked(g), Len(g) > 0, g[Len(g)] \notin VerbWords \union {"by"},
         NEW p \in ThePoints, NEW n \in Number
  PROVE  HitText(g \o (<<"for", n>> \o p))
<1> DEFINE h == <<"for", n>> \o p
           f == g \o h
<1>1. /\ Listed(h) /\ Len(h) = 6
      /\ h[1] = "for" /\ h[2] = n /\ h[3] \notin Mark
      /\ h[4] = "of" /\ h[5] = "damage" /\ h[6] = "."
  <2>1. IsHurt(h, n)
    BY HurtIs
  <2> HIDE DEF h
  <2> QED BY <2>1 DEF IsHurt
<1> HIDE DEF h
<1>2. Listed(g) /\ Len(g) \in Nat
  BY ListedLength DEF Unmarked
<1>3. Joins(f, g, h)
  BY <1>1, <1>2, Joined
<1> HIDE DEF f
<1>4. /\ Listed(f) /\ Len(f) = Len(g) + 6
      /\ \A i \in 1..Len(g) : f[i] = g[i]
      /\ \A i \in 1..6 : f[Len(g) + i] = h[i]
  BY <1>1, <1>3 DEF Joins
<1> DEFINE m == Len(g)
<1>5. f[m + 1] = "for" /\ f[m + 2] = n /\ f[m + 5] = "damage" /\ f[m + 6] = "."
  <2>1. f[m + 1] = h[1] /\ f[m + 2] = h[2] /\ f[m + 5] = h[5] /\ f[m + 6] = h[6]
    BY ONLY <1>4
  <2> QED BY <1>1, <2>1
<1>6. f[m] = g[m]
  BY ONLY <1>2, <1>4, Len(g) > 0
<1>7. /\ Len(f) = m + 6 /\ Len(f) - 1 = m + 5 /\ Len(f) - 4 = m + 2 /\ Len(f) - 5 = m + 1
      /\ Len(f) - 6 = m /\ Len(f) > 6
  BY ONLY <1>2, <1>4, Len(g) > 0
<1>8. StopsAtEnd(f)
  <2> SUFFICES ASSUME NEW k \in 1..Len(f), f[k] \in Stops PROVE k = Len(f)
    BY DEF StopsAtEnd
  <2>1. \/ k \in 1..Len(g) /\ f[k] = g[k]
        \/ k - Len(g) \in 1..Len(h) /\ f[k] = h[k - Len(g)]
    <3>1. Listed(g) /\ Listed(h) /\ Joins(f, g, h)
      BY <1>1, <1>2, <1>3
    <3> QED BY ONLY <3>1, k \in 1..Len(f), JoinsAt
  <2>2. ~(k \in 1..Len(g) /\ f[k] = g[k])
    BY DEF Unmarked, Stops, Mark
  <2> DEFINE j == k - Len(g)
  <2>3. j \in 1..6 /\ h[j] \in Stops
    BY ONLY <1>1, <2>1, <2>2, f[k] \in Stops
  <2> HIDE DEF j
  <2>4. j = 6
    <3>1. \/ j = 1 \/ j = 2 \/ j = 3 \/ j = 4 \/ j = 5 \/ j = 6
      BY <2>3
    <3>2. "for" \notin Stops /\ "of" \notin Stops /\ "damage" \notin Stops
      BY DEF Stops
    <3>3. n \notin Stops /\ h[3] \notin Stops
      BY <1>1, NumberIs DEF Stops, Mark
    <3> QED BY ONLY <1>1, <2>3, <3>1, <3>2, <3>3
  <2> QED BY ONLY <1>2, <1>7, <2>4, k \in 1..Len(f) DEF j
<1>9. HitText(f)
  BY <1>4, <1>5, <1>6, <1>7, <1>8 DEF HitText
<1> QED BY <1>9 DEF f, h

(* A fighter is a part of a text like any other. *)
LEMMA FighterParts ==
  ASSUME NEW f \in Fighters
  PROVE  /\ Unmarked(f) /\ Listed(f) /\ Len(f) \in Nat /\ Len(f) > 0
         /\ Free(f, Pairs) /\ Free(f, TryPairs)
         /\ f[1] \notin Mark
<1>1. /\ Listed(f) /\ Len(f) \in Nat \ {0}
      /\ \A i \in 1..Len(f) : f[i] \notin Mark
      /\ \A i \in 1..(Len(f) - 1) : <<f[i], f[i + 1]>> \notin Pairs
  BY FighterIs
<1>2. \A x \in TryPairs : x \in Pairs
  BY DEF TryPairs, Pairs
<1>3. Free(f, Pairs) /\ Free(f, TryPairs)
  BY <1>1, <1>2 DEF Free
<1> QED BY <1>1, <1>3 DEF Unmarked

(* One word as a part of a text. *)
LEMMA OneWord ==
  ASSUME NEW w, NEW P
  PROVE  /\ Listed(<<w>>) /\ Len(<<w>>) = 1 /\ <<w>>[1] = w /\ Free(<<w>>, P)
         /\ w \notin Mark => Unmarked(<<w>>)
<1>1. Listed(<<w>>) /\ Len(<<w>>) = 1 /\ <<w>>[1] = w
  BY One
<1> DEFINE f == <<w>>
<1> HIDE DEF f
<1>2. Listed(f) /\ Len(f) = 1 /\ f[1] = w
  BY <1>1 DEF f
<1>3. Free(f, P)
  BY <1>2 DEF Free
<1>4. w \notin Mark => Unmarked(f)
  BY <1>2 DEF Unmarked
<1> QED BY <1>2, <1>3, <1>4 DEF f

(* "A clay golem slashes Player1 for 7 points of damage." *)
LEMMA MeleeText ==
  ASSUME NEW source \in Fighters, NEW target \in Fighters, NEW verb, verb \notin Mark,
         NEW p \in ThePoints, NEW n \in Number
  PROVE  HitText(source \o <<verb>> \o target \o (<<"for", n>> \o p))
<1> DEFINE v == <<verb>>
           f == source \o v
           g == f \o target
<1>1. Unmarked(source) /\ Listed(source) /\ Unmarked(target) /\ Listed(target)
      /\ Len(target) > 0 /\ Len(target) \in Nat /\ Len(source) \in Nat
  BY FighterParts
<1>2. Unmarked(v) /\ Listed(v) /\ Len(v) = 1
  BY OneWord
<1> HIDE DEF v
<1>3. Joins(f, source, v)
  BY <1>1, <1>2, Joined
<1>4. Unmarked(f) /\ Listed(f) /\ Len(f) = Len(source) + 1
  BY <1>1, <1>2, <1>3, UnmarkedJoins DEF Joins
<1> HIDE DEF f
<1>5. Joins(g, f, target)
  BY <1>1, <1>4, Joined
<1>6. Unmarked(g) /\ Len(g) = Len(f) + Len(target)
  BY <1>1, <1>4, <1>5, UnmarkedJoins DEF Joins
<1>7. g[Len(g)] = target[Len(target)]
  BY <1>1, <1>4, <1>5, JoinsEnds
<1>8. g[Len(g)] \notin VerbWords \union {"by"}
  BY <1>7, FighterIs
<1>9. Len(g) > 0
  BY <1>1, <1>4, <1>6
<1> HIDE DEF g
<1>10. HitText(g \o (<<"for", n>> \o p))
  BY <1>6, <1>8, <1>9, HitTextIs
<1> QED BY <1>10 DEF g, f, v

(* "a clay golem was hit by non-melee for 7 points of damage." *)
LEMMA SpellText ==
  ASSUME NEW target \in Fighters, NEW were \in {"were", "was"},
         NEW p \in ThePoints, NEW n \in Number
  PROVE  HitText(target \o <<were>> \o <<"hit", "by", "non-melee">> \o (<<"for", n>> \o p))
<1> DEFINE v == <<were>>
           f == target \o v
           w == <<"hit", "by", "non-melee">>
           g == f \o w
<1>1. Unmarked(target) /\ Listed(target) /\ Len(target) \in Nat
  BY FighterParts
<1>2. Unmarked(v) /\ Listed(v) /\ Len(v) = 1
  <2>1. were \notin Mark
    BY DEF Mark
  <2> QED BY <2>1, OneWord
<1>3. Listed(w) /\ Len(w) = 3 /\ w[1] = "hit" /\ w[2] = "by" /\ w[3] = "non-melee"
  BY Three
<1> HIDE DEF v, w
<1>4. Unmarked(w)
  <2>1. "hit" \notin Mark /\ "by" \notin Mark /\ "non-melee" \notin Mark
    BY DEF Mark
  <2>2. \A k \in 1..3 : k = 1 \/ k = 2 \/ k = 3
    OBVIOUS
  <2> QED BY <1>3, <2>1, <2>2 DEF Unmarked
<1>5. Joins(f, target, v)
  BY <1>1, <1>2, Joined
<1>6. Unmarked(f) /\ Listed(f) /\ Len(f) = Len(target) + 1
  BY <1>1, <1>2, <1>5, UnmarkedJoins DEF Joins
<1> HIDE DEF f
<1>7. Joins(g, f, w)
  BY <1>3, <1>6, Joined
<1>8. Unmarked(g) /\ Len(g) = Len(f) + 3
  BY <1>3, <1>4, <1>6, <1>7, UnmarkedJoins DEF Joins
<1>9. g[Len(g)] = "non-melee"
  <2>1. Listed(f) /\ Listed(w) /\ Len(w) > 0 /\ Joins(g, f, w)
    BY <1>3, <1>6, <1>7
  <2>2. g[Len(g)] = w[Len(w)]
    BY ONLY <2>1, JoinsEnds
  <2> QED BY <1>3, <2>2
<1>10. g[Len(g)] \notin VerbWords \union {"by"}
  BY <1>9, VerbWordsAre
<1>11. Len(g) > 0
  BY <1>1, <1>6, <1>8
<1> HIDE DEF g
<1>12. HitText(g \o (<<"for", n>> \o p))
  BY <1>8, <1>10, <1>11, HitTextIs
<1> QED BY <1>12 DEF g, f, v, w

(* "You have been healed for 7 points of damage." *)
LEMMA HealText ==
  ASSUME NEW p \in ThePoints, NEW n \in Number
  PROVE  HitText(<<"You", "have", "been", "healed">> \o (<<"for", n>> \o p))
<1> DEFINE g == <<"You", "have", "been", "healed">>
<1>1. g \in Seq({"You", "have", "been", "healed"}) /\ Len(g) = 4 /\ g[4] = "healed"
  OBVIOUS
<1>2. \A w \in {"You", "have", "been", "healed"} : w \notin Mark
  BY DEF Mark
<1>3. "healed" \notin VerbWords \union {"by"}
  BY VerbWordsAre
<1> HIDE DEF g
<1>4. Listed(g) /\ Unmarked(g)
  BY <1>1, <1>2 DEF Listed, Unmarked
<1> QED BY <1>1, <1>3, <1>4, HitTextIs DEF g
-----------------------------------------------------------------------------
(* Two words of which one is in no pair are no pair. *)
LEMMA NotPair ==
  ASSUME NEW u, NEW v, u \notin {"try", "tries", "have", "been"} \/ v \notin {"to", "slain"}
  PROVE  <<u, v>> \notin Pairs /\ <<u, v>> \notin TryPairs
BY DEF Pairs, TryPairs

(* "Player1 Scores a critical hit!(7)" and the like: up to the number are  *)
(* words that are in no pair.                                              *)
LEMMA AnnounceTextIs ==
  ASSUME NEW source \in Fighters, NEW z, Listed(z), Len(z) > 2, z[Len(z)] = ")",
         z[Len(z) - 1] \in Number,
         \A k \in 1..(Len(z) - 2) : z[k] \notin {".", ")", "try", "tries", "have", "been", "to", "slain"}
  PROVE  AnnounceText(source \o z)
<1> DEFINE f == source \o z
           m == Len(z)
<1>1. /\ Unmarked(source) /\ Listed(source) /\ Len(source) \in Nat /\ Len(source) > 0
      /\ Free(source, Pairs)
  BY FighterParts
<1>2. m \in Nat /\ m > 2
  BY ListedLength
<1>3. Joins(f, source, z)
  BY <1>1, Joined
<1> HIDE DEF f, m
<1>4. \A k \in 1..m : k <= m - 2 \/ k = m - 1 \/ k = m
  BY <1>2
<1>5. ASSUME NEW k \in 1..m PROVE z[k] # "." /\ (z[k] = ")" => k = m)
  <2>1. CASE k <= m - 2
    <3>1. k \in 1..(m - 2)
      BY <1>2, <2>1
    <3> QED BY <3>1 DEF m
  <2>2. CASE k = m - 1
    <3>1. z[k] \notin Mark
      BY <2>2, NumberIs DEF m
    <3> QED BY <3>1 DEF Mark
  <2>3. CASE k = m
    BY <2>3 DEF m
  <2> QED BY <1>4, <2>1, <2>2, <2>3
<1>6. Free(z, Pairs)
  <2> SUFFICES ASSUME NEW k \in 1..(m - 1) PROVE <<z[k], z[k + 1]>> \notin Pairs
    BY DEF Free, m
  <2>1. CASE k <= m - 2
    <3>1. k \in 1..(m - 2)
      BY <1>2, <2>1
    <3>2. z[k] \notin {"try", "tries", "have", "been"}
      BY <3>1 DEF m
    <3> QED BY <3>2, NotPair
  <2>2. CASE k = m - 1
    <3>1. k + 1 = m
      BY <1>2, <2>2
    <3>2. z[k + 1] \notin {"to", "slain"}
      BY <3>1 DEF m
    <3> QED BY <3>2, NotPair
  <2>3. k <= m - 2 \/ k = m - 1
    BY <1>2
  <2> QED BY <2>1, <2>2, <2>3
<1>7. <<source[Len(source)], z[1]>> \notin Pairs
  <2>1. 1 \in 1..(m - 2)
    BY <1>2
  <2>2. z[1] \notin {"to", "slain"}
    BY <2>1 DEF m
  <2> QED BY <2>2, NotPair
<1>8. Free(f, Pairs)
  BY <1>1, <1>2, <1>3, <1>6, <1>7, FreeJoins DEF m
<1>9. ASSUME NEW k \in 1..Len(f) PROVE f[k] # "." /\ (f[k] = ")" => k = Len(f))
  <2>1. \/ k \in 1..Len(source) /\ f[k] = source[k]
        \/ k - Len(source) \in 1..Len(z) /\ f[k] = z[k - Len(source)]
    <3>1. Listed(source) /\ Listed(z) /\ Joins(f, source, z)
      BY <1>1, <1>3
    <3> QED BY ONLY <3>1, k \in 1..Len(f), JoinsAt
  <2>2. CASE k \in 1..Len(source) /\ f[k] = source[k]
    BY <1>1, <2>2 DEF Unmarked, Mark
  <2>3. CASE k - Len(source) \in 1..Len(z) /\ f[k] = z[k - Len(source)]
    <3> DEFINE j == k - Len(source)
    <3>1. j \in 1..m /\ f[k] = z[j]
      BY <2>3 DEF m
    <3> HIDE DEF j
    <3>2. f[k] # "." /\ (f[k] = ")" => j = m)
      BY <1>5, <3>1
    <3>3. Len(f) = Len(source) + m
      BY <1>3 DEF Joins, m
    <3>4. j = m => k = Len(f)
      BY ONLY <1>1, <1>2, <3>3, k \in 1..Len(f) DEF j
    <3> QED BY <3>2, <3>4
  <2> QED BY <2>1, <2>2, <2>3
<1>10. f[Len(f)] = ")"
  <2>1. Listed(source) /\ Listed(z) /\ Joins(f, source, z) /\ Len(z) > 0
    BY <1>1, <1>2, <1>3 DEF m
  <2>2. f[Len(f)] = z[Len(z)]
    BY ONLY <2>1, JoinsEnds
  <2> QED BY <2>2
<1>11. Listed(f) /\ Len(f) > 0
  BY <1>1, <1>2, <1>3 DEF Joins, m
<1>12. AnnounceText(f)
  BY <1>8, <1>9, <1>10, <1>11 DEF AnnounceText
<1> QED BY <1>12 DEF f

(* "Player1 Scores a critical hit!(7)" *)
LEMMA CritText ==
  ASSUME NEW source \in Fighters, NEW n \in Number
  PROVE  AnnounceText(source \o <<"Scores", "a", "critical", "hit", "!", "(", n, ")">>)
<1> DEFINE z == <<"Scores", "a", "critical", "hit", "!", "(", n, ")">>
<1>1. z \in Seq({"Scores", "a", "critical", "hit", "!", "(", n, ")"})
      /\ Len(z) = 8 /\ z[8] = ")" /\ z[7] = n
  OBVIOUS
<1>2. \A k \in 1..6 : z[k] \in {"Scores", "a", "critical", "hit", "!", "("}
  <2>1. \A k \in 1..6 : k = 1 \/ k = 2 \/ k = 3 \/ k = 4 \/ k = 5 \/ k = 6
    OBVIOUS
  <2>2. z[1] = "Scores" /\ z[2] = "a" /\ z[3] = "critical" /\ z[4] = "hit" /\ z[5] = "!" /\ z[6] = "("
    OBVIOUS
  <2> HIDE DEF z
  <2> QED BY <2>1, <2>2
<1> HIDE DEF z
<1>3. Listed(z)
  BY <1>1, Zenon DEF Listed
<1>4. \A k \in 1..(Len(z) - 2) :
        z[k] \notin {".", ")", "try", "tries", "have", "been", "to", "slain"}
  BY <1>1, <1>2
<1>5. Len(z) > 2 /\ z[Len(z)] = ")" /\ z[Len(z) - 1] \in Number
  BY <1>1
<1> QED BY <1>3, <1>4, <1>5, AnnounceTextIs DEF z

(* "Player1 lands a Crippling Blow!(7)" *)
LEMMA CripText ==
  ASSUME NEW source \in Fighters, NEW n \in Number
  PROVE  AnnounceText(source \o <<"lands", "a", "Crippling", "Blow", "!", "(", n, ")">>)
<1> DEFINE z == <<"lands", "a", "Crippling", "Blow", "!", "(", n, ")">>
<1>1. z \in Seq({"lands", "a", "Crippling", "Blow", "!", "(", n, ")"})
      /\ Len(z) = 8 /\ z[8] = ")" /\ z[7] = n
  OBVIOUS
<1>2. \A k \in 1..6 : z[k] \in {"lands", "a", "Crippling", "Blow", "!", "("}
  <2>1. \A k \in 1..6 : k = 1 \/ k = 2 \/ k = 3 \/ k = 4 \/ k = 5 \/ k = 6
    OBVIOUS
  <2>2. z[1] = "lands" /\ z[2] = "a" /\ z[3] = "Crippling" /\ z[4] = "Blow" /\ z[5] = "!" /\ z[6] = "("
    OBVIOUS
  <2> HIDE DEF z
  <2> QED BY <2>1, <2>2
<1> HIDE DEF z
<1>3. Listed(z)
  BY <1>1, Zenon DEF Listed
<1>4. \A k \in 1..(Len(z) - 2) :
        z[k] \notin {".", ")", "try", "tries", "have", "been", "to", "slain"}
  BY <1>1, <1>2
<1>5. Len(z) > 2 /\ z[Len(z)] = ")" /\ z[Len(z) - 1] \in Number
  BY <1>1
<1> QED BY <1>3, <1>4, <1>5, AnnounceTextIs DEF z

(* "Player1's holy blade cleanses his target!(7)" *)
LEMMA HolyBladeText ==
  ASSUME NEW source \in Fighters, NEW n \in Number
  PROVE  AnnounceText(source \o <<"'s", "holy", "blade", "cleanses", "his", "target", "!", "(", n, ")">>)
<1> DEFINE z == <<"'s", "holy", "blade", "cleanses", "his", "target", "!", "(", n, ")">>
<1>1. z \in Seq({"'s", "holy", "blade", "cleanses", "his", "target", "!", "(", n, ")"})
      /\ Len(z) = 10 /\ z[10] = ")" /\ z[9] = n
  OBVIOUS
<1>2. \A k \in 1..8 : z[k] \in {"'s", "holy", "blade", "cleanses", "his", "target", "!", "("}
  <2>1. \A k \in 1..8 : k = 1 \/ k = 2 \/ k = 3 \/ k = 4 \/ k = 5 \/ k = 6 \/ k = 7 \/ k = 8
    OBVIOUS
  <2>2. /\ z[1] = "'s" /\ z[2] = "holy" /\ z[3] = "blade" /\ z[4] = "cleanses" /\ z[5] = "his"
        /\ z[6] = "target" /\ z[7] = "!" /\ z[8] = "("
    OBVIOUS
  <2> HIDE DEF z
  <2> QED BY <2>1, <2>2
<1> HIDE DEF z
<1>3. Listed(z)
  BY <1>1, Zenon DEF Listed
<1>4. \A k \in 1..(Len(z) - 2) :
        z[k] \notin {".", ")", "try", "tries", "have", "been", "to", "slain"}
  <2>1. Len(z) - 2 = 8
    BY <1>1
  <2>2. \A w \in {"'s", "holy", "blade", "cleanses", "his", "target", "!", "("} :
          w \notin {".", ")", "try", "tries", "have", "been", "to", "slain"}
    BY ONLY TRUE
  <2> QED BY ONLY <1>2, <2>1, <2>2
<1>5. Len(z) > 2 /\ z[Len(z)] = ")" /\ z[Len(z) - 1] \in Number
  BY <1>1
<1> QED BY <1>3, <1>4, <1>5, AnnounceTextIs DEF z
-----------------------------------------------------------------------------
(* "Your body combusts as the lava hits you. You have taken 7 points of damage." *)
LEMMA AreaTextIs ==
  ASSUME NEW p \in ThePoints, NEW n \in Number
  PROVE  AreaText(<<"Your", "body", "combusts", "as", "the", "lava", "hits", "you", ".",
                    "You", "have", "taken", n>> \o p)
<1> DEFINE z == <<"Your", "body", "combusts", "as", "the", "lava", "hits", "you", ".",
                  "You", "have", "taken", n>>
           W == {"Your", "body", "combusts", "as", "the", "lava", "hits", "you", ".",
                 "You", "have", "taken", n}
           f == z \o p
<1>1. z \in Seq(W)
  OBVIOUS
<1>2. Len(z) = 13
  OBVIOUS
<1>3. z[8] = "you" /\ z[9] = "." /\ z[11] = "have" /\ z[12] = "taken" /\ z[13] = n
  OBVIOUS
<1>4. /\ z[1] = "Your" /\ z[2] = "body" /\ z[3] = "combusts" /\ z[4] = "as" /\ z[5] = "the"
      /\ z[6] = "lava" /\ z[7] = "hits" /\ z[10] = "You"
  OBVIOUS
<1>5. Listed(p) /\ Len(p) = 4 /\ p[1] \notin Mark /\ p[2] = "of" /\ p[3] = "damage" /\ p[4] = "."
  BY ThePointsAre
<1> HIDE DEF W, z
<1>6. Listed(z)
  BY <1>1, Zenon DEF Listed
<1>7. Joins(f, z, p)
  BY <1>5, <1>6, Joined
<1> HIDE DEF f
<1>8. /\ Listed(f) /\ Len(f) = 17
      /\ \A i \in 1..13 : f[i] = z[i]
      /\ \A i \in 1..4 : f[13 + i] = p[i]
  BY <1>2, <1>5, <1>7 DEF Joins
<1>9. f[8] = z[8] /\ f[9] = z[9] /\ f[11] = z[11] /\ f[12] = z[12] /\ f[13] = z[13]
  BY ONLY <1>8
<1>10. f[14] = p[1] /\ f[15] = p[2] /\ f[16] = p[3] /\ f[17] = p[4]
  BY ONLY <1>8
<1>11. f[1] = z[1] /\ f[2] = z[2] /\ f[3] = z[3] /\ f[4] = z[4] /\ f[5] = z[5] /\ f[6] = z[6]
       /\ f[7] = z[7] /\ f[10] = z[10]
  BY ONLY <1>8
<1>12. ASSUME NEW k \in 1..17, f[k] \in Stops PROVE k \in {9, 17}
  <2>1. \/ k \in 1..8 \/ k = 9 \/ k = 10 \/ k = 11 \/ k = 12 \/ k = 13 \/ k = 14 \/ k = 15
        \/ k = 16 \/ k = 17
    OBVIOUS
  <2>2. k \in 1..8 => \/ k = 1 \/ k = 2 \/ k = 3 \/ k = 4 \/ k = 5 \/ k = 6 \/ k = 7 \/ k = 8
    OBVIOUS
  <2>3. \A w \in {"Your", "body", "combusts", "as", "the", "lava", "hits", "you", "You", "have",
                  "taken", "of", "damage"} : w \notin Stops
    BY DEF Stops
  <2>4. n \notin Stops /\ p[1] \notin Stops
    BY <1>5, NumberIs DEF Stops, Mark
  <2>5. ~(k \in 1..8)
    BY ONLY <1>3, <1>4, <1>9, <1>11, <2>2, <2>3, f[k] \in Stops
  <2>6. ~(k = 10 \/ k = 11 \/ k = 12 \/ k = 13)
    BY ONLY <1>3, <1>4, <1>9, <1>11, <2>3, <2>4, f[k] \in Stops
  <2>7. ~(k = 14 \/ k = 15 \/ k = 16)
    BY ONLY <1>5, <1>10, <2>3, <2>4, f[k] \in Stops
  <2> QED BY ONLY <2>1, <2>5, <2>6, <2>7
<1>13. AreaText(f)
  BY <1>3, <1>5, <1>8, <1>9, <1>10, <1>12 DEF AreaText
<1> QED BY <1>13 DEF f, z

(* A part of a text: words without a mark, no two of which are of P. *)
Part(f, P) == Unmarked(f) /\ Len(f) > 0 /\ Free(f, P)

(* Two parts make a part, unless they meet in a pair. *)
LEMMA PartJoins ==
  ASSUME NEW P, NEW a, NEW b, Part(a, P), Part(b, P), <<a[Len(a)], b[1]>> \notin P
  PROVE  Part(a \o b, P)
<1> DEFINE f == a \o b
<1>1. Unmarked(a) /\ Listed(a) /\ Len(a) > 0 /\ Free(a, P)
  BY DEF Part, Unmarked
<1>2. Unmarked(b) /\ Listed(b) /\ Len(b) > 0 /\ Free(b, P)
  BY DEF Part, Unmarked
<1>3. Joins(f, a, b)
  BY <1>1, <1>2, Joined
<1> HIDE DEF f
<1>4. Unmarked(f)
  BY <1>1, <1>2, <1>3, UnmarkedJoins
<1>5. Free(f, P)
  BY <1>1, <1>2, <1>3, FreeJoins
<1>6. Len(f) = Len(a) + Len(b) /\ Len(a) \in Nat /\ Len(b) \in Nat
  BY <1>1, <1>2, <1>3, ListedLength DEF Joins
<1>7. Len(f) > 0
  BY ONLY <1>1, <1>2, <1>6
<1>8. Part(f, P)
  BY <1>4, <1>5, <1>7 DEF Part
<1> QED BY <1>8 DEF f

(* How a part ends that is made up of two. *)
LastWord(f, w) == f[Len(f)] = w

(* The last word of the whole is the last of the second part. *)
LEMMA PartEnd ==
  ASSUME NEW P, NEW a, NEW b, Part(a, P), Part(b, P)
  PROVE  LastWord(a \o b, b[Len(b)])
<1> DEFINE f == a \o b
<1>1. Listed(a) /\ Listed(b) /\ Len(b) > 0
  BY DEF Part, Unmarked
<1>2. Joins(f, a, b)
  BY <1>1, Joined
<1> HIDE DEF f
<1>3. f[Len(f)] = b[Len(b)]
  BY <1>1, <1>2, JoinsEnds
<1>4. LastWord(f, b[Len(b)])
  BY <1>3 DEF LastWord
<1> QED BY <1>4 DEF f

(* A fighter is a part. *)
LEMMA FighterPart == ASSUME NEW f \in Fighters PROVE Part(f, Pairs) /\ Part(f, TryPairs)
BY FighterParts DEF Part

(* So is a word that is no mark, *)
LEMMA WordPart == ASSUME NEW w, w \notin Mark, NEW P PROVE Part(<<w>>, P)
BY OneWord DEF Part

(* and so are three. *)
LEMMA ThreePart ==
  ASSUME NEW u, NEW v, NEW w, u \notin Mark, v \notin Mark, w \notin Mark,
         NEW P, <<u, v>> \notin P, <<v, w>> \notin P
  PROVE  Part(<<u, v, w>>, P)
<1> DEFINE y == <<u, v, w>>
<1>1. Listed(y) /\ Len(y) = 3 /\ y[1] = u /\ y[2] = v /\ y[3] = w
  BY Three
<1> HIDE DEF y
<1>2. Unmarked(y)
  <2>1. \A k \in 1..3 : k = 1 \/ k = 2 \/ k = 3
    OBVIOUS
  <2> QED BY <1>1, <2>1 DEF Unmarked
<1>3. Free(y, P)
  <2> SUFFICES ASSUME NEW k \in 1..(Len(y) - 1) PROVE <<y[k], y[k + 1]>> \notin P
    BY DEF Free
  <2>1. k = 1 \/ k = 2
    BY <1>1
  <2>2. CASE k = 1
    <3>1. y[k] = u /\ y[k + 1] = v
      BY <1>1, <2>2
    <3> QED BY <3>1
  <2>3. CASE k = 2
    <3>1. y[k] = v /\ y[k + 1] = w
      BY <1>1, <2>3
    <3> QED BY <3>1
  <2> QED BY <2>1, <2>2, <2>3
<1>4. Part(y, P)
  BY <1>1, <1>2, <1>3 DEF Part
<1> QED BY <1>4 DEF y

(* A text whose only stop is its last word. *)
StopFree(f) == \A k \in 1..Len(f) : f[k] \notin Stops

(* A text without a mark has no stop. *)
LEMMA UnmarkedStopFree == ASSUME NEW f, Unmarked(f) PROVE StopFree(f) /\ Listed(f)
BY DEF Unmarked, StopFree, Stops, Mark

(* Two parts joined, the second of which ends in the only stop. *)
Stopped(f, g, z) ==
  /\ Joins(f, g, z) /\ StopsAtEnd(f) /\ Listed(f) /\ Len(f) = Len(g) + Len(z)
  /\ f[Len(f)] = z[Len(z)]

(* A part without a stop and one that ends in its only stop. *)
LEMMA StopsJoin ==
  ASSUME NEW g, Listed(g), StopFree(g), NEW z, Listed(z), Len(z) > 0, StopsAtEnd(z)
  PROVE  Stopped(g \o z, g, z)
<1> DEFINE f == g \o z
<1>1. Len(g) \in Nat /\ Len(z) \in Nat
  BY ListedLength
<1>2. Joins(f, g, z)
  BY Joined
<1> HIDE DEF f
<1>3. Listed(f) /\ Len(f) = Len(g) + Len(z)
  BY <1>2 DEF Joins
<1>4. f[Len(f)] = z[Len(z)]
  BY <1>1, <1>2, JoinsEnds
<1>5. ASSUME NEW k \in 1..Len(f), f[k] \in Stops PROVE k = Len(f)
  <2>1. \/ k \in 1..Len(g) /\ f[k] = g[k]
        \/ k - Len(g) \in 1..Len(z) /\ f[k] = z[k - Len(g)]
    BY <1>1, <1>2, JoinsAt
  <2>2. ~(k \in 1..Len(g) /\ f[k] = g[k])
    BY <1>5 DEF StopFree
  <2> DEFINE j == k - Len(g)
  <2>3. j \in 1..Len(z) /\ z[j] \in Stops
    BY ONLY <2>1, <2>2, f[k] \in Stops
  <2> HIDE DEF j
  <2>4. j = Len(z)
    BY <2>3 DEF StopsAtEnd
  <2> QED BY ONLY <1>1, <1>3, <2>4, k \in 1..Len(f) DEF j
<1>6. StopsAtEnd(f)
  BY <1>5 DEF StopsAtEnd
<1>7. Stopped(f, g, z)
  BY <1>2, <1>3, <1>4, <1>6 DEF Stopped
<1> QED BY <1>7 DEF f

(* "a clay golem died." *)
LEMMA DiedTextIs ==
  ASSUME NEW target \in Fighters
  PROVE  DiedText(target \o <<"died", ".">>)
<1> DEFINE z == <<"died", ".">>
           f == target \o z
<1>1. Unmarked(target) /\ Listed(target) /\ Len(target) \in Nat /\ Len(target) > 0
  BY FighterParts
<1>2. Listed(z) /\ Len(z) = 2 /\ z[1] = "died" /\ z[2] = "."
  BY Two
<1> HIDE DEF z
<1>3. StopsAtEnd(z)
  <2>1. "died" \notin Stops
    BY DEF Stops
  <2>2. \A k \in 1..2 : k = 1 \/ k = 2
    OBVIOUS
  <2> QED BY <1>2, <2>1, <2>2 DEF StopsAtEnd
<1>4. Stopped(f, target, z)
  BY <1>1, <1>2, <1>3, StopsJoin, UnmarkedStopFree
<1> HIDE DEF f
<1>5. /\ StopsAtEnd(f) /\ Listed(f) /\ Len(f) = Len(target) + 2 /\ f[Len(f)] = "."
      /\ f[Len(target) + 1] = z[1]
  <2>1. 1 \in 1..Len(z)
    BY <1>2
  <2> QED BY <1>2, <1>4, <2>1 DEF Stopped, Joins
<1>6. f[Len(f) - 1] = "died"
  <2>1. Len(f) - 1 = Len(target) + 1
    BY <1>1, <1>5
  <2> QED BY <1>2, <1>5, <2>1
<1>7. DiedText(f)
  BY <1>1, <1>5, <1>6 DEF DiedText
<1> QED BY <1>7 DEF f, z

(* A text that ends in an exclamation mark and tells of no try. *)
LEMMA KillTextIs ==
  ASSUME NEW g, Part(g, TryPairs)
  PROVE  KillText(g \o <<"!">>)
<1> DEFINE z == <<"!">>
           f == g \o z
<1>1. Unmarked(g) /\ Listed(g) /\ Len(g) \in Nat /\ Len(g) > 0 /\ Free(g, TryPairs)
  BY ListedLength DEF Part, Unmarked
<1>2. Listed(z) /\ Len(z) = 1 /\ z[1] = "!" /\ Free(z, TryPairs)
  BY OneWord
<1> HIDE DEF z
<1>3. StopsAtEnd(z)
  BY <1>2 DEF StopsAtEnd
<1>4. Stopped(f, g, z)
  BY <1>1, <1>2, <1>3, StopsJoin, UnmarkedStopFree
<1> HIDE DEF f
<1>5. Joins(f, g, z) /\ StopsAtEnd(f) /\ Listed(f) /\ Len(f) = Len(g) + 1 /\ f[Len(f)] = "!"
  BY <1>2, <1>4 DEF Stopped
<1>6. <<g[Len(g)], z[1]>> \notin TryPairs
  BY <1>2, NotPair
<1>7. Free(f, TryPairs)
  <2>1. Len(z) > 0
    BY <1>2
  <2> QED BY <1>1, <1>2, <1>5, <1>6, <2>1, FreeJoins
<1>8. KillText(f)
  BY <1>1, <1>5, <1>7 DEF KillText
<1> QED BY <1>8 DEF f, z

(* "You have slain a clay golem!" *)
LEMMA SlewText ==
  ASSUME NEW target \in Fighters
  PROVE  KillText(<<"You", "have", "slain">> \o target \o <<"!">>)
<1> DEFINE y == <<"You", "have", "slain">>
           g == y \o target
<1>1. Part(target, TryPairs)
  BY FighterPart
<1>2. Part(y, TryPairs)
  <2>1. "You" \notin Mark /\ "have" \notin Mark /\ "slain" \notin Mark
    BY DEF Mark
  <2>2. <<"You", "have">> \notin TryPairs /\ <<"have", "slain">> \notin TryPairs
    BY DEF TryPairs
  <2> QED BY <2>1, <2>2, ThreePart
<1>3. y[Len(y)] = "slain"
  BY Three
<1>4. <<y[Len(y)], target[1]>> \notin TryPairs
  BY <1>3 DEF TryPairs
<1> HIDE DEF y
<1>5. Part(g, TryPairs)
  BY <1>1, <1>2, <1>4, PartJoins
<1> HIDE DEF g
<1>6. KillText(g \o <<"!">>)
  BY <1>5, KillTextIs
<1> QED BY <1>6 DEF g, y

(* "a clay golem has been slain by Player1!" *)
LEMMA SlainText ==
  ASSUME NEW target \in Fighters, NEW source \in Fighters, NEW has \in {"have", "has"}
  PROVE  KillText(target \o <<has>> \o <<"been", "slain", "by">> \o source \o <<"!">>)
<1> DEFINE h == <<has>>
           t == target \o h
           y == <<"been", "slain", "by">>
           u == t \o y
           g == u \o source
<1>1. Part(target, TryPairs) /\ Part(source, TryPairs)
  BY FighterPart
<1>2. Part(h, TryPairs) /\ h[1] = has
  <2>1. has \notin Mark
    BY DEF Mark
  <2> QED BY <2>1, WordPart
<1>3. Part(y, TryPairs)
  <2>1. "been" \notin Mark /\ "slain" \notin Mark /\ "by" \notin Mark
    BY DEF Mark
  <2>2. <<"been", "slain">> \notin TryPairs /\ <<"slain", "by">> \notin TryPairs
    BY DEF TryPairs
  <2> QED BY <2>1, <2>2, ThreePart
<1>4. y[1] = "been" /\ y[Len(y)] = "by"
  BY Three
<1> HIDE DEF h, y
<1>5. <<target[Len(target)], h[1]>> \notin TryPairs
  <2>1. h[1] \notin {"to", "slain"}
    BY <1>2
  <2> QED BY <2>1, NotPair
<1>6. Part(t, TryPairs)
  BY <1>1, <1>2, <1>5, PartJoins
<1> HIDE DEF t
<1>7. <<t[Len(t)], y[1]>> \notin TryPairs
  <2>1. y[1] \notin {"to", "slain"}
    BY <1>4
  <2> QED BY <2>1, NotPair
<1>8. Part(u, TryPairs)
  BY <1>3, <1>6, <1>7, PartJoins
<1>9. u[Len(u)] = "by"
  <2>1. Part(t, TryPairs) /\ Part(y, TryPairs)
    BY <1>3, <1>6
  <2>2. LastWord(u, y[Len(y)])
    BY ONLY <2>1, PartEnd, Zenon
  <2> HIDE DEF u
  <2> QED BY <1>4, <2>2 DEF LastWord
<1> HIDE DEF u
<1>10. <<u[Len(u)], source[1]>> \notin TryPairs
  <2>1. u[Len(u)] \notin {"try", "tries", "have", "been"}
    BY <1>9
  <2> QED BY <2>1, NotPair
<1>11. Part(g, TryPairs)
  BY <1>1, <1>8, <1>10, PartJoins
<1> HIDE DEF g
<1>12. KillText(g \o <<"!">>)
  BY <1>11, KillTextIs
<1> QED BY <1>12 DEF g, u, y, t, h
-----------------------------------------------------------------------------
(* A try is told up to its ", but" at the place c, and after it. *)
TryBegun(f, c) ==
  /\ Listed(f) /\ c \in 1..(Len(f) - 1) /\ f[c] = "," /\ f[c + 1] = "but"
  /\ c + 2 <= Len(f) => f[c + 2] \notin Mark
  /\ \A k \in 1..Len(f) : f[k] = "," => k = c
  /\ \A k \in 1..(Len(f) - 1) : <<f[k], f[k + 1]>> \in TryPairs => k + 3 < c

(* No comma. *)
CommaFree(f) == \A k \in 1..Len(f) : f[k] # ","

(* What follows a try that is told up to its ", but" leaves it where it    *)
(* is.                                                                     *)
LEMMA TryGrows ==
  ASSUME NEW f, NEW c, TryBegun(f, c), NEW b, Listed(b), Len(b) > 0,
         b[1] \notin Mark \/ c + 2 <= Len(f), CommaFree(b), Free(b, TryPairs),
         <<f[Len(f)], b[1]>> \notin TryPairs
  PROVE  TryBegun(f \o b, c)
<1> DEFINE g == f \o b
           n == Len(f)
           m == Len(b)
<1>1. /\ Listed(f) /\ n \in Nat /\ m \in Nat /\ c \in 1..(n - 1) /\ f[c] = "," /\ f[c + 1] = "but"
      /\ c + 2 <= n => f[c + 2] \notin Mark
      /\ \A k \in 1..n : f[k] = "," => k = c
      /\ \A k \in 1..(n - 1) : <<f[k], f[k + 1]>> \in TryPairs => k + 3 < c
  BY ListedLength DEF TryBegun
<1>2. Joins(g, f, b)
  BY <1>1, Joined
<1> HIDE DEF g
<1>3. /\ Listed(g) /\ Len(g) = n + m
      /\ \A i \in 1..n : g[i] = f[i]
      /\ \A i \in 1..m : g[n + i] = b[i]
  BY <1>2 DEF Joins
<1>4. \A k \in 1..m : b[k] # ","
  BY DEF CommaFree
<1>5. \A k \in 1..(m - 1) : <<b[k], b[k + 1]>> \notin TryPairs
  BY DEF Free
<1>6. m > 0 /\ (b[1] \notin Mark \/ c + 2 <= n) /\ <<f[n], b[1]>> \notin TryPairs
  OBVIOUS
<1>0. n \in Nat /\ m \in Nat /\ m > 0 /\ c \in 1..(n - 1) /\ Len(g) = n + m
  BY <1>1, <1>3, <1>6
<1> HIDE DEF n, m
<1>7. c \in 1..(Len(g) - 1) /\ g[c] = "," /\ g[c + 1] = "but"
  <2>1. c \in 1..n /\ c + 1 \in 1..n /\ c \in 1..(Len(g) - 1)
    BY ONLY <1>0
  <2> QED BY ONLY <1>1, <1>3, <2>1
<1>8. c + 2 <= Len(g) => g[c + 2] \notin Mark
  <2>1. CASE c + 2 <= n
    <3>1. c + 2 \in 1..n
      BY ONLY <1>0, <2>1
    <3> QED BY ONLY <1>1, <1>3, <2>1, <3>1
  <2>2. CASE ~(c + 2 <= n)
    <3>1. c + 2 = n + 1 /\ 1 \in 1..m
      BY ONLY <1>0, <2>2
    <3>2. g[n + 1] = b[1]
      BY ONLY <1>3, <3>1
    <3> QED BY ONLY <1>6, <2>2, <3>1, <3>2
  <2> QED BY <2>1, <2>2
<1>9. ASSUME NEW k \in 1..Len(g), g[k] = "," PROVE k = c
  <2>1. \/ k \in 1..Len(f) /\ g[k] = f[k]
        \/ k - Len(f) \in 1..Len(b) /\ g[k] = b[k - Len(f)]
    <3>1. Listed(f) /\ Listed(b) /\ Joins(g, f, b)
      BY <1>1, <1>2
    <3> QED BY ONLY <3>1, k \in 1..Len(g), JoinsAt
  <2> QED BY ONLY <1>1, <1>4, <1>9, <2>1 DEF n, m
<1>10. ASSUME NEW k \in 1..(Len(g) - 1), <<g[k], g[k + 1]>> \in TryPairs PROVE k + 3 < c
  <2>1. CASE k < n
    <3>1. k \in 1..(n - 1) /\ k \in 1..n /\ k + 1 \in 1..n
      BY ONLY <1>0, <2>1, k \in 1..(Len(g) - 1)
    <3>2. g[k] = f[k] /\ g[k + 1] = f[k + 1]
      BY ONLY <1>3, <3>1
    <3> QED BY ONLY <1>1, <1>10, <3>1, <3>2
  <2>2. CASE k = n
    <3>1. k \in 1..n /\ 1 \in 1..m
      BY ONLY <1>0, <2>2, k \in 1..(Len(g) - 1)
    <3>2. g[k] = f[n] /\ g[k + 1] = b[1]
      BY ONLY <1>3, <2>2, <3>1
    <3> QED BY ONLY <1>6, <1>10, <3>2
  <2>3. CASE k > n
    <3> DEFINE j == k - n
    <3>1. j \in 1..(m - 1) /\ j \in 1..m /\ j + 1 \in 1..m /\ n + j = k /\ n + (j + 1) = k + 1
      BY ONLY <1>0, <2>3, k \in 1..(Len(g) - 1)
    <3> HIDE DEF j
    <3>2. g[n + j] = b[j] /\ g[n + (j + 1)] = b[j + 1]
      BY ONLY <1>3, <3>1
    <3>3. g[k] = b[j] /\ g[k + 1] = b[j + 1]
      BY ONLY <3>1, <3>2
    <3> QED BY ONLY <1>5, <1>10, <3>1, <3>3
  <2> QED BY ONLY <1>0, <2>1, <2>2, <2>3, k \in 1..(Len(g) - 1)
<1>11. TryBegun(g, c)
  BY <1>3, <1>7, <1>8, <1>9, <1>10 DEF TryBegun
<1> QED BY <1>11 DEF g

(* The same with the stops, none of which is there yet. *)
Trying(f, c) == TryBegun(f, c) /\ StopFree(f)

(* Two parts without a stop make a whole without one. *)
LEMMA StopFreeJoins ==
  ASSUME NEW a, NEW b, Listed(a), Listed(b), StopFree(a), StopFree(b)
  PROVE  StopFree(a \o b)
<1> DEFINE f == a \o b
<1>1. Joins(f, a, b)
  BY Joined
<1> HIDE DEF f
<1>2. ASSUME NEW k \in 1..Len(f) PROVE f[k] \notin Stops
  <2>1. \/ k \in 1..Len(a) /\ f[k] = a[k]
        \/ k - Len(a) \in 1..Len(b) /\ f[k] = b[k - Len(a)]
    BY <1>1, JoinsAt
  <2> QED BY <2>1 DEF StopFree
<1>3. StopFree(f)
  BY <1>2 DEF StopFree
<1> QED BY <1>3 DEF f

(* A text without a mark has no comma. *)
LEMMA UnmarkedCommaFree == ASSUME NEW f, Unmarked(f) PROVE CommaFree(f)
BY DEF Unmarked, CommaFree, Mark

(* A part that follows a try, without a mark. *)
LEMMA TryGoesOn ==
  ASSUME NEW f, NEW c, Trying(f, c), NEW b, Part(b, TryPairs), <<f[Len(f)], b[1]>> \notin TryPairs
  PROVE  Trying(f \o b, c)
<1>1. Unmarked(b) /\ Listed(b) /\ Len(b) > 0 /\ Len(b) \in Nat /\ Free(b, TryPairs)
  BY ListedLength DEF Part, Unmarked
<1>2. b[1] \notin Mark
  BY <1>1 DEF Unmarked
<1>3. CommaFree(b) /\ StopFree(b)
  BY <1>1, UnmarkedCommaFree, UnmarkedStopFree
<1>4. TryBegun(f, c) /\ StopFree(f) /\ Listed(f)
  BY DEF Trying, TryBegun
<1>5. TryBegun(f \o b, c)
  BY <1>1, <1>2, <1>3, <1>4, TryGrows
<1>6. StopFree(f \o b)
  BY <1>1, <1>3, <1>4, StopFreeJoins
<1> QED BY <1>5, <1>6 DEF Trying

(* How a try ends. *)
LEMMA TryEnds ==
  ASSUME NEW f, NEW c, Trying(f, c), c + 2 <= Len(f), NEW z, Listed(z), Len(z) > 0, StopsAtEnd(z),
         z[Len(z)] = "!", CommaFree(z), Free(z, TryPairs), <<f[Len(f)], z[1]>> \notin TryPairs
  PROVE  TryText(f \o z)
<1>1. TryBegun(f, c) /\ StopFree(f) /\ Listed(f)
  BY DEF Trying, TryBegun
<1> DEFINE g == f \o z
<1>2. TryBegun(g, c)
  BY <1>1, TryGrows
<1>3. Stopped(g, f, z)
  BY <1>1, StopsJoin
<1> HIDE DEF g
<1>4. Len(f) \in Nat /\ Len(z) \in Nat
  BY <1>1, ListedLength
<1>5. Len(g) = Len(f) + Len(z) /\ g[Len(g)] = "!" /\ StopsAtEnd(g) /\ Listed(g)
  BY <1>3 DEF Stopped
<1>6. /\ c \in 1..(Len(g) - 1) /\ g[c] = "," /\ g[c + 1] = "but"
      /\ c + 2 <= Len(g) => g[c + 2] \notin Mark
      /\ \A k \in 1..Len(g) : g[k] = "," => k = c
      /\ \A k \in 1..(Len(g) - 1) : <<g[k], g[k + 1]>> \in TryPairs => k + 3 < c
  BY <1>2 DEF TryBegun
<1>7. c \in 1..Len(g) /\ c + 2 <= Len(g)
  <2>1. c + 2 <= Len(f)
    OBVIOUS
  <2>0. c \in 1..(Len(g) - 1)
    BY <1>6
  <2>2. c \in Int /\ 1 <= c
    BY ONLY <1>4, <1>5, <2>0
  <2> QED BY ONLY <1>4, <1>5, <2>1, <2>2
<1>8. TryText(g)
  BY <1>5, <1>6, <1>7 DEF TryText
<1> QED BY <1>8 DEF g

(* "a clay golem tries to slash Player1, but" *)
LEMMA TriedIs ==
  ASSUME NEW source \in Fighters, NEW target \in Fighters, NEW tries \in {"try", "tries"},
         NEW verb, verb \notin Mark, verb \notin {"to", "try", "tries"}
  PROVE  LET f == source \o <<tries>> \o <<"to", verb>> \o target \o <<",", "but">>
         IN  /\ Trying(f, Len(source) + Len(target) + 4)
             /\ Len(f) = Len(source) + Len(target) + 5
             /\ f[Len(f)] = "but"
<1> DEFINE w == <<tries>>
           x == <<"to", verb>>
           y == <<",", "but">>
           d == source \o w
           e == d \o x
           g == e \o target
           f == g \o y
           n == Len(source)
           m == Len(target)
<1>1. /\ Unmarked(source) /\ Listed(source) /\ n \in Nat /\ n > 0 /\ Free(source, TryPairs)
      /\ Unmarked(target) /\ Listed(target) /\ m \in Nat /\ m > 0 /\ Free(target, TryPairs)
  BY FighterParts
<1>2. Listed(w) /\ Len(w) = 1 /\ w[1] = tries /\ Unmarked(w)
  <2>1. tries \notin Mark
    BY DEF Mark
  <2> QED BY <2>1, OneWord
<1>3. Listed(x) /\ Len(x) = 2 /\ x[1] = "to" /\ x[2] = verb
  BY Two
<1>4. Listed(y) /\ Len(y) = 2 /\ y[1] = "," /\ y[2] = "but"
  BY Two
<1>0. n \in Nat /\ m \in Nat /\ n > 0 /\ m > 0
  BY <1>1
<1> HIDE DEF w, x, y, n, m
<1>5. Joins(d, source, w)
  BY <1>1, <1>2, Joined
<1> HIDE DEF d
<1>6. Listed(d) /\ Len(d) = n + 1 /\ d[n + 1] = tries /\ \A k \in 1..n : d[k] = source[k]
  <2>1. /\ Listed(d) /\ Len(d) = n + 1 /\ \A k \in 1..n : d[k] = source[k]
        /\ \A k \in 1..1 : d[n + k] = w[k]
    BY <1>2, <1>5 DEF Joins, n
  <2>2. d[n + 1] = w[1]
    BY ONLY <2>1
  <2> QED BY <1>2, <2>1, <2>2
<1>7. Joins(e, d, x)
  BY <1>3, <1>6, Joined
<1> HIDE DEF e
<1>8. /\ Listed(e) /\ Len(e) = n + 3 /\ e[n + 1] = tries /\ e[n + 2] = "to" /\ e[n + 3] = verb
      /\ \A k \in 1..n : e[k] = source[k]
  <2>1. /\ Listed(e) /\ Len(e) = n + 1 + 2 /\ \A k \in 1..(n + 1) : e[k] = d[k]
        /\ \A k \in 1..2 : e[n + 1 + k] = x[k]
    BY <1>3, <1>6, <1>7 DEF Joins
  <2>2. e[n + 1 + 1] = x[1] /\ e[n + 1 + 2] = x[2] /\ n + 1 \in 1..(n + 1)
    BY ONLY <1>0, <2>1
  <2>3. \A k \in 1..n : k \in 1..(n + 1)
    BY ONLY <1>0
  <2>4. n + 1 + 1 = n + 2 /\ n + 1 + 2 = n + 3
    BY ONLY <1>0
  <2> QED BY ONLY <1>3, <1>6, <2>1, <2>2, <2>3, <2>4
<1>9. Joins(g, e, target)
  BY <1>1, <1>8, Joined
<1> HIDE DEF g
<1>10. /\ Listed(g) /\ Len(g) = n + 3 + m /\ \A k \in 1..(n + 3) : g[k] = e[k]
       /\ \A k \in 1..m : g[n + 3 + k] = target[k]
  BY <1>8, <1>9 DEF Joins, m
<1>11. Joins(f, g, y)
  BY <1>4, <1>10, Joined
<1> HIDE DEF f
<1>12. /\ Listed(f) /\ Len(f) = n + 3 + m + 2 /\ \A k \in 1..(n + 3 + m) : f[k] = g[k]
       /\ \A k \in 1..2 : f[n + 3 + m + k] = y[k]
  BY <1>4, <1>10, <1>11 DEF Joins
<1> DEFINE c == n + m + 4
<1>13. f[c] = "," /\ f[c + 1] = "but" /\ Len(f) = c + 1 /\ c \in 1..(Len(f) - 1) /\ c \in Nat
  <2>1. f[n + 3 + m + 1] = y[1] /\ f[n + 3 + m + 2] = y[2]
    BY ONLY <1>12
  <2>2. n + 3 + m + 1 = c /\ n + 3 + m + 2 = c + 1
    BY ONLY <1>0
  <2>3. Len(f) = n + 3 + m + 2
    BY <1>12
  <2>4. Len(f) = c + 1 /\ c \in 1..(Len(f) - 1) /\ c \in Nat
    BY ONLY <1>0, <2>3
  <2> QED BY ONLY <1>4, <2>1, <2>2, <2>4
<1>a. Len(f) = c + 1 /\ c \in Nat
  BY <1>13
<1>14. \A k \in 1..n : f[k] = source[k]
  <2> SUFFICES ASSUME NEW k \in 1..n PROVE f[k] = source[k]
    OBVIOUS
  <2>1. k \in 1..(n + 3) /\ k \in 1..(n + 3 + m)
    BY ONLY <1>0, k \in 1..n
  <2> QED BY ONLY <1>8, <1>10, <1>12, <2>1, k \in 1..n
<1>15. f[n + 1] = tries /\ f[n + 2] = "to" /\ f[n + 3] = verb
  <2>1. \A k \in {n + 1, n + 2, n + 3} : k \in 1..(n + 3) /\ k \in 1..(n + 3 + m)
    BY ONLY <1>0
  <2> QED BY ONLY <1>8, <1>10, <1>12, <2>1
<1>16. \A k \in 1..m : f[n + 3 + k] = target[k]
  <2> SUFFICES ASSUME NEW k \in 1..m PROVE f[n + 3 + k] = target[k]
    OBVIOUS
  <2>1. n + 3 + k \in 1..(n + 3 + m)
    BY ONLY <1>0, k \in 1..m
  <2>2. f[n + 3 + k] = g[n + 3 + k]
    BY ONLY <1>12, <2>1
  <2>3. g[n + 3 + k] = target[k]
    BY ONLY <1>10, k \in 1..m
  <2> QED BY ONLY <2>2, <2>3
<1>17. ASSUME NEW k \in 1..Len(f)
       PROVE  \/ k \in 1..n \/ k = n + 1 \/ k = n + 2 \/ k = n + 3
              \/ k - (n + 3) \in 1..m /\ n + 3 + (k - (n + 3)) = k
              \/ k = c \/ k = c + 1
  BY ONLY <1>0, <1>a, k \in 1..Len(f)
<1>18. ASSUME NEW k \in 1..Len(f), k # c PROVE f[k] \notin Mark
  <2>1. CASE k \in 1..n
    BY <1>1, <1>14, <2>1 DEF Unmarked, n
  <2>2. CASE k - (n + 3) \in 1..m /\ n + 3 + (k - (n + 3)) = k
    <3> DEFINE j == k - (n + 3)
    <3>1. j \in 1..m /\ n + 3 + j = k
      BY <2>2
    <3> HIDE DEF j
    <3>2. f[k] = target[j]
      BY <1>16, <3>1
    <3> QED BY <1>1, <3>1, <3>2 DEF Unmarked, m
  <2>3. tries \notin Mark /\ "to" \notin Mark /\ "but" \notin Mark
    BY DEF Mark
  <2>4. verb \notin Mark
    OBVIOUS
  <2> QED BY ONLY <1>13, <1>15, <1>17, <1>18, <2>1, <2>2, <2>3, <2>4
<1>19. \A k \in 1..Len(f) : f[k] = "," => k = c
  BY <1>18 DEF Mark
<1>20. StopFree(f)
  <2>1. f[c] \notin Stops
    BY <1>13 DEF Stops
  <2>2. \A k \in 1..Len(f) : k # c => f[k] \notin Stops
    BY <1>18 DEF Stops, Mark
  <2> QED BY <2>1, <2>2 DEF StopFree
<1>21. ASSUME NEW k \in 1..(Len(f) - 1), <<f[k], f[k + 1]>> \in TryPairs PROVE k + 3 < c
  <2>0. f[k] \in {"try", "tries"} /\ f[k + 1] = "to"
    BY <1>21 DEF TryPairs
  <2>1. CASE k <= n + 1
    BY ONLY <1>0, <1>a, <2>1, k \in 1..(Len(f) - 1)
  <2>2. CASE k = n + 2
    BY ONLY <1>15, <2>0, <2>2
  <2>3. CASE k = n + 3
    BY <1>15, <2>0, <2>3
  <2>4. CASE k - (n + 3) \in 1..(m - 1)
    <3> DEFINE j == k - (n + 3)
    <3>1. j \in 1..(m - 1) /\ j \in 1..m /\ j + 1 \in 1..m /\ n + 3 + j = k /\ n + 3 + (j + 1) = k + 1
      BY ONLY <1>0, <1>a, <2>4, k \in 1..(Len(f) - 1)
    <3> HIDE DEF j
    <3>2. f[n + 3 + j] = target[j] /\ f[n + 3 + (j + 1)] = target[j + 1]
      BY ONLY <1>16, <3>1
    <3>3. f[k] = target[j] /\ f[k + 1] = target[j + 1]
      BY ONLY <3>1, <3>2
    <3>4. <<target[j], target[j + 1]>> \notin TryPairs
      BY <1>1, <3>1 DEF Free, m
    <3> QED BY ONLY <1>21, <3>3, <3>4
  <2>5. CASE k = n + 3 + m
    <3>1. k + 1 = c
      BY ONLY <1>0, <2>5
    <3> QED BY ONLY <1>13, <2>0, <3>1
  <2>6. CASE k = c
    BY ONLY <1>13, <2>0, <2>6
  <2>7. \/ k <= n + 1 \/ k = n + 2 \/ k = n + 3 \/ k - (n + 3) \in 1..(m - 1) \/ k = n + 3 + m \/ k = c
    BY ONLY <1>0, <1>a, k \in 1..(Len(f) - 1)
  <2> QED BY ONLY <2>1, <2>2, <2>3, <2>4, <2>5, <2>6, <2>7
<1>22. TryBegun(f, c)
  <2>1. ~(c + 2 <= Len(f))
    BY ONLY <1>a
  <2> QED BY <1>12, <1>13, <1>19, <1>21, <2>1 DEF TryBegun
<1>23. Trying(f, c) /\ Len(f) = n + m + 5 /\ f[Len(f)] = "but"
  <2>1. Len(f) = n + m + 5
    BY ONLY <1>0, <1>a
  <2> QED BY <1>13, <1>20, <1>22, <2>1 DEF Trying
<1> QED BY <1>23 DEF f, g, e, d, w, x, y, n, m
-----------------------------------------------------------------------------
(* "misses!" *)
LEMMA LastTry ==
  ASSUME NEW f, NEW c, Trying(f, c), NEW w, w \notin Mark, w # "to"
  PROVE  TryText(f \o <<w>> \o <<"!">>)
<1> DEFINE v == <<w>>
           z == <<"!">>
           g == f \o v
<1>1. Part(v, TryPairs) /\ v[1] = w /\ Len(v) = 1 /\ Listed(v)
  BY WordPart, One
<1>2. Listed(z) /\ Len(z) = 1 /\ z[1] = "!" /\ Free(z, TryPairs)
  BY OneWord
<1> HIDE DEF v, z
<1>3. <<f[Len(f)], v[1]>> \notin TryPairs
  BY <1>1 DEF TryPairs
<1>4. Trying(g, c)
  BY <1>1, <1>3, TryGoesOn
<1>5. Listed(f) /\ c \in 1..(Len(f) - 1) /\ Len(f) \in Nat
  BY ListedLength DEF Trying, TryBegun
<1>6. Joins(g, f, v)
  BY <1>1, <1>5, Joined
<1> HIDE DEF g
<1>7. Len(g) = Len(f) + 1
  BY <1>1, <1>6 DEF Joins
<1>8. c + 2 <= Len(g)
  BY ONLY <1>5, <1>7
<1>9. <<g[Len(g)], z[1]>> \notin TryPairs
  BY <1>2, NotPair
<1>10. StopsAtEnd(z) /\ CommaFree(z)
  <2>1. \A k \in 1..Len(z) : k = Len(z) /\ z[k] = "!"
    BY <1>2
  <2> QED BY ONLY <2>1 DEF StopsAtEnd, CommaFree
<1>11. Len(z) > 0 /\ z[Len(z)] = "!"
  BY <1>2
<1>12. TryText(g \o z)
  <2>1. /\ Trying(g, c) /\ c + 2 <= Len(g) /\ Listed(z) /\ Len(z) > 0 /\ StopsAtEnd(z)
        /\ z[Len(z)] = "!" /\ CommaFree(z) /\ Free(z, TryPairs) /\ <<g[Len(g)], z[1]>> \notin TryPairs
    BY <1>2, <1>4, <1>8, <1>9, <1>10, <1>11
  <2> QED BY ONLY <2>1, TryEnds
<1> QED BY <1>12 DEF g, v, z

(* The text of a try up to its ", but". *)
TriedText(source, tries, verb, target) ==
  source \o <<tries>> \o <<"to", verb>> \o target \o <<",", "but">>

(* There is one comma in it, and no stop. *)
LEMMA TriedTextIs ==
  ASSUME NEW source \in Fighters, NEW target \in Fighters, NEW tries \in {"try", "tries"},
         NEW verb, verb \notin Mark, verb \notin {"to", "try", "tries"}
  PROVE  LET f == TriedText(source, tries, verb, target)
         IN  \E c \in Nat : Trying(f, c) /\ Len(f) = c + 1 /\ f[Len(f)] = "but"
<1> DEFINE f == TriedText(source, tries, verb, target)
           c == Len(source) + Len(target) + 4
<1>1. Trying(f, c) /\ Len(f) = Len(source) + Len(target) + 5 /\ f[Len(f)] = "but"
  BY TriedIs DEF TriedText
<1>2. Len(source) \in Nat /\ Len(target) \in Nat
  BY FighterParts
<1> HIDE DEF f
<1>3. c \in Nat /\ Len(f) = c + 1
  BY ONLY <1>1, <1>2
<1>4. \E k \in Nat : Trying(f, k) /\ Len(f) = k + 1 /\ f[Len(f)] = "but"
  <2> HIDE DEF c
  <2> QED BY ONLY <1>1, <1>3
<1> QED BY <1>4 DEF f

(* "a clay golem tries to slash Player1, but misses!" *)
LEMMA MissText ==
  ASSUME NEW source \in Fighters, NEW target \in Fighters, NEW tries \in {"try", "tries"},
         NEW verb, verb \notin Mark, verb \notin {"to", "try", "tries"},
         NEW w, w \notin Mark, w # "to"
  PROVE  TryText(TriedText(source, tries, verb, target) \o <<w>> \o <<"!">>)
<1> DEFINE f == TriedText(source, tries, verb, target)
<1>1. PICK c \in Nat : Trying(f, c)
  BY TriedTextIs
<1> HIDE DEF f
<1>2. TryText(f \o <<w>> \o <<"!">>)
  BY <1>1, LastTry
<1> QED BY <1>2 DEF f

(* "a clay golem tries to slash Player1, but Player1 parries!" *)
LEMMA EvadeText ==
  ASSUME NEW source \in Fighters, NEW target \in Fighters, NEW tries \in {"try", "tries"},
         NEW verb, verb \notin Mark, verb \notin {"to", "try", "tries"},
         NEW w, w \notin Mark, w # "to"
  PROVE  TryText(TriedText(source, tries, verb, target) \o target \o <<w>> \o <<"!">>)
<1> DEFINE f == TriedText(source, tries, verb, target)
           g == f \o target
<1>1. PICK c \in Nat : Trying(f, c) /\ f[Len(f)] = "but"
  BY TriedTextIs
<1> HIDE DEF f
<1>2. Part(target, TryPairs)
  BY FighterPart
<1>3. <<f[Len(f)], target[1]>> \notin TryPairs
  BY <1>1 DEF TryPairs
<1>4. Trying(g, c)
  BY <1>1, <1>2, <1>3, TryGoesOn
<1> HIDE DEF g
<1>5. TryText(g \o <<w>> \o <<"!">>)
  BY <1>4, LastTry
<1> QED BY <1>5 DEF f, g

(* The longest of the endings. *)
Absorbs == <<"magical", "skin", "absorbs", "the", "blow", "!">>

(* Its words. *)
LEMMA AbsorbsIs ==
  /\ Listed(Absorbs) /\ Len(Absorbs) = 6 /\ Absorbs[1] = "magical" /\ Absorbs[6] = "!"
  /\ StopsAtEnd(Absorbs) /\ CommaFree(Absorbs) /\ Free(Absorbs, TryPairs)
<1> DEFINE z == <<"magical", "skin", "absorbs", "the", "blow", "!">>
<1>1. z \in Seq({"magical", "skin", "absorbs", "the", "blow", "!"})
  OBVIOUS
<1>2. /\ Len(z) = 6 /\ z[1] = "magical" /\ z[2] = "skin" /\ z[3] = "absorbs" /\ z[4] = "the"
      /\ z[5] = "blow" /\ z[6] = "!"
  OBVIOUS
<1> HIDE DEF z
<1>3. Listed(z)
  BY <1>1, Zenon DEF Listed
<1>4. \A k \in 1..6 : k = 1 \/ k = 2 \/ k = 3 \/ k = 4 \/ k = 5 \/ k = 6
  OBVIOUS
<1>5. \A k \in 1..6 : z[k] \notin {",", "try", "tries"} /\ (z[k] \in Stops => k = 6)
  BY <1>2, <1>4 DEF Stops
<1>6. StopsAtEnd(z) /\ CommaFree(z)
  BY <1>2, <1>5 DEF StopsAtEnd, CommaFree
<1>7. Free(z, TryPairs)
  <2>1. \A k \in 1..(Len(z) - 1) : k \in 1..6
    BY <1>2
  <2> QED BY <1>5, <2>1 DEF Free, TryPairs
<1> QED BY <1>2, <1>3, <1>6, <1>7 DEF Absorbs, z

(* A try ends with it, whosever skin it is. *)
LEMMA AbsorbText ==
  ASSUME NEW f, NEW c \in Nat, Trying(f, c), Len(f) = c + 1, f[Len(f)] = "but",
         NEW b, Listed(b), Len(b) > 0, b[1] \notin Mark, CommaFree(b), StopFree(b),
         Free(b, TryPairs)
  PROVE  TryText(f \o b \o Absorbs)
<1> DEFINE g == f \o b
<1>1. TryBegun(f, c) /\ StopFree(f) /\ Listed(f)
  BY DEF Trying, TryBegun
<1>2. <<f[Len(f)], b[1]>> \notin TryPairs
  BY DEF TryPairs
<1>3. TryBegun(g, c)
  BY <1>1, <1>2, TryGrows
<1>4. StopFree(g)
  BY <1>1, StopFreeJoins
<1>5. Joins(g, f, b)
  BY <1>1, Joined
<1> HIDE DEF g
<1>6. c + 2 <= Len(g)
  <2>1. Len(g) = Len(f) + Len(b) /\ Len(b) \in Nat
    BY <1>5, ListedLength DEF Joins
  <2>2. Len(f) = c + 1 /\ Len(b) > 0
    OBVIOUS
  <2> QED BY ONLY <2>1, <2>2, c \in Nat
<1>7. Trying(g, c)
  BY <1>3, <1>4 DEF Trying
<1>8. Listed(Absorbs) /\ Len(Absorbs) > 0 /\ Absorbs[Len(Absorbs)] = "!" /\ Absorbs[1] = "magical"
  BY AbsorbsIs
<1>9. <<g[Len(g)], Absorbs[1]>> \notin TryPairs
  <2>1. Absorbs[1] \notin {"to", "slain"}
    BY <1>8
  <2> QED BY <2>1, NotPair
<1>10. TryText(g \o Absorbs)
  BY <1>6, <1>7, <1>8, <1>9, AbsorbsIs, TryEnds
<1> QED BY <1>10 DEF g

(* "a clay golem tries to slash YOU, but YOUR magical skin absorbs the     *)
(* blow!"                                                                  *)
LEMMA AbsorbTextIs ==
  ASSUME NEW source \in Fighters, NEW target \in Fighters, NEW tries \in {"try", "tries"},
         NEW verb, verb \notin Mark, verb \notin {"to", "try", "tries"}
  PROVE  /\ TryText(TriedText(source, tries, verb, target) \o <<"YOUR">> \o Absorbs)
         /\ TryText(TriedText(source, tries, verb, target) \o (target \o <<"'s">>) \o Absorbs)
<1> DEFINE f == TriedText(source, tries, verb, target)
<1>1. PICK c \in Nat : Trying(f, c) /\ Len(f) = c + 1 /\ f[Len(f)] = "but"
  BY TriedTextIs
<1> HIDE DEF f
<1>2. TryText(f \o <<"YOUR">> \o Absorbs)
  <2> DEFINE b == <<"YOUR">>
  <2>1. "YOUR" \notin Mark
    BY DEF Mark
  <2>2. Listed(b) /\ Len(b) > 0 /\ b[1] = "YOUR" /\ Unmarked(b) /\ Free(b, TryPairs)
    BY <2>1, OneWord
  <2> HIDE DEF b
  <2>3. CommaFree(b) /\ StopFree(b)
    BY <2>2, UnmarkedCommaFree, UnmarkedStopFree
  <2>4. b[1] \notin Mark
    BY <2>1, <2>2
  <2>5. TryText(f \o b \o Absorbs)
    BY <1>1, <2>2, <2>3, <2>4, AbsorbText
  <2> QED BY <2>5 DEF b
<1>3. TryText(f \o (target \o <<"'s">>) \o Absorbs)
  <2> DEFINE y == <<"'s">>
             b == target \o y
  <2>1. /\ Unmarked(target) /\ Listed(target) /\ Len(target) \in Nat /\ Len(target) > 0
        /\ Free(target, TryPairs) /\ target[1] \notin Mark
    BY FighterParts
  <2>2. Listed(y) /\ Len(y) = 1 /\ y[1] = "'s" /\ Free(y, TryPairs)
    BY OneWord
  <2> HIDE DEF y
  <2>3. StopFree(y) /\ CommaFree(y)
    <3>1. "'s" \notin Stops /\ "'s" # ","
      BY DEF Stops
    <3>2. \A k \in 1..Len(y) : y[k] = "'s"
      BY <2>2
    <3> QED BY ONLY <3>1, <3>2 DEF StopFree, CommaFree
  <2>4. StopFree(target) /\ CommaFree(target)
    BY <2>1, UnmarkedCommaFree, UnmarkedStopFree
  <2>5. StopFree(b)
    BY <2>1, <2>2, <2>3, <2>4, StopFreeJoins
  <2>6. Joins(b, target, y)
    BY <2>1, <2>2, Joined
  <2> HIDE DEF b
  <2>7. <<target[Len(target)], y[1]>> \notin TryPairs
    BY <2>2 DEF TryPairs
  <2>8. Free(b, TryPairs)
    <3>1. Len(y) > 0
      BY <2>2
    <3> QED BY <2>1, <2>2, <2>6, <2>7, <3>1, FreeJoins
  <2>9. Listed(b) /\ Len(b) > 0
    BY <2>1, <2>2, <2>6 DEF Joins
  <2>10. b[1] \notin Mark
    BY <2>1, <2>2, <2>6, JoinsEnds
  <2>11. CommaFree(b)
    <3> SUFFICES ASSUME NEW k \in 1..Len(b) PROVE b[k] # ","
      BY DEF CommaFree
    <3>1. \/ k \in 1..Len(target) /\ b[k] = target[k]
          \/ k - Len(target) \in 1..Len(y) /\ b[k] = y[k - Len(target)]
      <4>1. Listed(target) /\ Listed(y) /\ Joins(b, target, y)
        BY <2>1, <2>2, <2>6
      <4> QED BY ONLY <4>1, k \in 1..Len(b), JoinsAt
    <3> QED BY <2>3, <2>4, <3>1 DEF CommaFree
  <2>12. TryText(f \o b \o Absorbs)
    BY <1>1, <2>5, <2>8, <2>9, <2>10, <2>11, AbsorbText
  <2> QED BY <2>12 DEF b, y
<1> QED BY <1>2, <1>3 DEF f
-----------------------------------------------------------------------------
(* The form of a line. *)
LineText(f) ==
  HitText(f) \/ AreaText(f) \/ DiedText(f) \/ TryText(f) \/ KillText(f) \/ AnnounceText(f)

(* The form of one that tells of no try. *)
OtherText(f) == HitText(f) \/ AreaText(f) \/ DiedText(f) \/ KillText(f) \/ AnnounceText(f)

(* A verb of fighting is no mark and begins no try. *)
LEMMA VerbIs ==
  ASSUME NEW v \in DOMAIN ThirdPerson
  PROVE  /\ v \notin Mark /\ v \notin {"to", "try", "tries"}
         /\ ThirdPerson[v] \notin Mark
<1>1. v \in DOMAIN ActionVerbs /\ ThirdPerson[v] \in ActionVerbs[v].put
  BY WordsAssumption
<1>2. v \in {"backstab", "bash", "bite", "claw", "crush", "gore", "hit", "kick",
             "maul", "pierce", "punch", "rend", "slash", "slice", "smash"}
  BY <1>1 DEF ActionVerbs
<1>3. ThirdPerson[v] \in VerbWords
  BY <1>1 DEF VerbWords
<1>4. ThirdPerson[v] \notin Mark
  BY <1>3, VerbWordsAre DEF Mark
<1> QED BY <1>2, <1>4 DEF Mark

(* A try, whoever tries what on whom. *)
LEMMA TryTextIs ==
  ASSUME NEW s, s.says \in EndingTypes, s.source \in Fighters, s.target \in Fighters,
         s.verb \in DOMAIN ThirdPerson, NEW points
  PROVE  TryText(Text(s, points))
<1> DEFINE source == s.source
           target == s.target
           verb == s.verb
           tries == IF source \in {You, YOU} THEN "try" ELSE "tries"
<1>1. source \in Fighters /\ target \in Fighters /\ tries \in {"try", "tries"}
  OBVIOUS
<1>2. verb \notin Mark /\ verb \notin {"to", "try", "tries"}
  BY VerbIs
<1>3. Tried(s) = TriedText(source, tries, verb, target)
  BY DEF Tried, Conj, TriedText
<1> DEFINE Word(who, second, third) == IF who \in {You, YOU} THEN second ELSE third
<1>4. \A who, second, third : Conj(who, second, third) = <<Word(who, second, third)>>
  BY DEF Conj
<1>5. CASE s.says = "MISS"
  <2> DEFINE w == Word(source, "miss", "misses")
  <2>1. w \notin Mark /\ w # "to"
    BY DEF Mark
  <2>2. Text(s, points) = Tried(s) \o <<w>> \o <<"!">>
    BY <1>4, <1>5 DEF Text
  <2> HIDE DEF w, tries, source, target, verb
  <2> QED BY <1>1, <1>2, <1>3, <2>1, <2>2, MissText
<1>6. ASSUME NEW w, w \notin Mark, w # "to" PROVE TryText(Tried(s) \o target \o <<w>> \o <<"!">>)
  <2> HIDE DEF tries, source, target, verb
  <2> QED BY <1>1, <1>2, <1>3, <1>6, EvadeText
<1>7. CASE s.says = "PARRY"
  <2> DEFINE w == Word(target, "parry", "parries")
  <2>1. w \notin Mark /\ w # "to"
    BY DEF Mark
  <2>2. Text(s, points) = Tried(s) \o target \o <<w>> \o <<"!">>
    BY <1>4, <1>7 DEF Text
  <2> HIDE DEF w, target
  <2> QED BY <1>6, <2>1, <2>2
<1>8. CASE s.says = "DODGE"
  <2> DEFINE w == Word(target, "dodge", "dodges")
  <2>1. w \notin Mark /\ w # "to"
    BY DEF Mark
  <2>2. Text(s, points) = Tried(s) \o target \o <<w>> \o <<"!">>
    BY <1>4, <1>8 DEF Text
  <2> HIDE DEF w, target
  <2> QED BY <1>6, <2>1, <2>2
<1>9. CASE s.says = "RIPOSTE"
  <2> DEFINE w == Word(target, "riposte", "ripostes")
  <2>1. w \notin Mark /\ w # "to"
    BY DEF Mark
  <2>2. Text(s, points) = Tried(s) \o target \o <<w>> \o <<"!">>
    BY <1>4, <1>9 DEF Text
  <2> HIDE DEF w, target
  <2> QED BY <1>6, <2>1, <2>2
<1>10. CASE s.says = "BLOCK"
  <2> DEFINE w == Word(target, "block", "blocks")
  <2>1. w \notin Mark /\ w # "to"
    BY DEF Mark
  <2>2. Text(s, points) = Tried(s) \o target \o <<w>> \o <<"!">>
    BY <1>4, <1>10 DEF Text
  <2> HIDE DEF w, target
  <2> QED BY <1>6, <2>1, <2>2
<1>11. CASE s.says = "ABSORB"
  <2>1. Text(s, points) = Tried(s) \o (IF target = YOU THEN <<"YOUR">> ELSE target \o <<"'s">>) \o Absorbs
    BY <1>11 DEF Text, Absorbs
  <2>2. /\ TryText(Tried(s) \o <<"YOUR">> \o Absorbs)
        /\ TryText(Tried(s) \o (target \o <<"'s">>) \o Absorbs)
    <3> HIDE DEF tries, source, target, verb
    <3> QED BY <1>1, <1>2, <1>3, AbsorbTextIs
  <2>3. CASE target = YOU
    BY <2>1, <2>2, <2>3
  <2>4. CASE target # YOU
    BY <2>1, <2>2, <2>4
  <2> QED BY <2>3, <2>4
<1> QED BY ONLY <1>5, <1>7, <1>8, <1>9, <1>10, <1>11, s.says \in EndingTypes DEF EndingTypes

(* Every line has one of the forms, one that is no try one of the others. *)
LEMMA OtherTextIs ==
  ASSUME NEW s \in Sayings, NEW points \in Points(s), s.says \notin EndingTypes
  PROVE  OtherText(Text(s, points))
<1>1. CASE s.says = "MELEE" /\ s.source \in Fighters /\ s.target \in Fighters
              /\ s.verb \in DOMAIN ThirdPerson /\ s.number \in Number
  <2> DEFINE source == s.source
             target == s.target
             verb == IF source \in {You, YOU} THEN s.verb ELSE ThirdPerson[s.verb]
             n == s.number
  <2>1. points \in ThePoints
    BY <1>1 DEF Points, ThePoints
  <2>2. Text(s, points) = source \o <<verb>> \o target \o (<<"for", n>> \o points)
    BY <1>1 DEF Text, Hurt, Conj
  <2>3. verb \notin Mark
    BY <1>1, VerbIs
  <2>4. source \in Fighters /\ target \in Fighters /\ n \in Number
    BY <1>1
  <2> HIDE DEF verb, source, target, n
  <2>5. HitText(source \o <<verb>> \o target \o (<<"for", n>> \o points))
    BY <2>1, <2>3, <2>4, MeleeText
  <2> QED BY <2>2, <2>5 DEF OtherText
<1>3. CASE s.says = "spell" /\ s.target \in Fighters /\ s.number \in Number
  <2> DEFINE target == s.target
             were == IF target \in {You, YOU} THEN "were" ELSE "was"
             n == s.number
  <2>1. points \in ThePoints
    BY <1>3 DEF Points, ThePoints
  <2>2. Text(s, points) = target \o <<were>> \o <<"hit", "by", "non-melee">> \o (<<"for", n>> \o points)
    BY <1>3 DEF Text, Hurt, Conj
  <2>3. were \in {"were", "was"}
    OBVIOUS
  <2>4. target \in Fighters /\ n \in Number
    BY <1>3
  <2> HIDE DEF were, target, n
  <2>5. HitText(target \o <<were>> \o <<"hit", "by", "non-melee">> \o (<<"for", n>> \o points))
    BY <2>1, <2>3, <2>4, SpellText
  <2> QED BY <2>2, <2>5 DEF OtherText
<1>4. CASE s.says \in {"area", "HEAL"} /\ s.number \in Number
  <2> DEFINE n == s.number
  <2>1. points \in ThePoints /\ n \in Number
    BY <1>4 DEF Points, ThePoints
  <2>2. CASE s.says = "area"
    <3>1. Text(s, points) = <<"Your", "body", "combusts", "as", "the", "lava", "hits", "you", ".",
                    "You", "have", "taken", n>> \o points
      BY <2>2 DEF Text
    <3> HIDE DEF n
    <3> QED BY <2>1, <3>1, AreaTextIs DEF OtherText
  <2>3. CASE s.says = "HEAL"
    <3>1. Text(s, points) = <<"You", "have", "been", "healed">> \o (<<"for", n>> \o points)
      BY <2>3 DEF Text, Hurt
    <3> HIDE DEF n
    <3> QED BY <2>1, <3>1, HealText DEF OtherText
  <2> QED BY <1>4, <2>2, <2>3
<1>5. CASE s.says \in {"CRIT", "CRIP", "HOLYBLADE"} /\ s.source \in Fighters
              /\ s.number \in Number
  <2> DEFINE n == s.number
             source == s.source
  <2>1. source \in Fighters /\ n \in Number
    BY <1>5
  <2>2. CASE s.says = "CRIT"
    <3>1. Text(s, points) = source \o <<"Scores", "a", "critical", "hit", "!", "(", n, ")">>
      BY <2>2 DEF Text
    <3> HIDE DEF n, source
    <3> QED BY <2>1, <3>1, CritText DEF OtherText
  <2>3. CASE s.says = "CRIP"
    <3>1. Text(s, points) = source \o <<"lands", "a", "Crippling", "Blow", "!", "(", n, ")">>
      BY <2>3 DEF Text
    <3> HIDE DEF n, source
    <3> QED BY <2>1, <3>1, CripText DEF OtherText
  <2>4. CASE s.says = "HOLYBLADE"
    <3>1. Text(s, points) = source \o <<"'s", "holy", "blade", "cleanses", "his", "target", "!", "(", n, ")">>
      BY <2>4 DEF Text
    <3> HIDE DEF n, source
    <3> QED BY <2>1, <3>1, HolyBladeText DEF OtherText
  <2> QED BY <1>5, <2>2, <2>3, <2>4
<1>6. CASE s.says = "slew" /\ s.target \in Fighters
  <2> DEFINE target == s.target
  <2>1. Text(s, points) = <<"You", "have", "slain">> \o target \o <<"!">>
    BY <1>6 DEF Text
  <2>2. target \in Fighters
    BY <1>6
  <2> HIDE DEF target
  <2> QED BY <2>1, <2>2, SlewText DEF OtherText
<1>7. CASE s.says = "slain" /\ s.source \in Fighters /\ s.target \in Fighters
  <2> DEFINE target == s.target
             source == s.source
             has == IF target \in {You, YOU} THEN "have" ELSE "has"
  <2>1. Text(s, points) = target \o <<has>> \o <<"been", "slain", "by">> \o source \o <<"!">>
    BY <1>7 DEF Text, Conj
  <2>2. target \in Fighters /\ source \in Fighters /\ has \in {"have", "has"}
    BY <1>7
  <2> HIDE DEF target, source, has
  <2> QED BY <2>1, <2>2, SlainText DEF OtherText
<1>8. CASE s.says = "died" /\ s.target \in Fighters
  <2> DEFINE target == s.target
  <2>1. Text(s, points) = target \o <<"died", ".">>
    BY <1>8 DEF Text
  <2>2. target \in Fighters
    BY <1>8
  <2> HIDE DEF target
  <2> QED BY <2>1, <2>2, DiedTextIs DEF OtherText
<1> QED BY <1>1, <1>3, <1>4, <1>5, <1>6, <1>7, <1>8, SayingIs

(* Together. *)
LEMMA TextIs ==
  ASSUME NEW s \in Sayings, NEW points \in Points(s)
  PROVE  LineText(Text(s, points))
<1>1. CASE s.says \notin EndingTypes
  BY <1>1, OtherTextIs DEF LineText, OtherText
<1>2. CASE s.says \in EndingTypes
  <2>1. s.source \in Fighters /\ s.target \in Fighters /\ s.verb \in DOMAIN ThirdPerson
    BY <1>2, SayingIs DEF EndingTypes
  <2> QED BY <1>2, <2>1, TryTextIs DEF LineText
<1> QED BY <1>1, <1>2
-----------------------------------------------------------------------------
(* What FightersNamed says of an action. *)
Named(a) ==
  /\ a.type \in {"MELEE", "MAGIC"} \union DOMAIN Ending =>
       a.source # Nobody /\ a.target # Nobody
  /\ a.type = "DEATH" => a.target # Nobody
  /\ a.type \in {"MELEE", "MAGIC"} => a.damage > 0

(* FightersNamed holds of an action that is none. *)
LEMMA UnknownNamed == Named(Unknown)
BY EndingIs DEF Named, Unknown, EndingTypes

(* One that counts. *)
LEMMA CountedNamed ==
  ASSUME NEW a, a.type \in {"MELEE", "MAGIC", "HEAL", "UNKNOWN"}, Counted(a)
  PROVE  Named(a)
BY EndingIs DEF Named, Counted, EndingTypes, Nobody

(* A death. *)
LEMMA DeathNamed ==
  ASSUME NEW a, a.type = "DEATH", a.target # << >>
  PROVE  Named(a)
BY EndingIs DEF Named, EndingTypes, Nobody

(* The beginning of a text. *)
Begins(t, f, n) == Listed(t) /\ Len(t) = n /\ \A k \in 1..n : t[k] = f[k]

(* What a text begins with. *)
LEMMA BeginningIs ==
  ASSUME NEW f, Listed(f), NEW n \in 0..Len(f)
  PROVE  Begins(SubSeq(f, 1, n), f, n)
<1> DEFINE t == SubSeq(f, 1, n)
<1>1. PICK S : f \in Seq(S)
  BY DEF Listed
<1>2. 1 \in Int /\ n \in Int /\ \A k \in 1..n : f[k] \in S
  BY <1>1
<1>3. /\ t \in Seq(S) /\ Len(t) = (IF 1 <= n THEN n - 1 + 1 ELSE 0)
      /\ \A k \in 1..(n - 1 + 1) : t[k] = f[1 + k - 1]
  BY <1>2, SubSeqProperties
<1> HIDE DEF t
<1>4. n \in Nat
  BY <1>1
<1>5. Len(t) = n
  BY <1>3, <1>4
<1>6. \A k \in 1..n : t[k] = f[k]
  BY <1>3, <1>4
<1>7. Listed(t)
  BY <1>3, Zenon DEF Listed
<1>8. Begins(t, f, n)
  BY <1>5, <1>6, <1>7 DEF Begins
<1> QED BY <1>8 DEF t

(* The whole of a text is one of its beginnings. *)
LEMMA WholeIs ==
  ASSUME NEW f, Listed(f)
  PROVE  SubSeq(f, 1, Len(f)) = f
<1> DEFINE t == SubSeq(f, 1, Len(f))
<1>1. PICK S : f \in Seq(S)
  BY DEF Listed
<1>2. t \in Seq(S)
  BY <1>1
<1>3. Len(f) \in 0..Len(f)
  BY <1>1
<1>4. Begins(t, f, Len(f))
  BY <1>3, BeginningIs
<1> HIDE DEF t
<1>5. Len(t) = Len(f) /\ \A k \in 1..Len(f) : t[k] = f[k]
  BY <1>4 DEF Begins
<1>6. t = f
  BY <1>1, <1>2, <1>5, SeqEqual
<1> QED BY <1>6 DEF t

(* A text that is free of the two words of a phrase does not have it. *)
LEMMA NoPhrase ==
  ASSUME NEW f, Listed(f), NEW P, Free(f, P),
         NEW u, NEW v, <<u, v>> \in P
  PROVE  ~Has(f, <<u, v>>)
<1> SUFFICES ASSUME Has(f, <<u, v>>) PROVE FALSE
  OBVIOUS
<1> DEFINE phrase == <<u, v>>
<1>1. PICK i \in 1..Len(f) : PhraseAt(f, i, phrase)
  BY DEF Has, Places
<1>2. Len(phrase) \in Nat /\ Len(phrase) >= 1 /\ Len(phrase) >= 2 /\ Len(phrase) = 2
      /\ phrase[1] = u /\ phrase[2] = v
  OBVIOUS
<1> HIDE DEF phrase
<1>3. i \in Int /\ Len(f) \in Nat
  BY ListedLength
<1>4. f[i] = u /\ f[i + 1] = v
  <2>1. f[i] = phrase[1]
    BY <1>1, <1>2, <1>3, PhraseFirst, Zenon
  <2>2. f[i + 1] = phrase[2]
    BY <1>1, <1>2, <1>3, PhraseSecond, Zenon
  <2> QED BY <1>2, <2>1, <2>2
<1>5. i \in 1..(Len(f) - 1)
  <2>1. i > 1 /\ i + 2 <= Len(f)
    BY <1>1, <1>2, PhraseLength
  <2> QED BY ONLY <1>3, <2>1
<1>6. <<f[i], f[i + 1]>> \notin P
  BY <1>5 DEF Free
<1> QED BY <1>4, <1>6

(* The same of the passive, whose second and third words are a pair. *)
LEMMA NoSlainBy ==
  ASSUME NEW f, Listed(f), NEW P, Free(f, P), <<"been", "slain">> \in P, NEW has
  PROVE  ~Has(f, <<has, "been", "slain", "by">>)
<1> SUFFICES ASSUME Has(f, <<has, "been", "slain", "by">>) PROVE FALSE
  OBVIOUS
<1> DEFINE phrase == <<has, "been", "slain", "by">>
<1>1. PICK i \in 1..Len(f) : PhraseAt(f, i, phrase)
  BY DEF Has, Places
<1>2. Len(phrase) \in Nat /\ Len(phrase) >= 3 /\ Len(phrase) >= 2 /\ Len(phrase) = 4
      /\ phrase[2] = "been" /\ phrase[3] = "slain"
  OBVIOUS
<1> HIDE DEF phrase
<1>3. i \in Int /\ Len(f) \in Nat
  BY ListedLength
<1>4. f[i + 1] = "been" /\ f[i + 2] = "slain"
  <2>1. f[i + 2] = phrase[3]
    BY <1>1, <1>2, <1>3, PhraseThird, Zenon
  <2>2. f[i + 1] = phrase[2]
    BY <1>1, <1>2, <1>3, PhraseSecond, Zenon
  <2> QED BY <1>2, <2>1, <2>2
<1>5. i + 1 \in 1..(Len(f) - 1) /\ i + 1 + 1 = i + 2
  <2>1. i > 1 /\ i + 4 <= Len(f)
    BY <1>1, <1>2, PhraseLength
  <2> QED BY ONLY <1>3, <2>1
<1>6. <<f[i + 1], f[i + 1 + 1]>> \notin P
  BY <1>5 DEF Free
<1> QED BY <1>4, <1>5, <1>6

(* The place of the try that a text tells of. *)
LEMMA TriesIs ==
  ASSUME NEW S, NEW f \in Seq(S)
  PROVE  \/ Tries(f) = 0
         \/ /\ Tries(f) \in 2..(Len(f) - 1)
            /\ <<f[Tries(f)], f[Tries(f) + 1]>> \in TryPairs
<1>1. ASSUME NEW try \in {"try", "tries"}, Has(f, <<try, "to">>)
      PROVE  /\ Place(f, <<try, "to">>) \in 2..(Len(f) - 1)
             /\ <<f[Place(f, <<try, "to">>)], f[Place(f, <<try, "to">>) + 1]>> \in TryPairs
  <2> DEFINE phrase == <<try, "to">>
             i == Place(f, phrase)
  <2>1. i \in 1..Len(f) /\ PhraseAt(f, i, phrase)
    BY <1>1, PlaceIs
  <2>2. Len(phrase) \in Nat /\ Len(phrase) >= 1 /\ Len(phrase) >= 2 /\ Len(phrase) = 2
        /\ phrase[1] = try /\ phrase[2] = "to"
    OBVIOUS
  <2> HIDE DEF phrase, i
  <2>3. i \in Int /\ Len(f) \in Nat
    BY <2>1
  <2>4. f[i] = phrase[1] /\ f[i + 1] = phrase[2]
    <3>1. f[i] = phrase[1]
      BY <2>1, <2>2, <2>3, PhraseFirst, Zenon
    <3>2. f[i + 1] = phrase[2]
      BY <2>1, <2>2, <2>3, PhraseSecond, Zenon
    <3> QED BY <3>1, <3>2
  <2>5. i \in 2..(Len(f) - 1)
    <3>1. i > 1 /\ i + 2 <= Len(f)
      BY <2>1, <2>2, PhraseLength
    <3> QED BY ONLY <2>3, <3>1
  <2>6. <<f[i], f[i + 1]>> \in TryPairs
    BY <2>2, <2>4 DEF TryPairs
  <2> QED BY <2>5, <2>6 DEF i, phrase
<1>2. CASE Has(f, <<"try", "to">>)
  BY <1>1, <1>2 DEF Tries
<1>3. CASE ~Has(f, <<"try", "to">>) /\ Has(f, <<"tries", "to">>)
  BY <1>1, <1>3 DEF Tries
<1>4. CASE ~Has(f, <<"try", "to">>) /\ ~Has(f, <<"tries", "to">>)
  BY <1>4, PlaceIs DEF Tries
<1> QED BY <1>2, <1>3, <1>4
(* A text that is free of the pairs tells of no try. *)
LEMMA NoTries == ASSUME NEW f, Listed(f), Free(f, TryPairs) PROVE Tries(f) = 0
<1>1. PICK S : f \in Seq(S)
  BY DEF Listed
<1>2. CASE /\ Tries(f) \in 2..(Len(f) - 1)
           /\ <<f[Tries(f)], f[Tries(f) + 1]>> \in TryPairs
  <2> DEFINE i == Tries(f)
  <2>1. i \in 1..(Len(f) - 1)
    BY <1>1, <1>2
  <2> HIDE DEF i
  <2>2. <<f[i], f[i + 1]>> \notin TryPairs
    BY <2>1 DEF Free
  <2> QED BY <1>2, <2>2 DEF i
<1> QED BY <1>1, <1>2, TriesIs
-----------------------------------------------------------------------------
(* What the parser makes of each form of a line. *)
LEMMA NotEnding ==
  ASSUME NEW f, Listed(f), NEW w, f[Len(f) - 1] # w, NEW ending, Len(ending) \in Nat,
         Len(ending) >= 2, ending[Len(ending) - 1] = w
  PROVE  ~EndsWith(f, ending)
<1> SUFFICES ASSUME EndsWith(f, ending) PROVE FALSE
  OBVIOUS
<1>1. \A k \in 0..(Len(ending) - 1) : f[Len(f) - k] = ending[Len(ending) - k]
  BY EndsWithIs, ListedLength
<1>2. 1 \in 0..(Len(ending) - 1)
  OBVIOUS
<1>3. f[Len(f) - 1] = ending[Len(ending) - 1]
  BY <1>1, <1>2
<1> QED BY <1>3

(* A text whose last word is not "died" tells of no death. *)
LEMMA NoDeath ==
  ASSUME NEW f, Listed(f), f[Len(f) - 1] # "died"
  PROVE  ~EndsWith(f, <<"died", ".">>)
<1> DEFINE ending == <<"died", ".">>
<1>1. Len(ending) \in Nat /\ Len(ending) >= 2 /\ ending[Len(ending) - 1] = "died"
  OBVIOUS
<1> HIDE DEF ending
<1>2. ~EndsWith(f, ending)
  BY <1>1, NotEnding
<1> QED BY <1>2 DEF ending

(* A text whose last word is not "damage" counts none. *)
LEMMA NoDamage ==
  ASSUME NEW f, Listed(f), f[Len(f) - 1] # "damage"
  PROVE  ~EndsWith(f, PointsOfDamage) /\ ~EndsWith(f, PointOfDamage)
<1>1. ASSUME NEW ending \in ThePoints PROVE ~EndsWith(f, ending)
  <2>1. Len(ending) = 4 /\ ending[3] = "damage"
    BY ThePointsAre
  <2>2. Len(ending) \in Nat /\ Len(ending) >= 2 /\ ending[Len(ending) - 1] = "damage"
    BY <2>1
  <2> QED BY <2>2, NotEnding
<1> QED BY <1>1 DEF ThePoints

(* A statement that counts damage, in either spelling. *)
LEMMA StatementIs ==
  ASSUME NEW f, Listed(f), f[Len(f) - 1] = "damage",
         NEW n \in Nat, Len(f) = n + 4
  PROVE  ParseStatement(f) \in {ParseDamage(SubSeq(f, 1, n)), Unknown}
<1>1. ~EndsWith(f, <<"died", ".">>)
  BY NoDeath
<1>2. \A ending \in ThePoints : Without(f, ending) = SubSeq(f, 1, n)
  <2>1. \A ending \in ThePoints : Len(ending) = 4
    BY ONLY ThePointsAre
  <2>2. ASSUME NEW ending \in ThePoints PROVE Len(f) - Len(ending) = n
    <3>1. Len(ending) = 4
      BY <2>1
    <3> QED BY ONLY <3>1, n \in Nat, Len(f) = n + 4
  <2> QED BY <2>2 DEF Without
<1> DEFINE d == SubSeq(f, 1, n)
<1>3. Without(f, PointsOfDamage) = d /\ Without(f, PointOfDamage) = d
  BY <1>2 DEF ThePoints
<1> HIDE DEF d
<1>4. ParseStatement(f) \in {ParseDamage(d), Unknown}
  BY <1>1, <1>3 DEF ParseStatement
<1> QED BY <1>4 DEF d
-----------------------------------------------------------------------------
(* The mark that both parsers look at is the last word. *)
LEMMA LastMarkIs ==
  ASSUME NEW f, Listed(f), Len(f) > 0
  PROVE  LastMark(f) = f[Len(f)] /\ PP!LastMark(f) = f[Len(f)]
<1>1. PICK S : f \in Seq(S)
  BY DEF Listed
<1>2. f # << >>
  BY <1>1
<1> QED BY <1>2 DEF LastMark, PP!LastMark, Last, PP!Last

(* A full stop ends a statement. *)
LEMMA StatementParsed ==
  ASSUME NEW f, Listed(f), Len(f) > 0, f[Len(f)] = "."
  PROVE  Action_parse(f) = ParseStatement(f)
BY LastMarkIs DEF Action_parse

(* A hit names both sides, and counts for at least one. *)
LEMMA HitNamed == ASSUME NEW f, HitText(f) PROVE Named(Action_parse(f))
<1> DEFINE n == Len(f) - 4
           d == SubSeq(f, 1, n)
<1>1. /\ Listed(f) /\ Len(f) > 6
      /\ f[Len(f)] = "." /\ f[Len(f) - 1] = "damage"
      /\ f[Len(f) - 4] \in Number /\ f[Len(f) - 5] = "for"
      /\ f[Len(f) - 6] \notin VerbWords \union {"by"}
  BY DEF HitText
<1>2. Len(f) \in Nat
  BY <1>1, ListedLength
<1>3. n \in Nat /\ n > 2 /\ Len(f) = n + 4 /\ n \in 0..Len(f) /\ Len(f) > 0
      /\ Len(f) - 5 = n - 1 /\ Len(f) - 6 = n - 2
  <2>1. Len(f) > 6
    BY <1>1
  <2> QED BY ONLY <1>2, <2>1
<1>4. Begins(d, f, n)
  BY <1>1, <1>3, BeginningIs
<1>5. f[n] \in Number /\ f[n - 1] = "for" /\ f[n - 2] \notin VerbWords \union {"by"}
  BY <1>1, <1>3
<1> HIDE DEF d, n
<1>6. Listed(d) /\ Len(d) = n /\ d[n] = f[n] /\ d[n - 1] = f[n - 1] /\ d[n - 2] = f[n - 2]
  <2>1. n \in 1..n /\ n - 1 \in 1..n /\ n - 2 \in 1..n
    BY <1>3
  <2> QED BY <1>4, <2>1 DEF Begins
<1>7. PICK S : d \in Seq(S)
  BY <1>6 DEF Listed
<1>8. Named(ParseDamage(d))
  <2>1. /\ Len(d) > 2 /\ d[Len(d) - 1] = "for" /\ d[Len(d)] \in Number
        /\ d[Len(d) - 2] \notin VerbWords \union {"by"}
    BY <1>3, <1>5, <1>6
  <2>2. ParseDamage(d).type \in {"MELEE", "MAGIC", "HEAL", "UNKNOWN"} /\ Counted(ParseDamage(d))
    BY <1>7, <2>1, HitParsed
  <2> QED BY <2>2, CountedNamed
<1>9. ParseStatement(f) \in {ParseDamage(d), Unknown}
  BY <1>1, <1>3, StatementIs DEF d
<1>10. Action_parse(f) = ParseStatement(f)
  BY <1>1, <1>3, StatementParsed
<1> QED BY <1>8, <1>9, <1>10, UnknownNamed

(* So does the effect on an area, with its own names. *)
LEMMA AreaNamed == ASSUME NEW f, AreaText(f) PROVE Named(Action_parse(f))
<1> DEFINE d == SubSeq(f, 1, 13)
<1>1. /\ Listed(f) /\ Len(f) = 17
      /\ f[17] = "." /\ f[16] = "damage" /\ f[13] \in Number
      /\ f[12] = "taken" /\ f[11] = "have"
  BY DEF AreaText
<1>2. Begins(d, f, 13)
  <2>1. 13 \in 0..Len(f)
    BY <1>1
  <2> QED BY <1>1, <2>1, BeginningIs
<1> HIDE DEF d
<1>3. Listed(d) /\ Len(d) = 13 /\ d[13] = f[13] /\ d[12] = "taken" /\ d[11] = "have"
  BY <1>1, <1>2 DEF Begins
<1>4. PICK S : d \in Seq(S)
  BY <1>3 DEF Listed
<1>5. Named(ParseDamage(d))
  <2>1. /\ Len(d) > 3 /\ d[Len(d) - 2] = "have" /\ d[Len(d) - 1] = "taken"
        /\ d[Len(d)] \in Number
    BY <1>1, <1>3
  <2>2. ParseDamage(d).type = "MAGIC" /\ Counted(ParseDamage(d))
    BY <1>4, <2>1, AreaParsed
  <2> QED BY <2>2, CountedNamed
<1>6. ParseStatement(f) \in {ParseDamage(d), Unknown}
  <2>1. f[Len(f) - 1] = "damage" /\ 13 \in Nat /\ Len(f) = 13 + 4
    BY <1>1
  <2> QED BY <1>1, <2>1, StatementIs DEF d
<1>7. Action_parse(f) = ParseStatement(f)
  <2>1. Len(f) > 0 /\ f[Len(f)] = "."
    BY <1>1
  <2> QED BY <1>1, <2>1, StatementParsed
<1> QED BY <1>5, <1>6, <1>7, UnknownNamed

(* A death names the dead. *)
LEMMA DiedNamed == ASSUME NEW f, DiedText(f) PROVE Named(Action_parse(f))
<1> DEFINE died == <<"died", ".">>
<1>1. Listed(f) /\ Len(f) > 1 /\ f[Len(f)] = "." /\ f[Len(f) - 1] = "died"
  BY DEF DiedText
<1>2. Len(f) \in Nat
  BY <1>1, ListedLength
<1>3. Action_parse(f) = ParseStatement(f)
  <2>1. Len(f) > 0
    BY <1>1, <1>2
  <2> QED BY <1>1, <2>1, StatementParsed
<1>4. ~EndsWith(f, PointsOfDamage) /\ ~EndsWith(f, PointOfDamage)
  BY <1>1, NoDamage
<1>5. CASE EndsWith(f, died)
  <2>1. ParseStatement(f) = [Unknown EXCEPT !.type = "DEATH", !.verb = <<"died">>,
                                            !.target = Without(f, died)]
    BY <1>4, <1>5 DEF ParseStatement
  <2>2. Len(died) = 2
    OBVIOUS
  <2>3. Len(f) > 2
    BY <1>5, <2>2 DEF EndsWith
  <2> DEFINE n == Len(f) - 2
  <2>4. Without(f, died) = SubSeq(f, 1, n)
    BY <2>2 DEF Without
  <2>5. n \in 0..Len(f) /\ n > 0
    BY ONLY <1>2, <2>3
  <2> HIDE DEF n
  <2>6. Begins(SubSeq(f, 1, n), f, n)
    BY <1>1, <2>5, BeginningIs
  <2>7. Without(f, died) # << >>
    <3>1. Len(Without(f, died)) > 0
      BY <2>4, <2>5, <2>6 DEF Begins
    <3> QED BY <3>1
  <2>8. ParseStatement(f).type = "DEATH" /\ ParseStatement(f).target # << >>
    <3> HIDE DEF died
    <3> QED BY <2>1, <2>7 DEF Unknown
  <2> QED BY <1>3, <2>8, DeathNamed
<1>6. CASE ~EndsWith(f, died)
  <2>1. ParseStatement(f) = Unknown
    BY <1>4, <1>6 DEF ParseStatement
  <2> QED BY <1>3, <2>1, UnknownNamed
<1> QED BY <1>5, <1>6

(* A line that ends in an exclamation mark, if it tells of no try. *)
LEMMA KillNamed ==
  ASSUME NEW f, Listed(f), Len(f) > 0, f[Len(f)] = "!", Tries(f) = 0
  PROVE  Named(ParseExclamation(f))
<1>1. PICK S : f \in Seq(S)
  BY DEF Listed
<1>2. CASE Has(f, <<"have", "slain">>)
  <2>1. ParseExclamation(f) = ParseSlain(f)
    BY <1>2 DEF ParseExclamation
  <2>2. f # << >> /\ Last(f) \in Mark
    BY <1>1 DEF Last, Mark
  <2>3. ParseSlain(f).type = "DEATH" /\ ParseSlain(f).target # << >>
    BY <1>1, <1>2, <2>2, SlainParsed
  <2> QED BY <2>1, <2>3, DeathNamed
<1>3. CASE ~Has(f, <<"have", "slain">>) /\ Has(f, HasBeenSlainBy)
  <2>1. ParseExclamation(f) = ParseSlainBy(f, HasBeenSlainBy)
    BY <1>3 DEF ParseExclamation
  <2>2. /\ ParseSlainBy(f, HasBeenSlainBy).type = "DEATH"
        /\ ParseSlainBy(f, HasBeenSlainBy).target # << >>
    BY <1>1, <1>3, SlainByParsed
  <2> QED BY <2>1, <2>2, DeathNamed
<1>4. CASE /\ ~Has(f, <<"have", "slain">>) /\ ~Has(f, HasBeenSlainBy)
           /\ Has(f, HaveBeenSlainBy)
  <2>1. ParseExclamation(f) = ParseSlainBy(f, HaveBeenSlainBy)
    BY <1>4 DEF ParseExclamation
  <2>2. /\ ParseSlainBy(f, HaveBeenSlainBy).type = "DEATH"
        /\ ParseSlainBy(f, HaveBeenSlainBy).target # << >>
    BY <1>1, <1>4, SlainByParsed
  <2> QED BY <2>1, <2>2, DeathNamed
<1>5. CASE /\ ~Has(f, <<"have", "slain">>) /\ ~Has(f, HasBeenSlainBy)
           /\ ~Has(f, HaveBeenSlainBy)
  <2>1. ParseExclamation(f) = Unknown
    BY <1>5 DEF ParseExclamation
  <2> QED BY <2>1, UnknownNamed
<1> QED BY <1>2, <1>3, <1>4, <1>5

(* An exclamation mark ends an exclamation. *)
LEMMA ExclamationParsed ==
  ASSUME NEW f, Listed(f), Len(f) > 0, f[Len(f)] = "!"
  PROVE  Action_parse(f) = ParseExclamation(f)
BY LastMarkIs DEF Action_parse

(* A death with a killer names the dead. *)
LEMMA KillTextNamed == ASSUME NEW f, KillText(f) PROVE Named(Action_parse(f))
<1>1. Listed(f) /\ Len(f) > 0 /\ f[Len(f)] = "!" /\ Free(f, TryPairs)
  BY DEF KillText
<1>2. Tries(f) = 0
  BY <1>1, NoTries
<1>3. Named(ParseExclamation(f))
  BY <1>1, <1>2, KillNamed
<1> QED BY <1>1, <1>3, ExclamationParsed

(* A try names both sides. *)
LEMMA TryTextNamed == ASSUME NEW f, TryText(f) PROVE Named(Action_parse(f))
<1>1. Listed(f) /\ f[Len(f)] = "!"
  BY DEF TryText
<1>2. PICK c \in 1..Len(f) :
       /\ f[c] = "," /\ f[c + 1] = "but" /\ c + 2 <= Len(f) /\ f[c + 2] \notin Mark
       /\ \A k \in 1..Len(f) : f[k] = "," => k = c
       /\ \A k \in 1..(Len(f) - 1) : <<f[k], f[k + 1]>> \in TryPairs => k + 3 < c
  BY DEF TryText
<1>3. PICK S : f \in Seq(S)
  BY <1>1 DEF Listed
<1>4. Len(f) > 0
  BY <1>3
<1>5. CASE Tries(f) = 0
  BY <1>1, <1>4, <1>5, KillNamed, ExclamationParsed
<1>6. CASE Tries(f) # 0
  <2> DEFINE i == Tries(f)
             a == ParseTry(f, i)
  <2>1. i \in 2..(Len(f) - 1) /\ <<f[i], f[i + 1]>> \in TryPairs
    BY <1>3, <1>6, TriesIs
  <2> HIDE DEF i
  <2>2. i \in 1..(Len(f) - 1) /\ i \in 2..Len(f)
    BY <1>3, <2>1
  <2>3. i + 3 < c
    BY <1>2, <2>1, <2>2
  <2>4. a.type \in {"UNKNOWN"} \union EndingTypes /\ a.source # << >> /\ a.target # << >>
    BY <1>2, <1>3, <2>2, <2>3, TryParsed
  <2> HIDE DEF a
  <2>5. Named(a)
    BY <2>4, EndingIs DEF Named, EndingTypes, Nobody
  <2>6. ParseExclamation(f) = a
    BY <1>6 DEF ParseExclamation, a, i
  <2> QED BY <1>1, <1>4, <2>5, <2>6, ExclamationParsed
<1> QED BY <1>5, <1>6

(* An announcement is of no hit, try or death. *)
LEMMA AnnounceNamed == ASSUME NEW f, AnnounceText(f) PROVE Named(Action_parse(f))
<1>1. Listed(f) /\ Len(f) > 0 /\ f[Len(f)] = ")"
  BY DEF AnnounceText
<1>2. Action_parse(f) = ParseAnnouncement(f)
  BY <1>1, LastMarkIs DEF Action_parse
<1>3. ParseAnnouncement(f).type \in {"UNKNOWN", "CRIT", "CRIP", "HOLYBLADE"}
  BY DEF ParseAnnouncement, Unknown
<1> QED BY <1>2, <1>3, EndingIs DEF Named, EndingTypes

(* Every whole line. *)
LEMMA LineNamed == ASSUME NEW f, LineText(f) PROVE Named(Action_parse(f))
BY HitNamed, AreaNamed, DiedNamed, TryTextNamed, KillTextNamed, AnnounceNamed DEF LineText
-----------------------------------------------------------------------------
(* Between two lines. *)
NoLine == said = Nothing /\ text = << >> /\ action = Unknown /\ actionPP = Unknown

(* The rest of a line whose beginning was missed. *)
Undated == said \in Sayings /\ ~dated /\ action = Unknown /\ actionPP = Unknown

(* A line that has been parsed. *)
Parsed ==
  \E s \in Sayings : \E points \in Points(s) :
    /\ said = s
    /\ dated
    /\ text = Text(s, points)
    /\ action = Action_parse(text)
    /\ actionPP = PP!Action_parse(text)

(* Nothing else is ever in the variables of the line. *)
LineInv == NoLine \/ Undated \/ Parsed

(* It holds at the beginning, *)
LEMMA LineInit == Init => LineInv
BY DEF Init, LineInv, NoLine

(* is preserved by every step, *)
LEMMA LineStep == LineInv /\ [Next]_vars => LineInv'
<1> SUFFICES ASSUME LineInv, [Next]_vars PROVE LineInv'
  OBVIOUS
<1>1. CASE UNCHANGED line
  <2>1. /\ said' = said /\ dated' = dated /\ text' = text
        /\ action' = action /\ actionPP' = actionPP
    BY <1>1 DEF line
  <2> QED BY <2>1 DEF LineInv, NoLine, Undated, Parsed
<1>2. CASE Lines
  <2>1. CASE Return
    BY <2>1 DEF Return, LineInv, NoLine
  <2>2. CASE \E s \in Sayings : \E points \in Points(s) :
               \E missed \in 0..Len(Text(s, points)) : Parse(s, points, missed)
    <3>0. PICK s \in Sayings : \E points \in Points(s) :
            \E missed \in 0..Len(Text(s, points)) : Parse(s, points, missed)
      BY <2>2, Zenon
    <3>1. PICK points \in Points(s) :
            \E missed \in 0..Len(Text(s, points)) : Parse(s, points, missed)
      BY <3>0, Zenon
    <3>2. PICK missed : Parse(s, points, missed)
      BY <3>1, Zenon
    <3>3. CASE dated'
      <4>1. /\ said' = s /\ text' = Text(s, points)
            /\ action' = Action_parse(text') /\ actionPP' = PP!Action_parse(text')
        BY <3>2, <3>3, Zenon DEF Parse
      <4>2. Parsed'
        BY <3>1, <3>3, <4>1, Zenon DEF Parsed
      <4> QED BY <4>2 DEF LineInv
    <3>4. CASE ~dated'
      <4>1. said' = s /\ action' = Unknown /\ actionPP' = Unknown
        BY <3>2, <3>4, Zenon DEF Parse
      <4>2. Undated'
        BY <3>1, <3>4, <4>1 DEF Undated
      <4> QED BY <4>2 DEF LineInv
    <3> QED BY <3>3, <3>4
  <2> QED BY <1>2, <2>1, <2>2 DEF Lines
<1>3. CASE Midnight
  BY <1>1, <1>3 DEF Midnight
<1>4. CASE \E s \in Instants : ReadDate(s)
  BY <1>1, <1>4 DEF ReadDate
<1>5. CASE ForgetDate
  BY <1>1, <1>5 DEF ForgetDate
<1>6. CASE UNCHANGED vars
  BY <1>1, <1>6 DEF vars
<1> QED BY <1>2, <1>3, <1>4, <1>5, <1>6 DEF Next

(* and says that fighters are named. *)
LEMMA LineImplies == LineInv => FightersNamed
<1>1. Named(action) => FightersNamed
  BY DEF FightersNamed, Named
<1>2. CASE NoLine \/ Undated
  BY <1>1, <1>2, UnknownNamed DEF NoLine, Undated
<1>3. CASE Parsed
  <2>0. PICK s \in Sayings : \E points \in Points(s) :
          text = Text(s, points) /\ action = Action_parse(text)
    BY <1>3, Zenon DEF Parsed
  <2>1. PICK points \in Points(s) :
          text = Text(s, points) /\ action = Action_parse(text)
    BY <2>0, Zenon
  <2>2. LineText(text)
    BY <2>1, TextIs
  <2> QED BY <1>1, <2>1, <2>2, LineNamed
<1> QED BY <1>2, <1>3 DEF LineInv

(* So it always holds. *)
LEMMA LineAlways == Spec => []LineInv
BY LineInit, LineStep, PTL DEF Spec

(* Whatever the names are (of words, harmless) and whatever the numbers:   *)
(* Action_parse makes no hit or try of a line that lacks a fighter, no     *)
(* death that lacks the dead and no hit of no damage.                      *)
THEOREM FightersAlwaysNamed == Spec => []FightersNamed
BY LineAlways, LineImplies, PTL
-----------------------------------------------------------------------------
(* What a whole line means: where its parts are, and that the parser       *)
(* finds them there.                                                       *)

(* A run of words is in a text behind the first k. *)
Holds(f, k, a) ==
  /\ k \in Nat /\ Listed(a) /\ k + Len(a) <= Len(f)
  /\ \A i \in 1..Len(a) : f[k + i] = a[i]

(* Cut out, it is what it was. *)
LEMMA HoldsRun ==
  ASSUME NEW f, Listed(f), NEW k, NEW a, Holds(f, k, a)
  PROVE  SubSeq(f, k + 1, k + Len(a)) = a
<1> DEFINE i == k + 1
           j == k + Len(a)
           run == SubSeq(f, i, j)
<1>1. PICK S : f \in Seq(S)
  BY DEF Listed
<1>2. PICK T : a \in Seq(T)
  BY DEF Holds, Listed
<1>3. k \in Nat /\ Len(a) \in Nat /\ Len(f) \in Nat /\ k + Len(a) <= Len(f)
  BY <1>1, <1>2 DEF Holds
<1>4. i \in Int /\ j \in Int /\ \A m \in i..j : m \in 1..Len(f)
  BY ONLY <1>3
<1>5. \A m \in i..j : f[m] \in S
  BY <1>1, <1>4
<1>6. /\ run \in Seq(S) /\ Len(run) = (IF i <= j THEN j - i + 1 ELSE 0)
      /\ \A m \in 1..(j - i + 1) : run[m] = f[i + m - 1]
  BY <1>4, <1>5, SubSeqProperties
<1> HIDE DEF run
<1>7. Len(run) = Len(a)
  BY ONLY <1>3, <1>6
<1>8. ASSUME NEW m \in 1..Len(a) PROVE run[m] = a[m]
  <2>1. m \in 1..(j - i + 1) /\ i + m - 1 = k + m
    BY ONLY <1>3, m \in 1..Len(a)
  <2>2. run[m] = f[k + m]
    BY <1>6, <2>1
  <2> QED BY <2>2 DEF Holds
<1> DEFINE U == S \union T
<1>9. run \in Seq(U) /\ a \in Seq(U)
  BY <1>2, <1>6
<1> HIDE DEF U, i, j
<1>10. run = a
  BY <1>7, <1>8, <1>9, SeqEqual
<1> QED BY <1>10 DEF run, i, j

(* A run that no mark follows is a phrase. *)
LEMMA HoldsPhrase ==
  ASSUME NEW f, Listed(f), NEW k, NEW a, Holds(f, k, a), k >= 1,
         k + Len(a) < Len(f), f[k + Len(a) + 1] \notin Mark
  PROVE  PhraseAt(f, k + 1, a)
<1>1. SubSeq(f, k + 1, k + Len(a)) = a
  BY HoldsRun
<1>2. k \in Nat /\ Len(a) \in Nat /\ Len(f) \in Nat
  BY ListedLength DEF Holds
<1> DEFINE i == k + 1
           j == k + Len(a)
           next == k + Len(a) + 1
<1>3. i > 1 /\ next <= Len(f) /\ i + Len(a) = next /\ next - 1 = j
  BY ONLY <1>2, k >= 1, k + Len(a) < Len(f)
<1> HIDE DEF i, j, next
<1>4. SubSeq(f, i, j) = a /\ f[next] \notin Mark
  BY <1>1 DEF i, j, next
<1>5. PhraseAt(f, i, a)
  BY ONLY <1>3, <1>4 DEF PhraseAt
<1> QED BY <1>5 DEF i

(* The words at the end of a text, when there are more. *)
LEMMA HoldsEnd ==
  ASSUME NEW f, Listed(f), NEW k, NEW a, Holds(f, k, a), k > 0, Len(f) = k + Len(a)
  PROVE  EndsWith(f, a) /\ Without(f, a) = SubSeq(f, 1, k)
<1> DEFINE n == Len(f)
           m == Len(a)
           rf == Reverse(f)
           ra == Reverse(a)
<1>1. k \in Nat /\ m \in Nat /\ n \in Nat /\ n = k + m /\ n > m /\ n - m = k
  <2>1. k \in Nat /\ m \in Nat /\ n \in Nat
    BY ListedLength DEF Holds
  <2> QED BY ONLY <2>1, k > 0, Len(f) = k + Len(a)
<1>2. rf = [i \in 1..n |-> f[n - i + 1]] /\ ra = [i \in 1..m |-> a[m - i + 1]]
  BY DEF Reverse
<1>3. PICK S : f \in Seq(S)
  BY DEF Listed
<1>4. PICK T : a \in Seq(T)
  BY DEF Holds, Listed
<1> DEFINE U == S \union T
<1>5. \A i \in 1..n : f[i] \in U
  BY <1>3
<1>6. \A i \in 1..m : a[i] \in U
  BY <1>4
<1> HIDE DEF n, m, U, rf, ra
<1>7. rf \in Seq(U) /\ Len(rf) = n
  <2>1. ASSUME NEW i \in 1..n PROVE f[n - i + 1] \in U
    <3>1. n - i + 1 \in 1..n
      BY ONLY <1>1, i \in 1..n
    <3> QED BY <1>5, <3>1
  <2> QED BY ONLY <1>1, <1>2, <2>1
<1>8. ra \in Seq(U) /\ Len(ra) = m
  <2>1. ASSUME NEW i \in 1..m PROVE a[m - i + 1] \in U
    <3>1. m - i + 1 \in 1..m
      BY ONLY <1>1, i \in 1..m
    <3> QED BY <1>6, <3>1
  <2> QED BY ONLY <1>1, <1>2, <2>1
<1>9. ASSUME NEW i \in 1..m PROVE rf[i] = ra[i]
  <2> DEFINE j == m - i + 1
  <2>1. j \in 1..m /\ n - i + 1 = k + j /\ i \in 1..n
    BY ONLY <1>1, i \in 1..m
  <2> HIDE DEF j
  <2>2. f[k + j] = a[j]
    BY <2>1 DEF Holds, m
  <2>3. rf[i] = f[k + j]
    BY <1>2, <2>1
  <2>4. ra[i] = a[j]
    BY <1>2 DEF j
  <2> QED BY <2>2, <2>3, <2>4
<1>10. Holds(rf, 0, ra)
  <2>1. Listed(ra)
    BY <1>8, Zenon DEF Listed
  <2>2. \A i \in 1..m : 0 + i = i
    BY <1>1
  <2>3. \A i \in 1..m : rf[0 + i] = ra[i]
    BY <1>9, <2>2
  <2> QED BY <1>1, <1>7, <1>8, <2>1, <2>3 DEF Holds
<1>11. SubSeq(rf, 1, m) = ra
  <2>1. Listed(rf)
    BY <1>7, Zenon DEF Listed
  <2>2. SubSeq(rf, 0 + 1, 0 + Len(ra)) = ra
    BY <1>10, <2>1, HoldsRun
  <2>3. 0 + Len(ra) = m /\ 0 + 1 = 1
    BY <1>1, <1>8
  <2> QED BY <2>2, <2>3
<1>12. SubSeq(ra, 1, m) = ra
  <2>1. Listed(ra)
    BY <1>8, Zenon DEF Listed
  <2> QED BY <1>8, <2>1, WholeIs
<1>13. IsSuffix(a, f)
  <2>1. Len(ra) <= Len(rf) /\ SubSeq(ra, 1, Len(ra)) = SubSeq(rf, 1, Len(ra))
    BY <1>1, <1>7, <1>8, <1>11, <1>12
  <2>2. IsPrefix(ra, rf)
    BY <2>1 DEF IsPrefix
  <2> QED BY <2>2 DEF IsSuffix, ra, rf
<1> QED BY <1>1, <1>13 DEF EndsWith, Without, n, m

(* What joining does to the runs of a text. *)
Grows(g, f, b) ==
  /\ Listed(g) /\ Len(g) = Len(f) + Len(b)
  /\ Holds(g, 0, f) /\ Holds(g, Len(f), b)
  /\ \A k, a : Holds(f, k, a) => Holds(g, k, a)

(* Two texts joined: the runs of the first stay where they are. *)
LEMMA Grown ==
  ASSUME NEW f, NEW b, Listed(f), Listed(b)
  PROVE  Grows(f \o b, f, b)
<1> DEFINE g == f \o b
<1>1. Joins(g, f, b)
  BY Joined
<1> HIDE DEF g
<1>2. Len(f) \in Nat /\ Len(b) \in Nat
  BY ListedLength
<1>3. /\ Listed(g) /\ Len(g) = Len(f) + Len(b)
      /\ \A i \in 1..Len(f) : g[i] = f[i]
      /\ \A i \in 1..Len(b) : g[Len(f) + i] = b[i]
  BY <1>1 DEF Joins
<1>4. Holds(g, Len(f), b)
  <2>1. Len(f) + Len(b) <= Len(g)
    BY ONLY <1>2, <1>3
  <2> QED BY <1>2, <1>3, <2>1 DEF Holds
<1>5. ASSUME NEW k, NEW a, Holds(f, k, a) PROVE Holds(g, k, a)
  <2>1. k \in Nat /\ Listed(a) /\ k + Len(a) <= Len(f) /\ \A i \in 1..Len(a) : f[k + i] = a[i]
    BY <1>5 DEF Holds
  <2>2. Len(a) \in Nat
    BY <2>1, ListedLength
  <2>3. ASSUME NEW i \in 1..Len(a) PROVE g[k + i] = a[i]
    <3>1. k + i \in 1..Len(f)
      BY ONLY <1>2, <2>1, <2>2, i \in 1..Len(a)
    <3> QED BY <1>3, <2>1, <3>1
  <2>4. k + Len(a) <= Len(g)
    BY ONLY <1>2, <1>3, <2>1, <2>2
  <2> QED BY <2>1, <2>3, <2>4 DEF Holds
<1>6. Holds(f, 0, f)
  <2>1. \A i \in 1..Len(f) : 0 + i = i
    OBVIOUS
  <2>2. \A i \in 1..Len(f) : f[0 + i] = f[i]
    BY <2>1
  <2>3. 0 + Len(f) <= Len(f)
    BY <1>2
  <2> QED BY <2>2, <2>3 DEF Holds
<1>7. Grows(g, f, b)
  BY <1>3, <1>4, <1>5, <1>6 DEF Grows
<1> QED BY <1>7 DEF g

(* A beginning of a text has the runs that it reaches. *)
LEMMA HoldsBegins ==
  ASSUME NEW f, NEW n, NEW t, Begins(t, f, n), NEW k, NEW a, Holds(f, k, a), k + Len(a) <= n
  PROVE  Holds(t, k, a)
<1>1. /\ k \in Nat /\ Listed(a) /\ \A i \in 1..Len(a) : f[k + i] = a[i]
      /\ Len(t) = n /\ \A i \in 1..n : t[i] = f[i]
  BY DEF Holds, Begins
<1>2. Len(a) \in Nat /\ n \in Nat
  <2>1. Listed(t) /\ Len(t) = n
    BY DEF Begins
  <2> QED BY <1>1, <2>1, ListedLength
<1>3. ASSUME NEW i \in 1..Len(a) PROVE t[k + i] = a[i]
  <2>1. k + i \in 1..n
    BY ONLY <1>1, <1>2, i \in 1..Len(a), k + Len(a) <= n
  <2> QED BY <1>1, <2>1
<1> QED BY <1>1, <1>3 DEF Holds

(* A statement that ends in points of damage is read as one. *)
LEMMA DamageRead ==
  ASSUME NEW f, Listed(f), NEW n \in Nat, n > 0, NEW p \in ThePoints,
         Len(f) = n + 4, Holds(f, n, p)
  PROVE  Action_parse(f) = ParseDamage(SubSeq(f, 1, n))
<1>1. Len(p) = 4 /\ p[3] = "damage" /\ p[4] = "."
  BY ThePointsAre
<1>2. EndsWith(f, p) /\ Without(f, p) = SubSeq(f, 1, n)
  BY <1>1, HoldsEnd
<1>3. f[Len(f)] = "." /\ f[Len(f) - 1] = "damage" /\ Len(f) > 0
  <2>1. f[n + 4] = p[4] /\ f[n + 3] = p[3]
    BY <1>1 DEF Holds
  <2>2. n + 4 > 0 /\ n + 4 - 1 = n + 3
    OBVIOUS
  <2> QED BY <1>1, <2>1, <2>2
<1>4. Action_parse(f) = ParseStatement(f)
  BY <1>3, StatementParsed
<1>5. ~EndsWith(f, <<"died", ".">>)
  BY <1>3, NoDeath
<1> DEFINE d == SubSeq(f, 1, n)
<1>6. Without(f, PointsOfDamage) = d /\ Without(f, PointOfDamage) = d
  <2>1. Len(PointsOfDamage) = 4 /\ Len(PointOfDamage) = 4
    BY ThePointsAre DEF ThePoints
  <2>2. Len(f) - 4 = n
    OBVIOUS
  <2> QED BY <2>1, <2>2 DEF Without
<1>7. EndsWith(f, PointsOfDamage) \/ EndsWith(f, PointOfDamage)
  BY <1>2 DEF ThePoints
<1> HIDE DEF d
<1>8. ParseStatement(f) = ParseDamage(d)
  BY ONLY <1>5, <1>6, <1>7 DEF ParseStatement
<1> QED BY <1>4, <1>8 DEF d

(* The verb behind a plain name is the first that is found. *)
LEMMA FirstVerb ==
  ASSUME NEW S, NEW d \in Seq(S), NEW a \in Fighters, Plain(a), Holds(d, 0, a),
         NEW m, m = Len(a), m + 1 <= Len(d),
         NonMeleeAt(d, m + 1) \/ HealedAt(d, m + 1) \/ MeleeAt(d, m + 1) # {},
         d[m + 1] = "hit" => m = 1, d[m + 1] \notin {"been", "healed"}
  PROVE  VerbPlace(d) = m + 1
<1> DEFINE at == {i \in 1..Len(d) : \/ NonMeleeAt(d, i)
                                  \/ HealedAt(d, i)
                                  \/ MeleeAt(d, i) # {}}
<1>1. m \in Nat /\ m > 0 /\ Len(d) \in Nat
  BY FighterIs
<1>2. \A i \in 1..m : d[i] = a[i]
  <2>1. \A i \in 1..m : d[0 + i] = a[i] /\ 0 + i = i
    BY <1>1 DEF Holds
  <2> QED BY <2>1
<1>3. \A i \in 2..m : a[i] \notin VerbWords /\ <<a[i - 1], a[i]>> # <<"been", "healed">>
  BY DEF Plain
<1>4. m + 1 \in at
  BY <1>1
<1>5. "hit" \in VerbWords
  BY VerbWordsAre
<1>6. ASSUME NEW i \in at, i <= m PROVE FALSE
  <2>0. i \in 1..Len(d) /\ i \in Int
    OBVIOUS
  <2>1. NonMeleeAt(d, i) \/ HealedAt(d, i) \/ MeleeAt(d, i) # {}
    OBVIOUS
  <2> HIDE DEF at
  <2>2. CASE NonMeleeAt(d, i)
    <3>1. i > 1 /\ d[i + 1] = "hit"
      BY <2>0, <2>2, HitByWords, Zenon
    <3>2. CASE i = m
      <4>1. m = 1
        BY <3>1, <3>2
      <4> QED BY <3>1, <3>2, <4>1
    <3>3. CASE i < m
      <4>1. i + 1 \in 1..m /\ i + 1 \in 2..m
        BY <1>1, <2>0, <3>1, <3>3
      <4>2. a[i + 1] = "hit"
        BY <1>2, <3>1, <4>1
      <4> QED BY <1>3, <1>5, <4>1, <4>2
    <3>4. i = m \/ i < m
      BY ONLY <1>1, <2>0, i <= m
    <3> QED BY <3>2, <3>3, <3>4
  <2>3. CASE HealedAt(d, i)
    <3>1. i > 1 /\ d[i + 1] = "been" /\ d[i + 2] = "healed"
      BY <2>0, <2>3, HealedWords, Zenon
    <3>2. CASE i = m
      BY <3>1, <3>2
    <3>3. CASE i + 1 = m
      <4>1. i + 2 = m + 1
        BY <1>1, <2>0, <3>3
      <4> QED BY <3>1, <4>1
    <3>4. CASE i + 1 < m
      <4> DEFINE j == i + 2
      <4>1. i + 1 \in 1..m /\ j \in 1..m /\ j \in 2..m /\ j - 1 = i + 1
        BY ONLY <1>1, <2>0, <3>1, <3>4
      <4>2. a[i + 1] = "been" /\ a[j] = "healed"
        BY <1>2, <3>1, <4>1
      <4> HIDE DEF j
      <4>3. <<a[j - 1], a[j]>> # <<"been", "healed">>
        BY <1>3, <4>1
      <4>4. a[j - 1] = "been"
        BY <4>1, <4>2
      <4> QED BY <4>2, <4>3, <4>4
    <3>5. i = m \/ i + 1 = m \/ i + 1 < m
      BY ONLY <1>1, <2>0, i <= m
    <3> QED BY <3>2, <3>3, <3>4, <3>5
  <2>4. CASE MeleeAt(d, i) # {}
    <3>1. i > 1 /\ d[i] \in VerbWords
      BY <2>0, <2>4, MeleeWord
    <3>2. i \in 1..m /\ i \in 2..m
      BY ONLY <1>1, <2>0, <3>1, i <= m
    <3> QED BY <1>2, <1>3, <3>1, <3>2
  <2> QED BY <2>1, <2>2, <2>3, <2>4
<1>7. at \in SUBSET (1..Len(d))
  OBVIOUS
<1>8. VerbPlace(d) = Min(at)
  BY <1>4 DEF VerbPlace
<1> HIDE DEF at
<1>9. Min(at) \in at /\ \A y \in at : Min(at) <= y
  BY <1>1, <1>4, <1>7, LeastPlace
<1>10. Min(at) = m + 1
  <2>1. Min(at) \in Int
    <3>1. 1..Len(d) \subseteq Int
      BY <1>1
    <3>2. at \subseteq 1..Len(d)
      BY <1>7
    <3> QED BY ONLY <1>9, <3>1, <3>2
  <2>3. Min(at) <= m + 1
    BY ONLY <1>4, <1>9
  <2>2. ~(Min(at) <= m)
    <3> DEFINE least == Min(at)
    <3>1. least \in at
      BY <1>9
    <3> HIDE DEF least
    <3>2. ~(least <= m)
      BY <1>6, <3>1
    <3> QED BY <3>2 DEF least
  <2> QED BY ONLY <1>1, <2>1, <2>2, <2>3
<1> QED BY <1>8, <1>10

(* A word of a run. *)
LEMMA HoldsWord ==
  ASSUME NEW f, NEW k, NEW a, Holds(f, k, a), NEW i \in 1..Len(a)
  PROVE  f[k + i] = a[i]
BY DEF Holds

(* A run of a run. *)
LEMMA HoldsInner ==
  ASSUME NEW f, NEW k, NEW a, Holds(f, k, a), NEW j, NEW b, Holds(a, j, b)
  PROVE  Holds(f, k + j, b)
<1>1. /\ k \in Nat /\ j \in Nat /\ Listed(a) /\ Listed(b) /\ k + Len(a) <= Len(f)
      /\ j + Len(b) <= Len(a)
  BY DEF Holds
<1>2. Len(a) \in Nat /\ Len(b) \in Nat
  BY <1>1, ListedLength
<1>3. ASSUME NEW i \in 1..Len(b) PROVE f[(k + j) + i] = b[i]
  <2> DEFINE m == j + i
  <2>1. m \in 1..Len(a) /\ (k + j) + i = k + m
    BY ONLY <1>1, <1>2, i \in 1..Len(b)
  <2>2. a[m] = b[i]
    BY DEF Holds
  <2> HIDE DEF m
  <2>3. f[k + m] = a[m]
    BY <2>1 DEF Holds
  <2> QED BY <2>1, <2>2, <2>3
<1>4. k + j \in Nat
  BY ONLY <1>1
<1>6. (k + j) + Len(b) <= k + Len(a)
  BY ONLY <1>1, <1>2
<1>7. (k + j) + Len(b) <= Len(f)
  BY ONLY <1>1, <1>2, <1>6
<1> QED BY <1>1, <1>3, <1>4, <1>7 DEF Holds

(* The verbs have no word in common. *)
LEMMA VerbsApart ==
  ASSUME NEW v \in DOMAIN ActionVerbs, NEW u \in DOMAIN ActionVerbs,
         NEW w, w \in ActionVerbs[v].put, w \in ActionVerbs[u].put
  PROVE  u = v
<1> DEFINE Put(verb) == ActionVerbs[verb].put
           V == {"backstab", "bash", "bite", "claw", "crush", "gore", "hit", "kick",
                 "maul", "pierce", "punch", "rend", "slash", "slice", "smash"}
<1>1. v \in V /\ u \in V /\ w \in Put(v) /\ w \in Put(u)
  BY DEF ActionVerbs
<1>2. /\ Put("backstab") = {"backstab", "backstabs"} /\ Put("bash") = {"bash", "bashes"}
      /\ Put("bite") = {"bites"} /\ Put("claw") = {"claw", "claws"}
      /\ Put("crush") = {"crush", "crushes"} /\ Put("gore") = {"gore", "gores"}
      /\ Put("hit") = {"hit", "hits"} /\ Put("kick") = {"kick", "kicks"}
      /\ Put("maul") = {"maul", "mauls"} /\ Put("pierce") = {"pierce", "pierces"}
      /\ Put("punch") = {"punch", "punches"} /\ Put("rend") = {"rend", "rends"}
      /\ Put("slash") = {"slash", "slashes"} /\ Put("slice") = {"slice", "slices"}
      /\ Put("smash") = {"smash", "smashes"}
  BY DEF ActionVerbs
<1> HIDE DEF Put
<1> QED BY ONLY <1>1, <1>2

(* All but one are called what they are. *)
LEMMA VerbCalled ==
  ASSUME NEW v \in DOMAIN ActionVerbs, v # "bite"
  PROVE  v \in ActionVerbs[v].put /\ ActionVerbs[v].verb = <<v>>
BY DEF ActionVerbs

(* How a fighter puts a verb: who hits in the second person is of one word. *)
PutBy(a, v, w) == w \in {v, ThirdPerson[v]} /\ (w = v => Len(a) = 1)

(* A hit. *)
LEMMA HitMeant ==
  ASSUME NEW S, NEW d \in Seq(S), NEW a \in Fighters, Plain(a), NEW b \in Fighters,
         NEW v \in DOMAIN ThirdPerson, v # "bite", NEW w, PutBy(a, v, w), NEW n \in Number,
         Len(d) = Len(a) + 1 + Len(b) + 2, Holds(d, 0, a), Holds(d, Len(a), <<w>>),
         Holds(d, Len(a) + 1, b), Holds(d, Len(a) + 1 + Len(b), <<"for", n>>)
  PROVE  ParseDamage(d) = [type |-> "MELEE", source |-> a, target |-> b, verb |-> <<v>>,
                           damage |-> Value[n]]
<1> DEFINE p == Len(a)
           q == Len(b)
           i == p + 1
           z == Len(d)
<1>1. /\ p \in Nat /\ p > 0 /\ q \in Nat /\ q > 0 /\ Listed(d)
      /\ b[1] \notin Mark
  <2>1. q \in Nat /\ q > 0 /\ \A k \in 1..q : b[k] \notin Mark
    BY FighterIs
  <2>2. 1 \in 1..q
    BY ONLY <2>1
  <2>3. p \in Nat /\ p > 0
    BY FighterIs
  <2>4. Listed(d)
    BY Zenon DEF Listed
  <2> QED BY ONLY <2>1, <2>2, <2>3, <2>4
<1>2. v \in DOMAIN ActionVerbs /\ w \in ActionVerbs[v].put /\ ActionVerbs[v].verb = <<v>>
      /\ w \in VerbWords /\ (w # v => w \in ActionVerbs[v].put \ {v})
  <2>1. v \in DOMAIN ActionVerbs /\ ThirdPerson[v] \in ActionVerbs[v].put \ {v}
    BY WordsAssumption
  <2>2. v \in ActionVerbs[v].put /\ ActionVerbs[v].verb = <<v>>
    BY <2>1, VerbCalled
  <2>3. w \in ActionVerbs[v].put
    BY <2>1, <2>2 DEF PutBy
  <2> QED BY <2>1, <2>2, <2>3 DEF VerbWords, PutBy
<1>3. d[i] = w /\ d[i + 1] = b[1] /\ d[z - 1] = "for" /\ d[z] = n
  <2>1. Len(<<w>>) = 1 /\ <<w>>[1] = w /\ Len(<<"for", n>>) = 2
        /\ <<"for", n>>[1] = "for" /\ <<"for", n>>[2] = n
    BY One, Two
  <2>2. d[p + 1] = w /\ d[(p + 1 + q) + 1] = "for" /\ d[(p + 1 + q) + 2] = n
    BY <2>1 DEF Holds
  <2>3. 1 \in 1..q
    BY ONLY <1>1
  <2>4. d[(p + 1) + 1] = b[1]
    BY <2>3 DEF Holds
  <2>5. (p + 1 + q) + 1 = z - 1 /\ (p + 1 + q) + 2 = z
    BY ONLY <1>1, Len(d) = Len(a) + 1 + Len(b) + 2
  <2> QED BY <2>2, <2>4, <2>5
<1>4. i \in Int /\ i > 1 /\ i + 1 <= z /\ z \in Nat /\ i <= z
  BY ONLY <1>1, Len(d) = Len(a) + 1 + Len(b) + 2
<1>5. MeleeAt(d, i) = {v}
  <2> HIDE DEF i, z
  <2>1. PhraseAt(d, i, <<w>>)
    <3>1. PhraseAt(d, i, <<d[i]>>)
      BY <1>1, <1>3, <1>4, WordFits DEF z
    <3> QED BY <1>3, <3>1
  <2>2. ASSUME NEW u \in MeleeAt(d, i) PROVE u = v
    <3>1. PICK x \in ActionVerbs[u].put : PhraseAt(d, i, <<x>>)
      BY DEF MeleeAt
    <3>2. d[i] = x
      <4>1. Len(<<x>>) = 1 /\ <<x>>[1] = x
        BY One
      <4>2. Len(<<x>>) \in Nat /\ Len(<<x>>) >= 1
        BY <4>1
      <4> QED BY <1>4, <3>1, <4>1, <4>2, PhraseFirst
    <3>3. u \in DOMAIN ActionVerbs /\ w \in ActionVerbs[u].put
      BY <1>3, <3>1, <3>2 DEF MeleeAt
    <3> QED BY <1>2, <3>3, VerbsApart
  <2>3. v \in MeleeAt(d, i)
    BY <1>2, <2>1 DEF MeleeAt
  <2> QED BY <2>2, <2>3
<1>6. w = "hit" => p = 1
  <2>1. ASSUME w = "hit", w # v PROVE FALSE
    <3>1. "hit" \in DOMAIN ActionVerbs /\ "hit" \in ActionVerbs["hit"].put
      BY DEF ActionVerbs
    <3>2. v = "hit"
      BY <1>2, <2>1, <3>1, VerbsApart
    <3> QED BY <2>1, <3>2
  <2> QED BY <2>1 DEF PutBy
<1>7. w \notin {"been", "healed", "was", "were", "have"}
  BY <1>2, VerbWordsAre
<1>8. VerbPlace(d) = i
  <2>1. MeleeAt(d, p + 1) # {}
    BY <1>5
  <2>2. d[p + 1] = "hit" => p = 1
    BY <1>3, <1>6
  <2>3. d[p + 1] \notin {"been", "healed"}
    BY <1>3, <1>7
  <2> QED BY <1>4, <2>1, <2>2, <2>3, FirstVerb
<1>9. ~HasTaken(d)
  BY <1>3, HaveTakenWords
<1>10. ~NonMeleeAt(d, i) /\ ~HealedAt(d, i)
  <2>1. ASSUME NonMeleeAt(d, i) PROVE FALSE
    BY <1>3, <1>4, <1>7, <2>1, HitByWords
  <2>2. ASSUME HealedAt(d, i) PROVE FALSE
    BY <1>3, <1>4, <1>7, <2>2, HealedWords
  <2> QED BY <2>1, <2>2
<1>11. Before(d, i) = a
  <2>1. SubSeq(d, 0 + 1, 0 + p) = a
    BY <1>1, HoldsRun
  <2>2. 0 + 1 = 1 /\ 0 + p = p /\ i - 1 = p
    BY <1>1
  <2> QED BY <2>1, <2>2 DEF Before
<1>12. ForPlace(d, i + 2) = z - 1 /\ DamageFrom(d, i + 2) = Value[n]
  <2>1. i + 2 \in 2..(z - 1)
    BY ONLY <1>1, Len(d) = Len(a) + 1 + Len(b) + 2
  <2> HIDE DEF i
  <2> QED BY <1>3, <2>1, LastFor
<1>13. Between(d, i, z - 1) = b
  <2>1. SubSeq(d, (p + 1) + 1, (p + 1) + q) = b
    BY <1>1, HoldsRun
  <2>2. (p + 1) + q = (z - 1) - 1
    BY ONLY <1>1, Len(d) = Len(a) + 1 + Len(b) + 2
  <2> QED BY <2>1, <2>2 DEF Between
<1>14. (CHOOSE x \in MeleeAt(d, i) : TRUE) = v
  BY <1>5
<1> HIDE DEF i, z
<1>15. ParseDamage(d) =
         [type |-> "MELEE", source |-> Before(d, i),
              target |-> Between(d, i, ForPlace(d, i + 2)),
              verb |-> ActionVerbs[CHOOSE x \in MeleeAt(d, i) : TRUE].verb,
              damage |-> DamageFrom(d, i + 2)]
  <2>1. i # 0
    BY <1>4
  <2> QED BY ONLY <1>8, <1>9, <1>10, <2>1 DEF ParseDamage
<1> QED BY <1>2, <1>11, <1>12, <1>13, <1>14, <1>15

(* A spell. *)
LEMMA SpellMeant ==
  ASSUME NEW S, NEW d \in Seq(S), NEW a \in Fighters, Plain(a), NEW was \in {"was", "were"},
         NEW n \in Number,
         Len(d) = Len(a) + 6, Holds(d, 0, a), Holds(d, Len(a), <<was>>),
         Holds(d, Len(a) + 1, <<"hit", "by", "non-melee">>), Holds(d, Len(a) + 4, <<"for", n>>)
  PROVE  ParseDamage(d) = [type |-> "MAGIC", source |-> You, target |-> a,
                           verb |-> <<"non-melee">>, damage |-> Value[n]]
<1> DEFINE p == Len(a)
           i == p + 1
           z == Len(d)
<1>1. p \in Nat /\ p > 0 /\ Listed(d)
  <2>1. Listed(d)
    BY Zenon DEF Listed
  <2> QED BY <2>1, FighterIs
<1>2. d[i] = was /\ d[i + 1] = "hit" /\ d[i + 2] = "by" /\ d[i + 3] = "non-melee"
      /\ d[z - 1] = "for" /\ d[z] = n
  <2>1. Len(<<was>>) = 1 /\ <<was>>[1] = was /\ Len(<<"for", n>>) = 2
        /\ <<"for", n>>[1] = "for" /\ <<"for", n>>[2] = n
    BY One, Two
  <2> DEFINE h == <<"hit", "by", "non-melee">>
  <2>2. Len(h) = 3 /\ h[1] = "hit" /\ h[2] = "by" /\ h[3] = "non-melee" /\ Holds(d, p + 1, h)
    BY Three
  <2> HIDE DEF h
  <2>3. d[p + 1] = was /\ d[(p + 4) + 1] = "for" /\ d[(p + 4) + 2] = n
    BY <2>1 DEF Holds
  <2>4. d[(p + 1) + 1] = "hit" /\ d[(p + 1) + 2] = "by" /\ d[(p + 1) + 3] = "non-melee"
    BY <2>2 DEF Holds
  <2>5. (p + 4) + 1 = z - 1 /\ (p + 4) + 2 = z
    BY ONLY <1>1, Len(d) = Len(a) + 6
  <2> QED BY <2>3, <2>4, <2>5
<1>3. i \in Int /\ i > 1 /\ z \in Nat /\ i <= z /\ i + 3 < z /\ i + 3 \in Int /\ z - (i + 3) = 2
  BY ONLY <1>1, Len(d) = Len(a) + 6
<1>4. NonMeleeAt(d, i)
  <2> DEFINE phrase == <<was, "hit", "by">>
  <2>1. /\ Listed(phrase) /\ Len(phrase) = 3 /\ phrase[1] = was /\ phrase[2] = "hit"
        /\ phrase[3] = "by"
    BY Three
  <2> HIDE DEF phrase
  <2>2. d[p + 1] = was /\ d[p + 2] = "hit" /\ d[p + 3] = "by" /\ d[p + 3 + 1] = "non-melee"
        /\ p + 3 < z
    <3>1. p + 2 = i + 1 /\ p + 3 = i + 2 /\ p + 3 + 1 = i + 3 /\ p + 3 < z
      BY ONLY <1>1, <1>3
    <3> QED BY <1>2, <3>1
  <2>3. Holds(d, p, phrase)
    <3>1. \A k \in 1..3 : d[p + k] = phrase[k]
      <4>1. \A k \in 1..3 : k = 1 \/ k = 2 \/ k = 3
        OBVIOUS
      <4> QED BY ONLY <2>1, <2>2, <4>1
    <3>2. p + 3 <= z
      BY ONLY <1>1, <1>3, <2>2
    <3> QED BY <1>1, <2>1, <3>1, <3>2 DEF Holds
  <2>4. PhraseAt(d, p + 1, phrase)
    <3>1. p + Len(phrase) < Len(d) /\ d[p + Len(phrase) + 1] \notin Mark
      <4>1. "non-melee" \notin Mark
        BY DEF Mark
      <4> QED BY <2>1, <2>2, <4>1
    <3>2. p >= 1
      BY <1>1
    <3> QED BY <1>1, <2>3, <3>1, <3>2, HoldsPhrase
  <2> QED BY <2>4 DEF NonMeleeAt, phrase
<1>5. VerbPlace(d) = i
  <2>1. d[p + 1] # "hit" /\ d[p + 1] \notin {"been", "healed"}
    BY <1>2
  <2>2. NonMeleeAt(d, p + 1) /\ p + 1 <= Len(d)
    BY <1>3, <1>4
  <2> QED BY <2>1, <2>2, FirstVerb
<1>6. ~HasTaken(d)
  BY <1>2, HaveTakenWords
<1>7. Before(d, i) = a
  <2>1. SubSeq(d, 0 + 1, 0 + p) = a
    BY <1>1, HoldsRun
  <2>2. 0 + 1 = 1 /\ 0 + p = p /\ i - 1 = p
    BY <1>1
  <2> QED BY <2>1, <2>2 DEF Before
<1>8. DamageFrom(d, i + 4) = Value[n]
  <2>1. i + 4 \in 2..(z - 1)
    BY ONLY <1>1, Len(d) = Len(a) + 6
  <2> HIDE DEF i
  <2> QED BY <1>2, <2>1, LastFor
<1> HIDE DEF i, z
<1>9. ParseDamage(d) =
         [type |-> "MAGIC", source |-> <<"You">>, target |-> Before(d, i),
          verb |-> <<d[i + 3]>>, damage |-> DamageFrom(d, i + 4)]
  <2>1. i > 0 /\ i # 0
    BY <1>3
  <2>2. ~HealedAt(d, i)
    BY <1>2, <1>3, HealedWords
  <2> QED BY ONLY <1>4, <1>5, <1>6, <2>1, <2>2 DEF ParseDamage
<1> QED BY <1>2, <1>7, <1>8, <1>9 DEF You

(* A healing. *)
LEMMA HealMeant ==
  ASSUME NEW S, NEW d \in Seq(S), NEW n \in Number,
         Len(d) = 6, Holds(d, 0, <<"You", "have", "been", "healed">>), Holds(d, 4, <<"for", n>>)
  PROVE  ParseDamage(d) = [type |-> "HEAL", source |-> Nobody, target |-> You,
                           verb |-> <<"have", "been", "healed">>, damage |-> Value[n]]
<1>1. Listed(d) /\ Listed(You) /\ Len(You) = 1 /\ You[1] = "You" /\ You \in Fighters /\ Plain(You)
  <2>1. Listed(d)
    BY Zenon DEF Listed
  <2>2. Listed(You) /\ Len(You) = 1 /\ You[1] = "You"
    BY One DEF You
  <2>3. Plain(You)
    BY <2>2 DEF Plain
  <2> QED BY <2>1, <2>2, <2>3 DEF Fighters
<1>2. d[1] = "You" /\ d[2] = "have" /\ d[3] = "been" /\ d[4] = "healed" /\ d[5] = "for" /\ d[6] = n
  <2> DEFINE h == <<"You", "have", "been", "healed">>
  <2>1. /\ Len(h) = 4 /\ h[1] = "You" /\ h[2] = "have" /\ h[3] = "been" /\ h[4] = "healed"
        /\ Holds(d, 0, h)
    OBVIOUS
  <2> HIDE DEF h
  <2>2. Len(<<"for", n>>) = 2 /\ <<"for", n>>[1] = "for" /\ <<"for", n>>[2] = n
    BY Two
  <2>3. d[0 + 1] = "You" /\ d[0 + 2] = "have" /\ d[0 + 3] = "been" /\ d[0 + 4] = "healed"
    BY <2>1 DEF Holds
  <2>4. d[4 + 1] = "for" /\ d[4 + 2] = n
    BY <2>2 DEF Holds
  <2> QED BY <2>3, <2>4
<1>0. Len(d) - 1 = 5 /\ d[Len(d) - 1] = "for" /\ d[Len(d)] \in Number /\ d[Len(d)] = n
  BY <1>2
<1>3. HealedAt(d, 2)
  <2> DEFINE phrase == <<"have", "been", "healed">>
  <2>1. /\ Listed(phrase) /\ Len(phrase) = 3
        /\ phrase[1] = "have" /\ phrase[2] = "been" /\ phrase[3] = "healed"
    BY Three
  <2> HIDE DEF phrase
  <2>2. Holds(d, 1, phrase)
    <3>1. \A k \in 1..3 : d[1 + k] = phrase[k]
      <4>1. \A k \in 1..3 : k = 1 \/ k = 2 \/ k = 3
        OBVIOUS
      <4> QED BY ONLY <1>2, <2>1, <4>1
    <3> QED BY <2>1, <3>1 DEF Holds
  <2>3. 1 + Len(phrase) < Len(d) /\ d[1 + Len(phrase) + 1] \notin Mark
    <3>1. 1 + Len(phrase) + 1 = 5 /\ 1 + Len(phrase) < Len(d)
      BY ONLY <2>1, Len(d) = 6
    <3>2. "for" \notin Mark
      BY DEF Mark
    <3> QED BY <1>2, <3>1, <3>2
  <2>4. PhraseAt(d, 1 + 1, phrase)
    BY <1>1, <2>2, <2>3, HoldsPhrase
  <2> QED BY <2>4 DEF HealedAt, phrase
<1>4. Holds(d, 0, You)
  BY <1>1, <1>2 DEF Holds
<1>5. VerbPlace(d) = 2
  <2>1. d[1 + 1] = "have" /\ HealedAt(d, 1 + 1) /\ 1 + 1 <= Len(d) /\ 1 = Len(You)
    BY <1>1, <1>2, <1>3
  <2>2. VerbPlace(d) = 1 + 1
    BY <1>1, <1>4, <2>1, FirstVerb
  <2> QED BY <2>2
<1>6. ~HasTaken(d)
  <2>1. d[Len(d) - 1] # "taken"
    BY <1>0
  <2> QED BY <2>1, HaveTakenWords
<1>7. ~NonMeleeAt(d, 2)
  BY <1>2, HitByWords
<1>8. Before(d, 2) = You
  <2>1. SubSeq(d, 0 + 1, 0 + Len(You)) = You
    BY <1>1, <1>4, HoldsRun
  <2> QED BY <1>1, <2>1 DEF Before
<1>9. DamageFrom(d, 5) = Value[n]
  <2>1. 5 \in 2..(Len(d) - 1)
    BY <1>0
  <2> QED BY <1>0, <2>1, LastFor
<1>10. ParseDamage(d) =
             [type |-> "HEAL", source |-> << >>, target |-> Before(d, 2),
              verb |-> <<"have", "been", "healed">>,
              damage |-> DamageFrom(d, 2 + 3)]
  <2>1. 2 # 0 /\ 2 > 0
    OBVIOUS
  <2> QED BY ONLY <1>3, <1>5, <1>6, <1>7, <2>1 DEF ParseDamage
<1>11. DamageFrom(d, 2 + 3) = Value[n]
  BY <1>9
<1> QED BY <1>8, <1>10, <1>11 DEF Nobody

(* A text of two parts and of three. *)
Parts(g, a, b, c) ==
  /\ Listed(g) /\ Len(g) = Len(a) + Len(b) + Len(c)
  /\ Holds(g, 0, a) /\ Holds(g, Len(a), b) /\ Holds(g, Len(a) + Len(b), c)

(* Three texts joined. *)
LEMMA PartsOf ==
  ASSUME NEW a, NEW b, NEW c, Listed(a), Listed(b), Listed(c)
  PROVE  Parts(a \o b \o c, a, b, c)
<1> DEFINE h == a \o b
           g == h \o c
<1>1. Grows(h, a, b)
  BY Grown
<1>2. Listed(h)
  BY <1>1 DEF Grows
<1>3. Grows(g, h, c)
  BY <1>2, Grown
<1> HIDE DEF g, h
<1>4. Parts(g, a, b, c)
  BY <1>1, <1>3 DEF Grows, Parts
<1> QED BY <1>4 DEF g, h

(* What is parsed of a text that ends in " for " and the damage. *)
Reads(f, g, n) ==
  \E S : \E d \in Seq(S) :
    /\ Action_parse(f) = ParseDamage(d)
    /\ Len(d) = Len(g) + 2
    /\ \A k, a : Holds(g, k, a) => Holds(d, k, a)
    /\ Holds(d, 0, g)
    /\ Holds(d, Len(g), <<"for", n>>)

(* It ends in " for " and the damage, and is read up to the damage. *)
LEMMA HurtRead ==
  ASSUME NEW g, Listed(g), Len(g) > 0, NEW n, NEW p \in ThePoints
  PROVE  Reads(g \o (<<"for", n>> \o p), g, n)
<1> DEFINE for == <<"for", n>>
           h == for \o p
           f == g \o h
           m == Len(g) + 2
           d == SubSeq(f, 1, m)
<1>1. Listed(for) /\ Len(for) = 2
  BY Two
<1>2. Listed(p) /\ Len(p) = 4
  BY ThePointsAre
<1> HIDE DEF for
<1>3. Grows(h, for, p)
  BY <1>1, <1>2, Grown
<1>4. Listed(h) /\ Len(h) = 6 /\ Holds(h, 0, for) /\ Holds(h, 2, p)
  BY <1>1, <1>2, <1>3 DEF Grows
<1> HIDE DEF h
<1>5. Grows(f, g, h)
  BY <1>4, Grown
<1> HIDE DEF f
<1>6. Len(g) \in Nat /\ Listed(f) /\ Len(f) = Len(g) + 6 /\ Holds(f, Len(g), h) /\ Holds(f, 0, g)
  BY <1>4, <1>5, ListedLength DEF Grows
<1>7. Holds(f, Len(g) + 0, for) /\ Holds(f, Len(g) + 2, p)
  BY <1>4, <1>6, HoldsInner
<1>8. m \in Nat /\ m > 0 /\ Len(f) = m + 4 /\ m \in 0..Len(f) /\ Len(g) + 0 = Len(g)
  BY ONLY <1>6
<1>9. Action_parse(f) = ParseDamage(d)
  <2>1. Holds(f, m, p)
    BY <1>7
  <2> HIDE DEF m
  <2> QED BY <1>6, <1>8, <2>1, DamageRead
<1>10. Begins(d, f, m)
  <2> HIDE DEF m
  <2> QED BY <1>6, <1>8, BeginningIs
<1> HIDE DEF d
<1>11. ASSUME NEW k, NEW a, Holds(g, k, a) PROVE Holds(d, k, a)
  <2>1. Holds(f, k, a)
    BY <1>5, <1>11 DEF Grows
  <2>2. k \in Nat /\ Len(a) \in Nat /\ k + Len(a) <= Len(g)
    BY <1>11, ListedLength DEF Holds
  <2>3. k + Len(a) <= m
    BY ONLY <1>6, <2>2
  <2> QED BY <1>10, <2>1, <2>3, HoldsBegins
<1>12. Holds(d, 0, g)
  <2>1. 0 + Len(g) <= m
    BY ONLY <1>6
  <2> QED BY <1>6, <1>10, <2>1, HoldsBegins
<1>13. Holds(d, Len(g), for)
  <2>1. Len(g) + Len(for) <= m /\ Holds(f, Len(g), for)
    BY <1>1, <1>6, <1>7, <1>8
  <2> QED BY <1>10, <2>1, HoldsBegins
<1>14. Len(d) = m /\ Listed(d)
  BY <1>10 DEF Begins
<1>15. PICK S : d \in Seq(S)
  BY <1>14 DEF Listed
<1>16. Reads(f, g, n)
  <2> HIDE DEF m
  <2>1. Holds(d, Len(g), <<"for", n>>)
    BY <1>13 DEF for
  <2>2. Len(d) = Len(g) + 2
    BY <1>14 DEF m
  <2> QED BY <1>9, <1>11, <1>12, <1>15, <2>1, <2>2 DEF Reads
<1> QED BY <1>16 DEF f, h, for

(* "a clay golem slashes Player1 for 7 points of damage." *)
LEMMA MeleeMeant ==
  ASSUME NEW a \in Fighters, Plain(a), NEW b \in Fighters,
         NEW v \in DOMAIN ThirdPerson, v # "bite",
         NEW w, PutBy(a, v, w), NEW n \in Number, NEW p \in ThePoints
  PROVE  Action_parse(a \o <<w>> \o b \o (<<"for", n>> \o p)) =
           [type |-> "MELEE", source |-> a, target |-> b, verb |-> <<v>>, damage |-> Value[n]]
<1> DEFINE u == <<w>>
           g == a \o u \o b
           f == g \o (<<"for", n>> \o p)
<1>1. Listed(a) /\ Listed(b) /\ Len(a) \in Nat /\ Len(b) \in Nat /\ Len(a) > 0
  BY FighterIs
<1>2. Listed(u) /\ Len(u) = 1
  BY One
<1> HIDE DEF u
<1>3. Parts(g, a, u, b)
  BY <1>1, <1>2, PartsOf
<1> HIDE DEF g
<1>4. /\ Listed(g) /\ Len(g) = Len(a) + 1 + Len(b) /\ Len(g) > 0
      /\ Holds(g, 0, a) /\ Holds(g, Len(a), u) /\ Holds(g, Len(a) + 1, b)
  BY <1>1, <1>2, <1>3 DEF Parts
<1>5. Reads(f, g, n)
  BY <1>4, HurtRead
<1> HIDE DEF f
<1>6. PICK S : \E d \in Seq(S) :
        /\ Action_parse(f) = ParseDamage(d)
        /\ Len(d) = Len(g) + 2
        /\ \A k, r : Holds(g, k, r) => Holds(d, k, r)
        /\ Holds(d, 0, g)
        /\ Holds(d, Len(g), <<"for", n>>)
  BY <1>5 DEF Reads
<1>7. PICK d \in Seq(S) :
        /\ Action_parse(f) = ParseDamage(d)
        /\ Len(d) = Len(g) + 2
        /\ \A k, r : Holds(g, k, r) => Holds(d, k, r)
        /\ Holds(d, 0, g)
        /\ Holds(d, Len(g), <<"for", n>>)
  BY <1>6
<1>8. /\ Len(d) = Len(a) + 1 + Len(b) + 2 /\ Holds(d, 0, a) /\ Holds(d, Len(a), <<w>>)
      /\ Holds(d, Len(a) + 1, b) /\ Holds(d, Len(a) + 1 + Len(b), <<"for", n>>)
  BY <1>4, <1>7 DEF u
<1>9. ParseDamage(d) = [type |-> "MELEE", source |-> a, target |-> b, verb |-> <<v>>,
                        damage |-> Value[n]]
  BY <1>8, HitMeant
<1> QED BY <1>7, <1>9 DEF f, g, u

(* "a clay golem was hit by non-melee for 7 points of damage." *)
LEMMA SpellLineMeant ==
  ASSUME NEW a \in Fighters, Plain(a), NEW was \in {"was", "were"}, NEW n \in Number,
         NEW p \in ThePoints
  PROVE  Action_parse(a \o <<was>> \o <<"hit", "by", "non-melee">> \o (<<"for", n>> \o p)) =
           [type |-> "MAGIC", source |-> You, target |-> a, verb |-> <<"non-melee">>,
            damage |-> Value[n]]
<1> DEFINE u == <<was>>
           b == <<"hit", "by", "non-melee">>
           g == a \o u \o b
           f == g \o (<<"for", n>> \o p)
<1>1. Listed(a) /\ Len(a) \in Nat /\ Len(a) > 0
  BY FighterIs
<1>2. Listed(u) /\ Len(u) = 1 /\ Listed(b) /\ Len(b) = 3
  BY One, Three
<1> HIDE DEF u, b
<1>3. Parts(g, a, u, b)
  BY <1>1, <1>2, PartsOf
<1> HIDE DEF g
<1>4. /\ Listed(g) /\ Len(g) = Len(a) + 4 /\ Len(g) > 0
      /\ Holds(g, 0, a) /\ Holds(g, Len(a), u) /\ Holds(g, Len(a) + 1, b)
  <2>1. Len(g) = Len(a) + 4 /\ Len(g) > 0
    BY ONLY <1>1, <1>2, <1>3 DEF Parts
  <2> QED BY <1>1, <1>2, <1>3, <2>1 DEF Parts
<1>5. Reads(f, g, n)
  BY <1>4, HurtRead
<1> HIDE DEF f
<1>6. PICK S : \E d \in Seq(S) :
        /\ Action_parse(f) = ParseDamage(d)
        /\ Len(d) = Len(g) + 2
        /\ \A k, r : Holds(g, k, r) => Holds(d, k, r)
        /\ Holds(d, 0, g)
        /\ Holds(d, Len(g), <<"for", n>>)
  BY <1>5 DEF Reads
<1>7. PICK d \in Seq(S) :
        /\ Action_parse(f) = ParseDamage(d)
        /\ Len(d) = Len(g) + 2
        /\ \A k, r : Holds(g, k, r) => Holds(d, k, r)
        /\ Holds(d, 0, g)
        /\ Holds(d, Len(g), <<"for", n>>)
  BY <1>6
<1>8. /\ Holds(d, 0, a) /\ Holds(d, Len(a), <<was>>)
      /\ Holds(d, Len(a) + 1, <<"hit", "by", "non-melee">>) /\ Holds(d, Len(a) + 4, <<"for", n>>)
  BY <1>4, <1>7 DEF u, b
<1>9. Len(d) = Len(a) + 6
  BY ONLY <1>1, <1>4, <1>7
<1>10. ParseDamage(d) = [type |-> "MAGIC", source |-> You, target |-> a,
                         verb |-> <<"non-melee">>, damage |-> Value[n]]
  BY <1>8, <1>9, SpellMeant
<1> QED BY <1>7, <1>10 DEF f, g, u, b

(* "You have been healed for 7 points of damage." *)
LEMMA HealLineMeant ==
  ASSUME NEW n \in Number, NEW p \in ThePoints
  PROVE  Action_parse(<<"You", "have", "been", "healed">> \o (<<"for", n>> \o p)) =
           [type |-> "HEAL", source |-> Nobody, target |-> You,
            verb |-> <<"have", "been", "healed">>, damage |-> Value[n]]
<1> DEFINE g == <<"You", "have", "been", "healed">>
           f == g \o (<<"for", n>> \o p)
<1>1. Listed(g) /\ Len(g) = 4 /\ Len(g) > 0
  <2>1. g \in Seq({"You", "have", "been", "healed"}) /\ Len(g) = 4
    OBVIOUS
  <2> HIDE DEF g
  <2> QED BY <2>1 DEF Listed
<1> HIDE DEF g
<1>5. Reads(f, g, n)
  BY <1>1, HurtRead
<1> HIDE DEF f
<1>6. PICK S : \E d \in Seq(S) :
        /\ Action_parse(f) = ParseDamage(d)
        /\ Len(d) = Len(g) + 2
        /\ Holds(d, 0, g)
        /\ Holds(d, Len(g), <<"for", n>>)
  BY <1>5 DEF Reads
<1>7. PICK d \in Seq(S) :
        /\ Action_parse(f) = ParseDamage(d)
        /\ Len(d) = Len(g) + 2
        /\ Holds(d, 0, g)
        /\ Holds(d, Len(g), <<"for", n>>)
  BY <1>6
<1>8. /\ Len(d) = 6 /\ Holds(d, 0, <<"You", "have", "been", "healed">>)
      /\ Holds(d, 4, <<"for", n>>)
  BY <1>1, <1>7 DEF g
<1>9. ParseDamage(d) = [type |-> "HEAL", source |-> Nobody, target |-> You,
                        verb |-> <<"have", "been", "healed">>, damage |-> Value[n]]
  BY <1>8, HealMeant
<1> QED BY <1>7, <1>9 DEF f, g

(* "Your body combusts as the lava hits you. You have taken 7 points of     *)
(* damage."                                                                *)
LEMMA AreaLineMeant ==
  ASSUME NEW n \in Number, NEW p \in ThePoints
  PROVE  Action_parse(<<"Your", "body", "combusts", "as", "the", "lava", "hits", "you", ".",
                        "You", "have", "taken", n>> \o p) =
           [type |-> "MAGIC", source |-> <<"Non-melee">>, target |-> Me,
            verb |-> <<"have", "taken">>, damage |-> Value[n]]
<1> DEFINE z == <<"Your", "body", "combusts", "as", "the", "lava", "hits", "you", ".",
                  "You", "have", "taken", n>>
           W == {"Your", "body", "combusts", "as", "the", "lava", "hits", "you", ".",
                 "You", "have", "taken", n}
           f == z \o p
<1>1. z \in Seq(W)
  OBVIOUS
<1>2. Len(z) = 13
  OBVIOUS
<1>3. z[11] = "have" /\ z[12] = "taken" /\ z[13] = n
  OBVIOUS
<1>4. Listed(p) /\ Len(p) = 4
  BY ThePointsAre
<1> HIDE DEF W, z
<1>5. Listed(z)
  BY <1>1, Zenon DEF Listed
<1>6. Grows(f, z, p)
  BY <1>4, <1>5, Grown
<1> HIDE DEF f
<1>7. Listed(f) /\ Len(f) = 13 + 4 /\ Holds(f, 0, z) /\ Holds(f, 13, p)
  BY <1>2, <1>4, <1>6 DEF Grows
<1>8. Action_parse(f) = ParseDamage(SubSeq(f, 1, 13))
  <2>1. 13 \in Nat /\ 13 > 0
    OBVIOUS
  <2> QED BY <1>7, <2>1, DamageRead
<1>9. SubSeq(f, 1, 13) = z
  <2>1. SubSeq(f, 0 + 1, 0 + Len(z)) = z
    BY <1>7, HoldsRun
  <2> QED BY <1>2, <2>1
<1>10. ParseDamage(z) =
           [type |-> "MAGIC", source |-> <<"Non-melee">>, target |-> Me,
            verb |-> <<"have", "taken">>, damage |-> Value[n]]
  <2>1. Len(z) > 3 /\ z[Len(z) - 2] = "have" /\ z[Len(z) - 1] = "taken" /\ z[Len(z)] \in Number
        /\ z[Len(z)] = n
    BY <1>2, <1>3
  <2> QED BY <1>1, <2>1, AreaParsed
<1> QED BY <1>8, <1>9, <1>10 DEF f, z

(* What is shouted, word by word: only one exclamation mark, and another   *)
(* word in front of it for each.                                           *)
Shouted == [CRIT |-> "hit", CRIP |-> "Blow", HOLYBLADE |-> "target"]
Shouts(phrase, word) ==
  /\ Listed(phrase) /\ Len(phrase) \in Nat /\ Len(phrase) >= 6
  /\ phrase[Len(phrase) - 1] = "!" /\ phrase[Len(phrase) - 2] = word
  /\ \A k \in 1..Len(phrase) : phrase[k] = "!" => k = Len(phrase) - 1

(* The three phrases. *)
LEMMA AnnouncementIs ==
  ASSUME NEW t \in DOMAIN Announcement
  PROVE  Shouts(Announcement[t], Shouted[t])
<1>1. ASSUME NEW f, Listed(f), Len(f) = 6, f[1] # "!", f[2] # "!", f[3] # "!", f[4] # "!",
             f[5] = "!", f[6] # "!"
      PROVE  Shouts(f, f[4])
  <2>2. \A k \in 1..6 : k = 1 \/ k = 2 \/ k = 3 \/ k = 4 \/ k = 5 \/ k = 6
    OBVIOUS
  <2>3. \A k \in 1..6 : f[k] = "!" => k = 5
    BY ONLY <1>1, <2>2
  <2> QED BY <1>1, <2>3 DEF Shouts
<1>2. ASSUME NEW f, Listed(f), Len(f) = 8, f[1] # "!", f[2] # "!", f[3] # "!", f[4] # "!",
             f[5] # "!", f[6] # "!", f[7] = "!", f[8] # "!"
      PROVE  Shouts(f, f[6])
  <2>2. \A k \in 1..8 : k = 1 \/ k = 2 \/ k = 3 \/ k = 4 \/ k = 5 \/ k = 6 \/ k = 7 \/ k = 8
    OBVIOUS
  <2>3. \A k \in 1..8 : f[k] = "!" => k = 7
    BY ONLY <1>2, <2>2
  <2> QED BY <1>2, <2>3 DEF Shouts
<1> DEFINE x == <<"Scores", "a", "critical", "hit", "!", "(">>
           y == <<"lands", "a", "Crippling", "Blow", "!", "(">>
           z == <<"'s", "holy", "blade", "cleanses", "his", "target", "!", "(">>
<1>3. /\ x \in Seq({"Scores", "a", "critical", "hit", "!", "("}) /\ Len(x) = 6
      /\ x[1] # "!" /\ x[2] # "!" /\ x[3] # "!" /\ x[4] = "hit"
      /\ x[5] = "!" /\ x[6] # "!"
  OBVIOUS
<1>4. /\ y \in Seq({"lands", "a", "Crippling", "Blow", "!", "("}) /\ Len(y) = 6
      /\ y[1] # "!" /\ y[2] # "!" /\ y[3] # "!" /\ y[4] = "Blow"
      /\ y[5] = "!" /\ y[6] # "!"
  OBVIOUS
<1>5. /\ z \in Seq({"'s", "holy", "blade", "cleanses", "his", "target", "!", "("})
      /\ Len(z) = 8 /\ z[1] # "!" /\ z[2] # "!" /\ z[3] # "!" /\ z[4] # "!"
      /\ z[5] # "!" /\ z[6] = "target" /\ z[7] = "!" /\ z[8] # "!"
  OBVIOUS
<1> HIDE DEF x, y, z
<1>0. Listed(x) /\ Listed(y) /\ Listed(z)
  BY <1>3, <1>4, <1>5, Zenon DEF Listed
<1>6. Shouts(x, "hit")
  BY <1>0, <1>1, <1>3
<1>7. Shouts(y, "Blow")
  BY <1>0, <1>1, <1>4
<1>8. Shouts(z, "target")
  BY <1>0, <1>2, <1>5
<1>9. Announcement = [CRIT |-> x, CRIP |-> y, HOLYBLADE |-> z]
  BY DEF Announcement, x, y, z
<1>10. t \in {"CRIT", "CRIP", "HOLYBLADE"}
  BY DEF Announcement
<1> QED BY ONLY <1>6, <1>7, <1>8, <1>9, <1>10 DEF Shouted

(* An announcement is taken for what it is. *)
LEMMA Announced ==
  ASSUME NEW a \in Fighters, NEW t \in DOMAIN Announcement, NEW n \in Number,
         NEW f, Listed(f), Len(f) = Len(a) + Len(Announcement[t]) + 2,
         Holds(f, 0, a), Holds(f, Len(a), Announcement[t]),
         Holds(f, Len(a) + Len(Announcement[t]), <<n, ")">>)
  PROVE  Action_parse(f) = [type |-> t, source |-> a, target |-> Nobody, verb |-> << >>,
                            damage |-> Value[n]]
<1> DEFINE p == Len(a)
           phrase == Announcement[t]
           q == Len(phrase)
           i == p + 1
<1>1. p \in Nat /\ p > 0 /\ q \in Nat /\ q >= 6 /\ Len(f) = p + q + 2 /\ Shouts(phrase, Shouted[t])
  <2>1. p \in Nat /\ p > 0
    BY FighterIs
  <2>2. Shouts(phrase, Shouted[t])
    BY AnnouncementIs
  <2>3. q \in Nat /\ q >= 6
    BY <2>2 DEF Shouts
  <2> QED BY <2>1, <2>2, <2>3
<1>2. f[p + q + 1] = n /\ f[p + q + 2] = ")" /\ n \notin Mark
  <2>1. Len(<<n, ")">>) = 2 /\ <<n, ")">>[1] = n /\ <<n, ")">>[2] = ")"
    BY Two
  <2>2. f[(p + q) + 1] = n /\ f[(p + q) + 2] = ")"
    BY <2>1 DEF Holds
  <2> QED BY <2>2, NumberIs
<1>3. f[p + q - 1] = "!" /\ f[p + q - 2] = Shouted[t]
  <2> DEFINE j == q - 1
             k == q - 2
  <2>1. j \in 1..q /\ k \in 1..q /\ p + q - 1 = p + j /\ p + q - 2 = p + k
    BY ONLY <1>1
  <2>2. phrase[j] = "!" /\ phrase[k] = Shouted[t]
    BY <1>1 DEF Shouts
  <2> HIDE DEF j, k
  <2>3. f[p + j] = phrase[j] /\ f[p + k] = phrase[k]
    BY <2>1 DEF Holds
  <2> QED BY <2>1, <2>2, <2>3
<1>4. ASSUME NEW k \in 1..Len(f), f[k] = "!" PROVE k = p + q - 1
  <2>1. CASE k <= p
    <3>1. k \in 1..p
      BY <1>1, <2>1
    <3>2. f[0 + k] = a[k] /\ 0 + k = k
      BY <3>1 DEF Holds
    <3>3. a[k] \notin Mark
      BY <3>1, FighterIs
    <3> QED BY <1>4, <3>2, <3>3 DEF Mark
  <2>2. CASE k > p /\ k <= p + q
    <3> DEFINE j == k - p
    <3>1. j \in 1..q /\ p + j = k
      BY ONLY <1>1, <2>2, k \in 1..Len(f)
    <3> HIDE DEF j
    <3>2. f[p + j] = phrase[j]
      BY <3>1 DEF Holds
    <3>3. j = q - 1
      BY <1>1, <1>4, <3>1, <3>2 DEF Shouts
    <3> QED BY ONLY <1>1, <3>1, <3>3
  <2>3. CASE k > p + q
    <3>1. k = p + q + 1 \/ k = p + q + 2
      BY ONLY <1>1, <2>3, k \in 1..Len(f)
    <3> QED BY <1>2, <1>4, <3>1 DEF Mark
  <2> QED BY <1>1, <2>1, <2>2, <2>3
<1>5. ASSUME NEW u \in DOMAIN Announcement, NEW x \in 1..Len(f), PhraseAt(f, x, Announcement[u])
      PROVE  u = t /\ x = i
  <2> DEFINE other == Announcement[u]
             r == Len(other)
  <2>1. Shouts(other, Shouted[u])
    BY AnnouncementIs
  <2>2. r \in Nat /\ r >= 6 /\ other[r - 1] = "!" /\ other[r - 2] = Shouted[u]
    BY <2>1 DEF Shouts
  <2>3. x > 1 /\ x + r <= Len(f)
    BY <1>5, PhraseLength
  <2>4. other[r - 1] = f[x + (r - 1) - 1] /\ other[r - 2] = f[x + (r - 2) - 1]
    <3>1. r - 1 \in 1..r /\ r - 2 \in 1..r /\ x \in Int
      BY <2>2
    <3>2. \A m \in 1..Len(other) : other[m] = f[x + m - 1]
      <4>1. PhraseAt(f, x, other) /\ Len(other) \in Nat
        BY <1>5, <2>2
      <4> HIDE DEF other
      <4> QED BY <3>1, <4>1, PhraseWords
    <3> HIDE DEF other
    <3> QED BY <3>1, <3>2
  <2> HIDE DEF other
  <2> DEFINE y == x + (r - 1) - 1
  <2>5. y \in 1..Len(f) /\ x + (r - 2) - 1 = y - 1
    BY ONLY <1>1, <2>2, <2>3, x \in 1..Len(f)
  <2>6. y = p + q - 1
    BY <1>4, <2>2, <2>4, <2>5
  <2>7. Shouted[u] = Shouted[t]
    <3>1. y - 1 = p + q - 2
      BY ONLY <1>1, <2>6
    <3> HIDE DEF y
    <3> QED BY <1>3, <2>2, <2>4, <2>5, <3>1
  <2>8. u = t
    <3>1. u \in {"CRIT", "CRIP", "HOLYBLADE"} /\ t \in {"CRIT", "CRIP", "HOLYBLADE"}
      BY DEF Announcement
    <3> QED BY ONLY <2>7, <3>1 DEF Shouted
  <2>9. x = i
    <3>1. r = q
      BY <2>8 DEF other
    <3> QED BY ONLY <1>1, <2>6, <3>1, x \in 1..Len(f)
  <2> QED BY <2>8, <2>9
<1>6. PhraseAt(f, i, phrase)
  <2>1. p + q < Len(f) /\ p >= 1
    BY <1>1
  <2> HIDE DEF phrase
  <2>2. f[p + Len(phrase) + 1] \notin Mark
    BY <1>2
  <2> QED BY <2>1, <2>2, HoldsPhrase DEF phrase
<1>7. i \in 1..Len(f) /\ i \in Int
  BY ONLY <1>1
<1>8. Places(f, phrase) = {i}
  BY <1>5, <1>6, <1>7 DEF Places
<1>9. Place(f, phrase) = i
  <2>1. Min({i}) = i
    BY <1>7 DEF Min
  <2> QED BY <1>8, <2>1 DEF Place
<1>10. Announces(f, t) /\ \A u \in DOMAIN Announcement : Announces(f, u) => u = t
  BY <1>5, <1>8 DEF Announces, Has, Places
<1>11. Before(f, i) = a
  <2>1. SubSeq(f, 0 + 1, 0 + p) = a
    BY HoldsRun
  <2>2. 0 + 1 = 1 /\ 0 + p = p /\ i - 1 = p
    BY <1>1
  <2> QED BY <2>1, <2>2 DEF Before
<1>12. Between(f, i + q - 1, Len(f)) = <<n>>
  <2>1. Listed(<<n>>) /\ Len(<<n>>) = 1 /\ <<n>>[1] = n
    BY One
  <2>2. Holds(f, p + q, <<n>>)
    <3>1. p + q \in Nat /\ (p + q) + 1 <= Len(f)
      BY <1>1
    <3> QED BY <1>2, <2>1, <3>1 DEF Holds
  <2>3. SubSeq(f, (p + q) + 1, (p + q) + Len(<<n>>)) = <<n>>
    BY <2>2, HoldsRun
  <2>4. (i + q - 1) + 1 = (p + q) + 1 /\ Len(f) - 1 = (p + q) + 1
    BY ONLY <1>1
  <2> QED BY <2>1, <2>3, <2>4 DEF Between
<1>13. ToInt(<<n>>) = Value[n]
  <2>1. <<n>> # << >> /\ Len(<<n>>) = 1 /\ <<n>>[1] = n
    OBVIOUS
  <2>2. n \in DOMAIN Value
    BY NumberIs
  <2> QED BY <2>1, <2>2 DEF ToInt
<1>14. Action_parse(f) = ParseAnnouncement(f)
  <2>1. LastMark(f) = f[Len(f)]
    BY <1>1, LastMarkIs
  <2>2. LastMark(f) = ")"
    BY <1>1, <1>2, <2>1
  <2> QED BY <2>2 DEF Action_parse
<1> DEFINE type == CASE Announces(f, "CRIT") -> "CRIT"
                     [] ~Announces(f, "CRIT") /\ Announces(f, "CRIP") -> "CRIP"
                     [] OTHER -> "HOLYBLADE"
<1>15. type = t
  <2>1. t \in {"CRIT", "CRIP", "HOLYBLADE"} /\ {"CRIT", "CRIP", "HOLYBLADE"} = DOMAIN Announcement
    BY DEF Announcement
  <2> QED BY ONLY <1>10, <2>1
<1> HIDE DEF i, type
<1>16. ParseAnnouncement(f) = [Unknown EXCEPT !.type = t, !.source = Before(f, i),
              !.damage = ToInt(Between(f, i + q - 1, Len(f)))]
  BY <1>9, <1>10, <1>15 DEF ParseAnnouncement, type
<1> QED BY <1>11, <1>12, <1>13, <1>14, <1>16 DEF Unknown, Nobody

(* An announcement in the game's words. *)
LEMMA AnnouncedIn ==
  ASSUME NEW a \in Fighters, NEW t \in DOMAIN Announcement, NEW n \in Number,
         NEW z, Listed(z), Len(z) = Len(Announcement[t]) + 2,
         Holds(z, 0, Announcement[t]), Holds(z, Len(Announcement[t]), <<n, ")">>)
  PROVE  Action_parse(a \o z) = [type |-> t, source |-> a, target |-> Nobody, verb |-> << >>,
                                 damage |-> Value[n]]
<1> DEFINE f == a \o z
           phrase == Announcement[t]
<1>1. Listed(a) /\ Len(a) \in Nat
  BY FighterIs
<1>2. Len(phrase) \in Nat
  BY AnnouncementIs DEF Shouts
<1>3. Grows(f, a, z)
  BY <1>1, Grown
<1> HIDE DEF f
<1>4. Listed(f) /\ Len(f) = Len(a) + Len(z) /\ Holds(f, 0, a) /\ Holds(f, Len(a), z)
  BY <1>3 DEF Grows
<1>5. Holds(f, Len(a) + 0, phrase) /\ Holds(f, Len(a) + Len(phrase), <<n, ")">>)
  BY <1>4, HoldsInner
<1>6. Len(a) + 0 = Len(a) /\ Len(f) = Len(a) + Len(phrase) + 2
  BY ONLY <1>1, <1>2, <1>4, Len(z) = Len(phrase) + 2
<1>7. Action_parse(f) = [type |-> t, source |-> a, target |-> Nobody, verb |-> << >>,
                         damage |-> Value[n]]
  BY <1>4, <1>5, <1>6, Announced
<1> QED BY <1>7 DEF f

(* "Player1 Scores a critical hit!(7)" *)
LEMMA CritMeant ==
  ASSUME NEW a \in Fighters, NEW n \in Number
  PROVE  Action_parse(a \o <<"Scores", "a", "critical", "hit", "!", "(", n, ")">>) =
           [type |-> "CRIT", source |-> a, target |-> Nobody, verb |-> << >>,
            damage |-> Value[n]]
<1> DEFINE z == <<"Scores", "a", "critical", "hit", "!", "(", n, ")">>
           phrase == <<"Scores", "a", "critical", "hit", "!", "(">>
           tail == <<n, ")">>
<1>1. z \in Seq({"Scores", "a", "critical", "hit", "!", "(", n, ")"}) /\ Len(z) = 8
  OBVIOUS
<1>2. phrase \in Seq({"Scores", "a", "critical", "hit", "!", "("}) /\ Len(phrase) = 6
  OBVIOUS
<1>3. Listed(tail) /\ Len(tail) = 2 /\ tail[1] = n /\ tail[2] = ")"
  BY Two
<1>4. /\ z[1] = phrase[1] /\ z[2] = phrase[2] /\ z[3] = phrase[3] /\ z[4] = phrase[4]
      /\ z[5] = phrase[5] /\ z[6] = phrase[6]
  OBVIOUS
<1>5. z[7] = n /\ z[8] = ")"
  OBVIOUS
<1> HIDE DEF z, phrase, tail
<1>6. Listed(z) /\ Listed(phrase)
  BY <1>1, <1>2, Zenon DEF Listed
<1>7. "CRIT" \in DOMAIN Announcement /\ Announcement["CRIT"] = phrase
  BY DEF Announcement, phrase
<1>8. Holds(z, 0, phrase)
  <2>1. \A i \in 1..6 : 0 + i = i
    OBVIOUS
  <2>2. \A i \in 1..6 : i = 1 \/ i = 2 \/ i = 3 \/ i = 4 \/ i = 5 \/ i = 6
    OBVIOUS
  <2>3. \A i \in 1..6 : z[i] = phrase[i]
    BY ONLY <1>4, <2>2
  <2>4. \A i \in 1..6 : z[0 + i] = phrase[i]
    BY <2>1, <2>3
  <2> QED BY <1>1, <1>2, <1>6, <2>4 DEF Holds
<1>9. Holds(z, 6, tail)
  <2>1. \A i \in 1..2 : i = 1 \/ i = 2
    OBVIOUS
  <2>2. z[6 + 1] = n /\ z[6 + 2] = ")"
    BY <1>5
  <2>3. \A i \in 1..2 : z[6 + i] = tail[i]
    BY ONLY <1>3, <2>1, <2>2
  <2> QED BY <1>1, <1>3, <2>3 DEF Holds
<1>10. Action_parse(a \o z) = [type |-> "CRIT", source |-> a, target |-> Nobody,
                               verb |-> << >>, damage |-> Value[n]]
  <2> DEFINE announced == Announcement["CRIT"]
  <2>1. announced = phrase
    BY <1>7
  <2> HIDE DEF announced
  <2>2. Len(z) = Len(announced) + 2 /\ Len(announced) = 6
    <3>1. Len(announced) = 6 /\ Len(z) = 8
      BY <1>1, <1>2, <2>1, Zenon
    <3>2. 8 = 6 + 2
      OBVIOUS
    <3> QED BY <3>1, <3>2, Zenon
  <2>3. /\ Len(z) = Len(announced) + 2 /\ Holds(z, 0, announced)
        /\ Holds(z, Len(announced), <<n, ")">>)
    BY <1>8, <1>9, <2>1, <2>2, Zenon DEF tail
  <2> QED BY <1>6, <1>7, <2>3, AnnouncedIn DEF announced
<1> QED BY <1>10 DEF z

(* "Player1 lands a Crippling Blow!(7)" *)
LEMMA CripMeant ==
  ASSUME NEW a \in Fighters, NEW n \in Number
  PROVE  Action_parse(a \o <<"lands", "a", "Crippling", "Blow", "!", "(", n, ")">>) =
           [type |-> "CRIP", source |-> a, target |-> Nobody, verb |-> << >>,
            damage |-> Value[n]]
<1> DEFINE z == <<"lands", "a", "Crippling", "Blow", "!", "(", n, ")">>
           phrase == <<"lands", "a", "Crippling", "Blow", "!", "(">>
           tail == <<n, ")">>
<1>1. z \in Seq({"lands", "a", "Crippling", "Blow", "!", "(", n, ")"}) /\ Len(z) = 8
  OBVIOUS
<1>2. phrase \in Seq({"lands", "a", "Crippling", "Blow", "!", "("}) /\ Len(phrase) = 6
  OBVIOUS
<1>3. Listed(tail) /\ Len(tail) = 2 /\ tail[1] = n /\ tail[2] = ")"
  BY Two
<1>4. /\ z[1] = phrase[1] /\ z[2] = phrase[2] /\ z[3] = phrase[3] /\ z[4] = phrase[4]
      /\ z[5] = phrase[5] /\ z[6] = phrase[6]
  OBVIOUS
<1>5. z[7] = n /\ z[8] = ")"
  OBVIOUS
<1> HIDE DEF z, phrase, tail
<1>6. Listed(z) /\ Listed(phrase)
  BY <1>1, <1>2, Zenon DEF Listed
<1>7. "CRIP" \in DOMAIN Announcement /\ Announcement["CRIP"] = phrase
  BY DEF Announcement, phrase
<1>8. Holds(z, 0, phrase)
  <2>1. \A i \in 1..6 : 0 + i = i
    OBVIOUS
  <2>2. \A i \in 1..6 : i = 1 \/ i = 2 \/ i = 3 \/ i = 4 \/ i = 5 \/ i = 6
    OBVIOUS
  <2>3. \A i \in 1..6 : z[i] = phrase[i]
    BY ONLY <1>4, <2>2
  <2>4. \A i \in 1..6 : z[0 + i] = phrase[i]
    BY <2>1, <2>3
  <2> QED BY <1>1, <1>2, <1>6, <2>4 DEF Holds
<1>9. Holds(z, 6, tail)
  <2>1. \A i \in 1..2 : i = 1 \/ i = 2
    OBVIOUS
  <2>2. z[6 + 1] = n /\ z[6 + 2] = ")"
    BY <1>5
  <2>3. \A i \in 1..2 : z[6 + i] = tail[i]
    BY ONLY <1>3, <2>1, <2>2
  <2> QED BY <1>1, <1>3, <2>3 DEF Holds
<1>10. Action_parse(a \o z) = [type |-> "CRIP", source |-> a, target |-> Nobody,
                               verb |-> << >>, damage |-> Value[n]]
  <2> DEFINE announced == Announcement["CRIP"]
  <2>1. announced = phrase
    BY <1>7
  <2> HIDE DEF announced
  <2>2. Len(z) = Len(announced) + 2 /\ Len(announced) = 6
    <3>1. Len(announced) = 6 /\ Len(z) = 8
      BY <1>1, <1>2, <2>1, Zenon
    <3>2. 8 = 6 + 2
      OBVIOUS
    <3> QED BY <3>1, <3>2, Zenon
  <2>3. /\ Len(z) = Len(announced) + 2 /\ Holds(z, 0, announced)
        /\ Holds(z, Len(announced), <<n, ")">>)
    BY <1>8, <1>9, <2>1, <2>2, Zenon DEF tail
  <2> QED BY <1>6, <1>7, <2>3, AnnouncedIn DEF announced
<1> QED BY <1>10 DEF z

(* "Player1's holy blade cleanses his target!(7)" *)
LEMMA HolyBladeMeant ==
  ASSUME NEW a \in Fighters, NEW n \in Number
  PROVE  Action_parse(a \o <<"'s", "holy", "blade", "cleanses", "his", "target", "!", "(", n, ")">>) =
           [type |-> "HOLYBLADE", source |-> a, target |-> Nobody, verb |-> << >>,
            damage |-> Value[n]]
<1> DEFINE z == <<"'s", "holy", "blade", "cleanses", "his", "target", "!", "(", n, ")">>
           phrase == <<"'s", "holy", "blade", "cleanses", "his", "target", "!", "(">>
           tail == <<n, ")">>
<1>1. /\ z \in Seq({"'s", "holy", "blade", "cleanses", "his", "target", "!", "(", n, ")"})
      /\ Len(z) = 10
  OBVIOUS
<1>2. /\ phrase \in Seq({"'s", "holy", "blade", "cleanses", "his", "target", "!", "("})
      /\ Len(phrase) = 8
  OBVIOUS
<1>3. Listed(tail) /\ Len(tail) = 2 /\ tail[1] = n /\ tail[2] = ")"
  BY Two
<1>4. /\ z[1] = phrase[1] /\ z[2] = phrase[2] /\ z[3] = phrase[3] /\ z[4] = phrase[4]
      /\ z[5] = phrase[5] /\ z[6] = phrase[6] /\ z[7] = phrase[7] /\ z[8] = phrase[8]
  OBVIOUS
<1>5. z[9] = n /\ z[10] = ")"
  OBVIOUS
<1> HIDE DEF z, phrase, tail
<1>6. Listed(z) /\ Listed(phrase)
  BY <1>1, <1>2, Zenon DEF Listed
<1>7. "HOLYBLADE" \in DOMAIN Announcement /\ Announcement["HOLYBLADE"] = phrase
  BY DEF Announcement, phrase
<1>8. Holds(z, 0, phrase)
  <2>1. \A i \in 1..8 : 0 + i = i
    OBVIOUS
  <2>2. \A i \in 1..8 : i = 1 \/ i = 2 \/ i = 3 \/ i = 4 \/ i = 5 \/ i = 6 \/ i = 7 \/ i = 8
    OBVIOUS
  <2>3. \A i \in 1..8 : z[i] = phrase[i]
    BY ONLY <1>4, <2>2
  <2>4. \A i \in 1..8 : z[0 + i] = phrase[i]
    BY <2>1, <2>3
  <2> QED BY <1>1, <1>2, <1>6, <2>4 DEF Holds
<1>9. Holds(z, 8, tail)
  <2>1. \A i \in 1..2 : i = 1 \/ i = 2
    OBVIOUS
  <2>2. z[8 + 1] = n /\ z[8 + 2] = ")"
    BY <1>5
  <2>3. \A i \in 1..2 : z[8 + i] = tail[i]
    BY ONLY <1>3, <2>1, <2>2
  <2> QED BY <1>1, <1>3, <2>3 DEF Holds
<1>10. Action_parse(a \o z) = [type |-> "HOLYBLADE", source |-> a, target |-> Nobody,
                               verb |-> << >>, damage |-> Value[n]]
  <2> DEFINE announced == Announcement["HOLYBLADE"]
  <2>1. announced = phrase
    BY <1>7
  <2> HIDE DEF announced
  <2>2. Len(z) = Len(announced) + 2 /\ Len(announced) = 8
    <3>1. Len(announced) = 8 /\ Len(z) = 10
      BY <1>1, <1>2, <2>1, Zenon
    <3>2. 10 = 8 + 2
      OBVIOUS
    <3> QED BY <3>1, <3>2, Zenon
  <2>3. /\ Len(z) = Len(announced) + 2 /\ Holds(z, 0, announced)
        /\ Holds(z, Len(announced), <<n, ")">>)
    BY <1>8, <1>9, <2>1, <2>2, Zenon DEF tail
  <2> QED BY <1>6, <1>7, <2>3, AnnouncedIn DEF announced
<1> QED BY <1>10 DEF z

(* "a clay golem died." *)
LEMMA DiedMeant ==
  ASSUME NEW a \in Fighters
  PROVE  Action_parse(a \o <<"died", ".">>) =
           [type |-> "DEATH", source |-> Nobody, target |-> a, verb |-> <<"died">>, damage |-> 0]
<1> DEFINE e == <<"died", ".">>
           f == a \o e
           p == Len(a)
<1>1. Listed(a) /\ p \in Nat /\ p > 0
  BY FighterIs
<1>2. Listed(e) /\ Len(e) = 2 /\ e[1] = "died" /\ e[2] = "."
  BY Two
<1> HIDE DEF e
<1>3. Grows(f, a, e)
  BY <1>1, <1>2, Grown
<1> HIDE DEF f
<1>4. Listed(f) /\ Len(f) = p + 2 /\ Holds(f, 0, a) /\ Holds(f, p, e)
  BY <1>2, <1>3 DEF Grows
<1>5. f[Len(f) - 1] = "died" /\ f[Len(f)] = "." /\ Len(f) > 0
  <2>1. f[p + 1] = "died" /\ f[p + 2] = "."
    BY <1>2, <1>4 DEF Holds
  <2>2. Len(f) - 1 = p + 1 /\ Len(f) > 0
    BY ONLY <1>1, <1>4
  <2> QED BY <1>4, <2>1, <2>2
<1>6. EndsWith(f, e) /\ Without(f, e) = SubSeq(f, 1, p)
  BY <1>1, <1>2, <1>4, HoldsEnd
<1>7. SubSeq(f, 1, p) = a
  <2>1. SubSeq(f, 0 + 1, 0 + p) = a
    BY <1>4, HoldsRun
  <2>2. 0 + 1 = 1 /\ 0 + p = p
    BY <1>1
  <2> QED BY <2>1, <2>2
<1>8. ~EndsWith(f, PointsOfDamage) /\ ~EndsWith(f, PointOfDamage)
  <2>1. f[Len(f) - 1] # "damage"
    BY <1>5
  <2> QED BY <1>4, <2>1, NoDamage
<1>9. Action_parse(f) = ParseStatement(f)
  BY <1>4, <1>5, StatementParsed
<1>10. ParseStatement(f) = [Unknown EXCEPT !.type = "DEATH", !.verb = <<"died">>,
                                          !.target = a]
  <2>1. EndsWith(f, <<"died", ".">>) /\ Without(f, <<"died", ".">>) = a
    BY <1>6, <1>7 DEF e
  <2> QED BY ONLY <1>8, <2>1 DEF ParseStatement
<1> QED BY <1>9, <1>10 DEF Unknown, Nobody, f, e

(* The first place of a phrase that is at no other in front of it. *)
LEMMA FirstPlace ==
  ASSUME NEW f, Listed(f), NEW phrase, NEW i \in 1..Len(f), PhraseAt(f, i, phrase),
         \A j \in 1..Len(f) : PhraseAt(f, j, phrase) => j >= i
  PROVE  Has(f, phrase) /\ Place(f, phrase) = i
<1> DEFINE P == Places(f, phrase)
<1>1. i \in P /\ P \in SUBSET (1..Len(f)) /\ Len(f) \in Nat /\ P # {}
  BY ListedLength DEF Places
<1>2. \A j \in P : j >= i
  BY DEF Places
<1>3. Place(f, phrase) = Min(P)
  BY <1>1 DEF Place
<1> HIDE DEF P
<1>4. Min(P) \in P /\ \A j \in P : Min(P) <= j
  BY <1>1, LeastPlace
<1> DEFINE least == Min(P)
<1>5. least \in P /\ least <= i
  BY <1>1, <1>4
<1> HIDE DEF least
<1>6. least \in 1..Len(f) /\ least >= i
  BY <1>1, <1>2, <1>5
<1>7. least = i
  BY ONLY <1>1, <1>5, <1>6, i \in 1..Len(f)
<1> QED BY <1>1, <1>3, <1>7 DEF least, P, Has

(* "You have slain a clay golem!" *)
LEMMA SlewMeant ==
  ASSUME NEW b \in Fighters
  PROVE  Action_parse(<<"You", "have", "slain">> \o b \o <<"!">>) =
           [type |-> "DEATH", source |-> You, target |-> b, verb |-> <<"have", "slain">>,
            damage |-> 0]
<1> DEFINE a == <<"You", "have", "slain">>
           z == <<"!">>
           f == a \o b \o z
           q == Len(b)
<1>0. KillText(f)
  BY SlewText
<1>1. Listed(b) /\ q \in Nat /\ q > 0 /\ b[1] \notin Mark
  <2>1. Listed(b) /\ q \in Nat /\ q > 0 /\ \A k \in 1..q : b[k] \notin Mark
    BY FighterIs
  <2>2. 1 \in 1..q
    BY ONLY <2>1
  <2> QED BY ONLY <2>1, <2>2
<1>2. /\ Listed(a) /\ Len(a) = 3 /\ a[1] = "You" /\ a[2] = "have" /\ a[3] = "slain"
      /\ Listed(z) /\ Len(z) = 1 /\ z[1] = "!"
  BY One, Three
<1> HIDE DEF a, z
<1>3. Parts(f, a, b, z)
  BY <1>1, <1>2, PartsOf
<1> HIDE DEF f
<1>4. /\ Listed(f) /\ Len(f) = q + 4 /\ Holds(f, 0, a) /\ Holds(f, 3, b)
  <2>1. Len(f) = q + 4
    BY ONLY <1>1, <1>2, <1>3 DEF Parts
  <2> QED BY <1>2, <1>3, <2>1 DEF Parts
<1>5. f[1] = "You" /\ f[2] = "have" /\ f[3] = "slain" /\ f[4] = b[1]
  <2>1. f[0 + 1] = "You" /\ f[0 + 2] = "have" /\ f[0 + 3] = "slain"
    BY <1>2, <1>4 DEF Holds
  <2>2. 1 \in 1..q
    BY ONLY <1>1
  <2>3. f[3 + 1] = b[1]
    BY <1>4, <2>2 DEF Holds
  <2> QED BY <2>1, <2>3
<1>6. Tries(f) = 0 /\ Action_parse(f) = ParseExclamation(f)
  <2>1. Len(f) > 0 /\ f[Len(f)] = "!" /\ Free(f, TryPairs)
    BY <1>0 DEF KillText
  <2>2. ~Has(f, <<"try", "to">>) /\ ~Has(f, <<"tries", "to">>)
    <3>1. <<"try", "to">> \in TryPairs /\ <<"tries", "to">> \in TryPairs
      BY DEF TryPairs
    <3> QED BY <1>4, <2>1, <3>1, NoPhrase
  <2>3. Tries(f) = 0
    BY <2>2 DEF Tries, Place, Has
  <2> QED BY <1>4, <2>1, <2>3, ExclamationParsed
<1>7. Has(f, <<"have", "slain">>) /\ Place(f, <<"have", "slain">>) = 2
  <2> DEFINE phrase == <<"have", "slain">>
  <2>1. PhraseAt(f, 2, phrase)
    <3>1. PICK S : f \in Seq(S)
      BY <1>4 DEF Listed
    <3>2. 2 + 2 <= Len(f) /\ f[2 + 2] \notin Mark
      BY <1>1, <1>4, <1>5
    <3>3. PhraseAt(f, 2, <<f[2], f[2 + 1]>>)
      BY <3>1, <3>2, TwoWordsFit
    <3>4. f[2] = "have" /\ f[2 + 1] = "slain"
      BY <1>5
    <3> QED BY <3>3, <3>4
  <2> HIDE DEF phrase
  <2>2. ASSUME NEW j \in 1..Len(f), PhraseAt(f, j, phrase) PROVE j >= 2
    BY <2>2, PhraseLength
  <2>3. 2 \in 1..Len(f)
    BY <1>1, <1>4
  <2>4. Has(f, phrase) /\ Place(f, phrase) = 2
    BY <1>4, <2>1, <2>2, <2>3, FirstPlace
  <2> QED BY <2>4 DEF phrase
<1>8. Before(f, 2) = You
  <2>1. Listed(You) /\ Len(You) = 1 /\ You[1] = "You"
    BY One DEF You
  <2>2. Holds(f, 0, You)
    BY <1>1, <1>4, <1>5, <2>1 DEF Holds
  <2>3. SubSeq(f, 0 + 1, 0 + Len(You)) = You
    BY <1>4, <2>2, HoldsRun
  <2> QED BY <2>1, <2>3 DEF Before
<1>9. Between(f, 3, Len(f)) = b
  <2>1. SubSeq(f, 3 + 1, 3 + q) = b
    BY <1>4, HoldsRun
  <2>2. Len(f) - 1 = 3 + q
    BY ONLY <1>1, <1>4
  <2> QED BY <2>1, <2>2 DEF Between
<1>10. ParseSlain(f) = [Unknown EXCEPT !.type = "DEATH", !.verb = <<"have", "slain">>,
         !.source = You, !.target = b]
  <2>1. Between(f, 2 + 1, Len(f)) = b
    BY <1>9
  <2> QED BY <1>7, <1>8, <2>1 DEF ParseSlain
<1>11. ParseExclamation(f) = ParseSlain(f)
  BY <1>6, <1>7 DEF ParseExclamation
<1> QED BY <1>6, <1>10, <1>11 DEF Unknown, f, a, z

(* Two neighbours that are a pair of a fighter's name are in none of what  *)
(* the parser looks for.                                                   *)
LEMMA NoPairWithin ==
  ASSUME NEW f, NEW k, NEW a \in Fighters, Holds(f, k, a),
         NEW j \in Nat, k < j, j < k + Len(a)
  PROVE  <<f[j], f[j + 1]>> \notin Pairs
<1> DEFINE i == j - k
<1>1. k \in Nat /\ Len(a) \in Nat
  BY FighterIs DEF Holds
<1>2. /\ i \in 1..(Len(a) - 1) /\ i \in 1..Len(a) /\ i + 1 \in 1..Len(a) /\ k + i = j
      /\ k + (i + 1) = j + 1
  BY ONLY <1>1, j \in Nat, k < j, j < k + Len(a)
<1> HIDE DEF i
<1>3. f[k + i] = a[i] /\ f[k + (i + 1)] = a[i + 1]
  BY <1>2 DEF Holds
<1>4. <<a[i], a[i + 1]>> \notin Pairs
  BY <1>2, FighterIs
<1> QED BY <1>2, <1>3, <1>4

(* "a clay golem has been slain by Player1!" *)
IsSlain(f, b, has, a) ==
  /\ Listed(f) /\ Len(f) = Len(b) + Len(a) + 5
  /\ Holds(f, 0, b) /\ Holds(f, Len(b) + 4, a)
  /\ f[Len(b) + 1] = has /\ f[Len(b) + 2] = "been" /\ f[Len(b) + 3] = "slain"
  /\ f[Len(b) + 4] = "by" /\ f[Len(f)] = "!"

(* Its words. *)
LEMMA SlainIs ==
  ASSUME NEW a \in Fighters, NEW b \in Fighters, NEW has
  PROVE  IsSlain(b \o <<has>> \o <<"been", "slain", "by">> \o a \o <<"!">>, b, has, a)
<1> DEFINE u == <<has>>
           t == <<"been", "slain", "by">>
           z == <<"!">>
           h == b \o u \o t
           g == h \o a
           f == g \o z
           q == Len(b)
           p == Len(a)
<1>1. Listed(a) /\ Listed(b) /\ p \in Nat /\ p > 0 /\ q \in Nat /\ q > 0
  BY FighterIs
<1>2. /\ Listed(u) /\ Len(u) = 1 /\ u[1] = has /\ Listed(z) /\ Len(z) = 1 /\ z[1] = "!"
      /\ Listed(t) /\ Len(t) = 3 /\ t[1] = "been" /\ t[2] = "slain" /\ t[3] = "by"
  BY One, Three
<1> HIDE DEF u, t, z
<1>3. Parts(h, b, u, t)
  BY <1>1, <1>2, PartsOf
<1> HIDE DEF h
<1>4. Listed(h) /\ Len(h) = q + 4 /\ Holds(h, 0, b) /\ Holds(h, q, u) /\ Holds(h, q + 1, t)
  <2>1. Len(h) = q + 4
    BY ONLY <1>1, <1>2, <1>3 DEF Parts
  <2> QED BY <1>2, <1>3, <2>1 DEF Parts
<1>5. Grows(g, h, a)
  BY <1>1, <1>4, Grown
<1> HIDE DEF g
<1>6. /\ Listed(g) /\ Len(g) = q + 4 + p /\ Holds(g, 0, b) /\ Holds(g, q, u) /\ Holds(g, q + 1, t)
      /\ Holds(g, q + 4, a)
  BY <1>4, <1>5 DEF Grows
<1>7. Grows(f, g, z)
  BY <1>2, <1>6, Grown
<1> HIDE DEF f
<1>8. /\ Listed(f) /\ Len(f) = q + 4 + p + 1 /\ Holds(f, 0, b) /\ Holds(f, q, u)
      /\ Holds(f, q + 1, t) /\ Holds(f, q + 4, a) /\ Holds(f, q + 4 + p, z)
  BY <1>2, <1>6, <1>7 DEF Grows
<1>9. f[q + 1] = has /\ f[(q + 1) + 1] = "been" /\ f[(q + 1) + 2] = "slain" /\ f[(q + 1) + 3] = "by"
      /\ f[(q + 4 + p) + 1] = "!"
  BY <1>2, <1>8 DEF Holds
<1>10. (q + 1) + 1 = q + 2 /\ (q + 1) + 2 = q + 3 /\ (q + 1) + 3 = q + 4
       /\ Len(f) = q + p + 5 /\ (q + 4 + p) + 1 = Len(f)
  BY ONLY <1>1, <1>8
<1>11. IsSlain(f, b, has, a)
  BY <1>8, <1>9, <1>10 DEF IsSlain
<1> QED BY <1>11 DEF f, g, h, u, t, z

(* Where "been slain" is. *)
LEMMA SlainOnce ==
  ASSUME NEW a \in Fighters, NEW b \in Fighters, NEW has \in {"have", "has"},
         NEW f, IsSlain(f, b, has, a), NEW k \in 1..(Len(f) - 1), <<f[k], f[k + 1]>> \in Pairs
  PROVE  k = Len(b) + 2
<1> DEFINE q == Len(b)
           p == Len(a)
<1>1. p \in Nat /\ p > 0 /\ q \in Nat /\ q > 0 /\ Len(f) = q + p + 5
  BY FighterIs DEF IsSlain
<1>2. Holds(f, 0, b) /\ Holds(f, q + 4, a)
      /\ f[q + 1] = has /\ f[q + 2] = "been" /\ f[q + 3] = "slain"
      /\ f[q + 4] = "by" /\ f[Len(f)] = "!"
  BY DEF IsSlain
<1>3. f[k + 1] \in {"to", "slain"} /\ f[k] \in {"try", "tries", "have", "been"}
      /\ (f[k] \in {"try", "tries"} => f[k + 1] = "to")
  BY DEF Pairs
<1>4. ~(k < q)
  <2>1. SUFFICES ASSUME k < q PROVE FALSE
    OBVIOUS
  <2>2. k \in Nat /\ 0 < k /\ k < 0 + q
    BY ONLY <1>1, <2>1, k \in 1..(Len(f) - 1)
  <2> QED BY <1>2, <2>2, NoPairWithin
<1>5. k # q
  <2>1. ASSUME k = q PROVE f[k + 1] = has
    BY <1>2, <2>1
  <2> QED BY <1>3, <2>1
<1>6. k # q + 1
  <2>1. ASSUME k = q + 1 PROVE f[k + 1] = "been"
    <3>1. k + 1 = q + 2
      BY <1>1, <2>1
    <3> QED BY <1>2, <3>1
  <2> QED BY <1>3, <2>1
<1>7. k # q + 3 /\ k # q + 4
  BY <1>2, <1>3
<1>8. ~(q + 4 < k /\ k < q + 4 + p)
  <2>1. SUFFICES ASSUME q + 4 < k, k < (q + 4) + p PROVE FALSE
    OBVIOUS
  <2>2. k \in Nat
    BY ONLY <1>1, k \in 1..(Len(f) - 1)
  <2> QED BY <1>2, <2>1, <2>2, NoPairWithin
<1>9. k + 1 # Len(f)
  BY <1>2, <1>3
<1> QED BY ONLY <1>1, <1>4, <1>5, <1>6, <1>7, <1>8, <1>9, k \in 1..(Len(f) - 1)

(* The passive is found where it is, and nothing else is. *)
LEMMA SlainByMeant ==
  ASSUME NEW a \in Fighters, NEW b \in Fighters, NEW has \in {"have", "has"},
         NEW f, IsSlain(f, b, has, a)
  PROVE  Action_parse(f) = [type |-> "DEATH", source |-> a, target |-> b,
                            verb |-> <<has, "been", "slain", "by">>, damage |-> 0]
<1> DEFINE q == Len(b)
           p == Len(a)
           i == q + 1
           By(w) == <<w, "been", "slain", "by">>
<1>1. /\ p \in Nat /\ p > 0 /\ q \in Nat /\ q > 0 /\ Len(f) = q + p + 5 /\ Listed(f)
      /\ a[1] \notin Mark
  <2>1. p \in Nat /\ p > 0 /\ \A k \in 1..p : a[k] \notin Mark
    BY FighterIs
  <2>2. 1 \in 1..p
    BY ONLY <2>1
  <2> QED BY <2>1, <2>2, FighterIs DEF IsSlain
<1>2. Holds(f, 0, b) /\ Holds(f, q + 4, a)
      /\ f[q + 1] = has /\ f[q + 2] = "been" /\ f[q + 3] = "slain"
      /\ f[q + 4] = "by" /\ f[Len(f)] = "!"
  BY DEF IsSlain
<1>3. ASSUME NEW x, NEW y, <<x, y>> \in Pairs \ {<<"been", "slain">>} PROVE ~Has(f, <<x, y>>)
  <2> DEFINE P == Pairs \ {<<"been", "slain">>}
  <2>1. ASSUME NEW k \in 1..(Len(f) - 1) PROVE <<f[k], f[k + 1]>> \notin P
    <3>1. SUFFICES ASSUME <<f[k], f[k + 1]>> \in P PROVE FALSE
      OBVIOUS
    <3>2. k = q + 2
      BY <3>1, SlainOnce
    <3>3. k + 1 = q + 3
      BY <1>1, <3>2
    <3> QED BY <1>2, <3>1, <3>2, <3>3
  <2>2. Free(f, P)
    BY <2>1 DEF Free
  <2> HIDE DEF P
  <2>3. <<x, y>> \in P
    BY <1>3 DEF P
  <2> QED BY <1>1, <2>2, <2>3, NoPhrase
<1>4. ~Has(f, <<"try", "to">>) /\ ~Has(f, <<"tries", "to">>) /\ ~Has(f, <<"have", "slain">>)
  <2>1. \A x \in {<<"try", "to">>, <<"tries", "to">>, <<"have", "slain">>} :
          x \in Pairs \ {<<"been", "slain">>}
    BY DEF Pairs
  <2> QED BY <1>3, <2>1
<1>5. Tries(f) = 0
  BY <1>4 DEF Tries, Place, Has
<1>6. Action_parse(f) = ParseExclamation(f)
  <2>1. Len(f) > 0
    BY <1>1
  <2> QED BY <1>1, <1>2, <2>1, ExclamationParsed
<1>7. ASSUME NEW w, NEW j \in 1..Len(f), PhraseAt(f, j, By(w)) PROVE j = i /\ w = has
  <2> DEFINE phrase == By(w)
  <2>1. Len(phrase) = 4 /\ phrase[1] = w /\ phrase[2] = "been" /\ phrase[3] = "slain"
    OBVIOUS
  <2> HIDE DEF phrase
  <2>2. PhraseAt(f, j, phrase)
    BY <1>7 DEF phrase
  <2> HIDE DEF By
  <2>3. Len(phrase) \in Nat /\ Len(phrase) >= 1 /\ Len(phrase) >= 2 /\ Len(phrase) >= 3 /\ j \in Int
    BY <2>1
  <2>4. f[j] = phrase[1] /\ f[j + 1] = phrase[2] /\ f[j + 2] = phrase[3]
    <3>1. f[j] = phrase[1]
      BY <2>2, <2>3, PhraseFirst, Zenon
    <3>2. f[j + 1] = phrase[2]
      BY <2>2, <2>3, PhraseSecond, Zenon
    <3>3. f[j + 2] = phrase[3]
      BY <2>2, <2>3, PhraseThird, Zenon
    <3> QED BY <3>1, <3>2, <3>3
  <2>5. j > 1 /\ j + 4 <= Len(f)
    BY <2>1, <2>2, PhraseLength
  <2> DEFINE k == j + 1
  <2>6. k \in 1..(Len(f) - 1) /\ k + 1 = j + 2
    BY ONLY <1>1, <2>5, j \in 1..Len(f)
  <2>7. <<f[k], f[k + 1]>> \in Pairs
    <3>1. f[k] = "been" /\ f[k + 1] = "slain"
      BY <2>1, <2>4, <2>6
    <3> HIDE DEF k
    <3> QED BY <3>1 DEF Pairs
  <2>8. k = q + 2
    <3> HIDE DEF k
    <3> QED BY <2>6, <2>7, SlainOnce
  <2>9. j = q + 1
    BY ONLY <1>1, <2>8, j \in 1..Len(f)
  <2> QED BY <1>2, <2>1, <2>4, <2>9
<1>8. Has(f, By(has)) /\ Place(f, By(has)) = i
  <2> DEFINE phrase == By(has)
  <2>1. /\ phrase \in Seq({has, "been", "slain", "by"})
        /\ Len(phrase) = 4 /\ phrase[1] = has /\ phrase[2] = "been" /\ phrase[3] = "slain"
        /\ phrase[4] = "by"
    OBVIOUS
  <2> HIDE DEF phrase
  <2>2. Listed(phrase)
    BY <2>1, Zenon DEF Listed
  <2>3. Holds(f, q, phrase)
    <3>1. \A k \in 1..4 : k = 1 \/ k = 2 \/ k = 3 \/ k = 4
      OBVIOUS
    <3>2. \A k \in 1..4 : f[q + k] = phrase[k]
      BY ONLY <1>2, <2>1, <3>1
    <3>3. q + 4 <= Len(f)
      BY <1>1
    <3> QED BY <1>1, <2>1, <2>2, <3>2, <3>3 DEF Holds
  <2>4. PhraseAt(f, q + 1, phrase)
    <3>1. f[q + 5] = a[1]
      <4>1. 1 \in 1..p
        BY ONLY <1>1
      <4>2. f[(q + 4) + 1] = a[1]
        BY <1>2, <4>1 DEF Holds
      <4>3. (q + 4) + 1 = q + 5
        BY <1>1
      <4> QED BY <4>2, <4>3
    <3>2. q >= 1 /\ q + Len(phrase) < Len(f) /\ q + Len(phrase) + 1 = q + 5
      BY ONLY <1>1, <2>1
    <3> QED BY <1>1, <2>3, <3>1, <3>2, HoldsPhrase
  <2>5. i \in 1..Len(f) /\ i \in Int
    BY ONLY <1>1
  <2>6. \A j \in 1..Len(f) : PhraseAt(f, j, phrase) => j >= i
    BY <1>7, <2>5 DEF phrase
  <2>7. Has(f, phrase) /\ Place(f, phrase) = i
    <3> HIDE DEF By
    <3>1. PhraseAt(f, i, phrase)
      BY <2>4
    <3> HIDE DEF i
    <3> QED BY <1>1, <2>5, <2>6, <3>1, FirstPlace
  <2> QED BY <2>7 DEF phrase
<1>9. ASSUME NEW w, w # has PROVE ~Has(f, By(w))
  BY <1>7, <1>9 DEF Has, Places
<1>10. Before(f, i) = b
  <2>1. SubSeq(f, 0 + 1, 0 + q) = b
    BY <1>1, <1>2, HoldsRun
  <2>2. 0 + 1 = 1 /\ 0 + q = q /\ i - 1 = q
    BY <1>1
  <2> QED BY <2>1, <2>2 DEF Before
<1>11. Between(f, i + 4 - 1, Len(f)) = a
  <2>1. SubSeq(f, (q + 4) + 1, (q + 4) + p) = a
    BY <1>1, <1>2, HoldsRun
  <2>2. (i + 4 - 1) + 1 = (q + 4) + 1 /\ Len(f) - 1 = (q + 4) + p
    BY ONLY <1>1
  <2> QED BY <2>1, <2>2 DEF Between
<1>12. ParseSlainBy(f, By(has)) = [Unknown EXCEPT !.type = "DEATH", !.verb = By(has),
         !.target = b, !.source = a]
  <2>1. Len(By(has)) = 4
    OBVIOUS
  <2> HIDE DEF By, i
  <2> QED BY <1>8, <1>10, <1>11, <2>1 DEF ParseSlainBy
<1>13. ParseExclamation(f) = ParseSlainBy(f, By(has))
  <2>1. CASE has = "has"
    <3>1. Has(f, HasBeenSlainBy)
      BY <1>8, <2>1 DEF HasBeenSlainBy
    <3> QED BY <1>4, <1>5, <2>1, <3>1 DEF ParseExclamation, HasBeenSlainBy
  <2>2. CASE has = "have"
    <3>1. Has(f, HaveBeenSlainBy)
      BY <1>8, <2>2 DEF HaveBeenSlainBy
    <3>2. ~Has(f, HasBeenSlainBy)
      BY <1>9, <2>2 DEF HasBeenSlainBy
    <3>3. By(has) = HaveBeenSlainBy
      BY <2>2 DEF HaveBeenSlainBy
    <3> HIDE DEF By
    <3> QED BY ONLY <1>4, <1>5, <3>1, <3>2, <3>3 DEF ParseExclamation
  <2> QED BY <2>1, <2>2
<1> QED BY <1>6, <1>12, <1>13 DEF Unknown

(* A try is told in front of its ", but". *)
IsTry(f, a, tries, verb, b) ==
  /\ Listed(f) /\ Len(f) \in Nat
  /\ Holds(f, 0, a) /\ Holds(f, Len(a), <<tries>>) /\ Holds(f, Len(a) + 1, <<"to", verb>>)
  /\ Holds(f, Len(a) + 3, b) /\ Holds(f, Len(a) + Len(b) + 3, <<",", "but">>)

(* Its words, and how many. *)
LEMMA TriedHolds ==
  ASSUME NEW a \in Fighters, NEW b \in Fighters, NEW tries, NEW verb
  PROVE  LET f == TriedText(a, tries, verb, b)
         IN  IsTry(f, a, tries, verb, b) /\ Len(f) = Len(a) + Len(b) + 5
<1> DEFINE u == <<tries>>
           t == <<"to", verb>>
           z == <<",", "but">>
           h == a \o u \o t
           g == h \o b
           f == g \o z
           q == Len(b)
           p == Len(a)
<1>1. Listed(a) /\ Listed(b) /\ p \in Nat /\ p > 0 /\ q \in Nat /\ q > 0
  BY FighterIs
<1>2. Listed(u) /\ Len(u) = 1 /\ Listed(t) /\ Len(t) = 2 /\ Listed(z) /\ Len(z) = 2
  BY One, Two
<1> HIDE DEF u, t, z
<1>3. Parts(h, a, u, t)
  BY <1>1, <1>2, PartsOf
<1> HIDE DEF h
<1>4. Listed(h) /\ Len(h) = p + 3 /\ Holds(h, 0, a) /\ Holds(h, p, u) /\ Holds(h, p + 1, t)
  <2>1. Len(h) = p + 3
    BY ONLY <1>1, <1>2, <1>3 DEF Parts
  <2> QED BY <1>2, <1>3, <2>1 DEF Parts
<1>5. Grows(g, h, b)
  BY <1>1, <1>4, Grown
<1> HIDE DEF g
<1>6. /\ Listed(g) /\ Len(g) = p + q + 3 /\ Holds(g, 0, a) /\ Holds(g, p, u) /\ Holds(g, p + 1, t)
      /\ Holds(g, p + 3, b)
  <2>1. Len(g) = p + q + 3
    BY ONLY <1>1, <1>4, <1>5 DEF Grows
  <2> QED BY <1>4, <1>5, <2>1 DEF Grows
<1>7. Grows(f, g, z)
  BY <1>2, <1>6, Grown
<1> HIDE DEF f
<1>8. /\ Listed(f) /\ Holds(f, 0, a) /\ Holds(f, p, u)
      /\ Holds(f, p + 1, t) /\ Holds(f, p + 3, b) /\ Holds(f, p + q + 3, z)
  BY <1>6, <1>7 DEF Grows
<1>9. Len(f) = p + q + 5 /\ Len(f) \in Nat
  <2>1. Len(f) = p + q + 5
    BY ONLY <1>1, <1>2, <1>6, <1>7 DEF Grows
  <2> QED BY ONLY <1>1, <2>1
<1>10. IsTry(f, a, tries, verb, b)
  BY <1>8, <1>9 DEF IsTry, u, t, z
<1>11. f = TriedText(a, tries, verb, b)
  BY DEF TriedText, f, g, h, u, t, z
<1> QED BY <1>9, <1>10, <1>11

(* What follows leaves it as it is. *)
LEMMA TryKept ==
  ASSUME NEW f, NEW a, NEW tries, NEW verb, NEW b, IsTry(f, a, tries, verb, b), NEW c, Listed(c)
  PROVE  IsTry(f \o c, a, tries, verb, b)
<1> DEFINE g == f \o c
<1>1. Listed(f)
  BY DEF IsTry
<1>2. Grows(g, f, c)
  BY <1>1, Grown
<1> HIDE DEF g
<1>3. Listed(g) /\ Len(g) \in Nat
  BY <1>2, ListedLength DEF Grows
<1>4. \A k, r : Holds(f, k, r) => Holds(g, k, r)
  BY <1>2 DEF Grows
<1>5. IsTry(g, a, tries, verb, b)
  BY <1>3, <1>4 DEF IsTry
<1> QED BY <1>5 DEF g

(* What the parser makes of a try. *)
LEMMA TryMeant ==
  ASSUME NEW a \in Fighters, NEW b \in Fighters, NEW tries \in {"try", "tries"},
         NEW verb, verb \notin Mark, verb \notin {"to", "try", "tries"},
         NEW f, IsTry(f, a, tries, verb, b), TryText(f), NEW t, Evaded(f) = {t}
  PROVE  Action_parse(f) = [type |-> t, source |-> a, target |-> b, verb |-> <<verb>>, damage |-> 0]
<1> DEFINE q == Len(b)
           p == Len(a)
           i == p + 1
           c == p + q + 4
           To(w) == <<w, "to">>
<1>1. p \in Nat /\ p > 0 /\ q \in Nat /\ q > 0 /\ Listed(f) /\ Len(f) \in Nat
  <2>1. Listed(f) /\ Len(f) \in Nat
    BY DEF IsTry
  <2>2. Len(a) \in Nat \ {0} /\ Len(b) \in Nat \ {0}
    BY FighterIs
  <2> QED BY ONLY <2>1, <2>2
<1>2. Holds(f, 0, a) /\ Holds(f, p, <<tries>>) /\ Holds(f, p + 1, <<"to", verb>>)
      /\ Holds(f, p + 3, b) /\ Holds(f, p + q + 3, <<",", "but">>)
  BY DEF IsTry
<1>3. f[p + 1] = tries /\ f[p + 2] = "to" /\ f[p + 3] = verb /\ f[c] = ","
  <2> DEFINE u == <<tries>>
             t2 == <<"to", verb>>
             z == <<",", "but">>
  <2>1. /\ Len(u) = 1 /\ u[1] = tries /\ Len(t2) = 2 /\ t2[1] = "to" /\ t2[2] = verb
        /\ Len(z) = 2 /\ z[1] = ","
    BY One, Two
  <2>2. Holds(f, p, u) /\ Holds(f, p + 1, t2) /\ Holds(f, p + q + 3, z)
    BY <1>2
  <2> HIDE DEF u, t2, z
  <2>3. /\ f[p + 1] = tries /\ f[(p + 1) + 1] = "to" /\ f[(p + 1) + 2] = verb
        /\ f[(p + q + 3) + 1] = ","
    <3>0. Len(u) = 1 /\ Len(t2) = 2 /\ Len(z) = 2
      BY <2>1
    <3>1. 1 \in 1..Len(u) /\ 1 \in 1..Len(t2) /\ 2 \in 1..Len(t2) /\ 1 \in 1..Len(z)
      BY ONLY <3>0
    <3>2. f[p + 1] = u[1]
      BY ONLY <2>2, <3>1, HoldsWord
    <3>3. f[(p + 1) + 1] = t2[1] /\ f[(p + 1) + 2] = t2[2]
      BY ONLY <2>2, <3>1, HoldsWord
    <3>4. f[(p + q + 3) + 1] = z[1]
      BY ONLY <2>2, <3>1, HoldsWord
    <3> QED BY ONLY <2>1, <3>2, <3>3, <3>4
  <2>4. (p + 1) + 1 = p + 2 /\ (p + 1) + 2 = p + 3 /\ (p + q + 3) + 1 = c
    BY ONLY <1>1
  <2> QED BY <2>3, <2>4
<1>0. p + q + 5 <= Len(f)
  <2> DEFINE z == <<",", "but">>
  <2>1. Len(z) = 2
    BY Two
  <2>2. Holds(f, p + q + 3, z)
    BY <1>2
  <2> HIDE DEF z
  <2>3. (p + q + 3) + Len(z) <= Len(f)
    BY <2>2 DEF Holds
  <2> QED BY ONLY <1>1, <2>1, <2>3
<1>4. /\ f[Len(f)] = "!" /\ f[c + 1] = "but" /\ c \in 1..Len(f)
      /\ c + 2 <= Len(f) /\ f[c + 2] \notin Mark
      /\ \A k \in 1..Len(f) : f[k] = "," => k = c
      /\ \A k \in 1..(Len(f) - 1) : <<f[k], f[k + 1]>> \in TryPairs => k + 3 < c
  <2>1. c \in 1..Len(f)
    BY ONLY <1>0, <1>1
  <2> HIDE DEF c
  <2>2. PICK comma \in 1..Len(f) :
       /\ f[comma] = "," /\ f[comma + 1] = "but" /\ comma + 2 <= Len(f) /\ f[comma + 2] \notin Mark
       /\ \A k \in 1..Len(f) : f[k] = "," => k = comma
       /\ \A k \in 1..(Len(f) - 1) : <<f[k], f[k + 1]>> \in TryPairs => k + 3 < comma
    BY DEF TryText
  <2>3. comma = c
    BY <1>3, <2>1, <2>2
  <2> QED BY <2>1, <2>2, <2>3 DEF TryText
<1>5. ASSUME NEW k \in 1..(Len(f) - 1), <<f[k], f[k + 1]>> \in TryPairs PROVE k = i
  <2>1. f[k] \in {"try", "tries"} /\ f[k + 1] = "to" /\ <<f[k], f[k + 1]>> \in Pairs
    BY <1>5 DEF TryPairs, Pairs
  <2>2. k + 3 < c
    BY <1>4, <1>5
  <2>3. ~(k < p)
    <3>1. SUFFICES ASSUME k < p PROVE FALSE
      OBVIOUS
    <3>2. k \in Nat /\ 0 < k /\ k < 0 + p
      BY ONLY <1>1, <3>1, k \in 1..(Len(f) - 1)
    <3> QED BY <1>2, <2>1, <3>2, NoPairWithin
  <2>4. k # p
    <3>1. ASSUME k = p PROVE f[k + 1] = tries
      BY <1>3, <3>1
    <3> QED BY <2>1, <3>1
  <2>5. k # p + 2 /\ k # p + 3
    BY <1>3, <2>1
  <2>6. ~(p + 3 < k)
    <3>1. SUFFICES ASSUME p + 3 < k PROVE FALSE
      OBVIOUS
    <3>2. k \in Nat /\ k < (p + 3) + q
      BY ONLY <1>1, <2>2, <3>1, k \in 1..(Len(f) - 1)
    <3> QED BY <1>2, <2>1, <3>1, <3>2, NoPairWithin
  <2> QED BY ONLY <1>1, <2>3, <2>4, <2>5, <2>6, k \in 1..(Len(f) - 1)
<1>6. ASSUME NEW w \in {"try", "tries"}, NEW j \in 1..Len(f), PhraseAt(f, j, To(w))
      PROVE  j = i /\ w = tries
  <2> DEFINE phrase == To(w)
  <2>1. Len(phrase) = 2 /\ phrase[1] = w /\ phrase[2] = "to"
    BY Two
  <2> HIDE DEF phrase
  <2>2. PhraseAt(f, j, phrase)
    BY <1>6 DEF phrase
  <2> HIDE DEF To
  <2>3. Len(phrase) \in Nat /\ Len(phrase) >= 1 /\ Len(phrase) >= 2 /\ j \in Int
    BY <2>1
  <2>4. f[j] = w /\ f[j + 1] = "to"
    <3>1. f[j] = phrase[1]
      BY <2>2, <2>3, PhraseFirst, Zenon
    <3>2. f[j + 1] = phrase[2]
      BY <2>2, <2>3, PhraseSecond, Zenon
    <3> QED BY <2>1, <3>1, <3>2
  <2>5. j + 2 <= Len(f)
    BY <2>1, <2>2, PhraseLength
  <2>6. j \in 1..(Len(f) - 1)
    BY ONLY <1>1, <2>5, j \in 1..Len(f)
  <2>7. j = i
    BY <1>5, <2>4, <2>6 DEF TryPairs
  <2> QED BY <1>3, <2>4, <2>7
<1>7. i \in 1..Len(f) /\ i \in Int /\ i > 1 /\ i + 2 <= Len(f) /\ i + 1 = p + 2 /\ i + 2 = p + 3
      /\ i \in 2..Len(f) /\ i + 3 < c /\ i # 0
  BY ONLY <1>0, <1>1
<1>8. Has(f, To(tries)) /\ Place(f, To(tries)) = i
  <2> DEFINE phrase == To(tries)
  <2>1. PICK S : f \in Seq(S)
    BY <1>1 DEF Listed
  <2> HIDE DEF i
  <2>2. PhraseAt(f, i, <<f[i], f[i + 1]>>)
    <3>1. f[i + 2] \notin Mark
      BY <1>3, <1>7
    <3> QED BY <1>7, <2>1, <3>1, TwoWordsFit
  <2>3. f[i] = tries /\ f[i + 1] = "to"
    BY <1>3, <1>7 DEF i
  <2>4. PhraseAt(f, i, phrase)
    BY <2>2, <2>3
  <2>5. \A j \in 1..Len(f) : PhraseAt(f, j, phrase) => j >= i
    BY <1>6, <1>7
  <2> HIDE DEF phrase
  <2>6. Has(f, phrase) /\ Place(f, phrase) = i
    BY <1>1, <1>7, <2>4, <2>5, FirstPlace
  <2> QED BY <2>6 DEF phrase
<1>9. Tries(f) = i
  <2>1. CASE tries = "try"
    BY <1>8, <2>1 DEF Tries
  <2>2. CASE tries = "tries"
    <3>1. ~Has(f, To("try"))
      BY <1>6, <2>2 DEF Has, Places
    <3> QED BY <1>8, <2>2, <3>1 DEF Tries
  <2> QED BY <2>1, <2>2
<1>10. Action_parse(f) = ParseTry(f, i)
  <2>1. Len(f) > 0
    BY ONLY <1>0, <1>1
  <2>2. Action_parse(f) = ParseExclamation(f)
    BY <1>1, <1>4, <2>1, ExclamationParsed
  <2> HIDE DEF i
  <2> QED BY <1>7, <1>9, <2>2 DEF ParseExclamation
<1>11. ParseTry(f, i) = [type |-> t, source |-> Before(f, i), target |-> Between(f, i + 2, c),
                         verb |-> <<f[i + 2]>>, damage |-> 0]
  <2>1. PICK S : f \in Seq(S)
    BY <1>1 DEF Listed
  <2> HIDE DEF i, c
  <2>2. f[c] = "," /\ f[c + 1] = "but"
    BY <1>3, <1>4
  <2>3. ParseTry(f, i) =
                   [type   |-> IF Evaded(f) = {} THEN "UNKNOWN"
                               ELSE CHOOSE x \in Evaded(f) : TRUE,
                     source |-> Before(f, i), target |-> Between(f, i + 2, c),
                     verb   |-> <<f[i + 2]>>, damage |-> 0]
    BY <1>4, <1>7, <2>1, <2>2, TryParsed
  <2>4. (IF Evaded(f) = {} THEN "UNKNOWN" ELSE CHOOSE x \in Evaded(f) : TRUE) = t
    OBVIOUS
  <2> QED BY ONLY <2>3, <2>4
<1>12. Before(f, i) = a
  <2>1. SubSeq(f, 0 + 1, 0 + p) = a
    BY <1>1, <1>2, HoldsRun
  <2>2. 0 + 1 = 1 /\ 0 + p = p /\ i - 1 = p
    BY <1>1
  <2> QED BY <2>1, <2>2 DEF Before
<1>13. Between(f, i + 2, c) = b
  <2>1. SubSeq(f, (p + 3) + 1, (p + 3) + q) = b
    BY <1>1, <1>2, HoldsRun
  <2>2. (i + 2) + 1 = (p + 3) + 1 /\ c - 1 = (p + 3) + q
    BY ONLY <1>1
  <2> QED BY <2>1, <2>2 DEF Between
<1>14. f[i + 2] = verb
  BY <1>3, <1>7
<1> HIDE DEF i, c
<1> QED BY <1>10, <1>11, <1>12, <1>13, <1>14

(* The last word of what ends a try tells how it ended. *)
Late == [MISS |-> {"miss", "misses"}, PARRY |-> {"parry", "parries"},
         DODGE |-> {"dodge", "dodges"}, RIPOSTE |-> {"riposte", "ripostes"},
         BLOCK |-> {"block", "blocks"}, ABSORB |-> {"blow"}]
EndsIn(e, words) ==
  Listed(e) /\ Len(e) \in Nat /\ Len(e) >= 2 /\ e[Len(e)] = "!" /\ e[Len(e) - 1] \in words

(* Every ending of a try has one of these in front of its mark. *)
LEMMA LateIs ==
  ASSUME NEW t \in EndingTypes, NEW e \in Ending[t]
  PROVE  EndsIn(e, Late[t])
<1>1. ASSUME NEW w, NEW words, w \in words PROVE EndsIn(<<w, "!">>, words)
  <2> DEFINE z == <<w, "!">>
  <2>1. Listed(z) /\ Len(z) = 2 /\ z[1] = w /\ z[2] = "!"
    BY Two
  <2> HIDE DEF z
  <2>2. EndsIn(z, words)
    BY <1>1, <2>1 DEF EndsIn
  <2> QED BY <2>2 DEF z
<1>2. EndsIn(Absorbs, {"blow"})
  <2>1. Absorbs[5] = "blow"
    BY DEF Absorbs
  <2> QED BY <2>1, AbsorbsIs DEF EndsIn
<1>3. CASE t = "ABSORB"
  <2>1. e = Absorbs
    BY <1>3 DEF Ending, Absorbs
  <2>2. Late[t] = {"blow"}
    BY <1>3 DEF Late
  <2> QED BY <1>2, <2>1, <2>2
<1>4. CASE t # "ABSORB"
  <2>1. \E w \in Late[t] : e = <<w, "!">>
    <3>1. CASE t = "MISS"
      BY <3>1 DEF Ending, Late
    <3>2. CASE t = "PARRY"
      BY <3>2 DEF Ending, Late
    <3>3. CASE t = "DODGE"
      BY <3>3 DEF Ending, Late
    <3>4. CASE t = "RIPOSTE"
      BY <3>4 DEF Ending, Late
    <3>5. CASE t = "BLOCK"
      BY <3>5 DEF Ending, Late
    <3> QED BY ONLY <1>4, <3>1, <3>2, <3>3, <3>4, <3>5, t \in EndingTypes DEF EndingTypes
  <2> QED BY <1>1, <2>1
<1> QED BY <1>3, <1>4

(* None is in two of the sets. *)
LEMMA LateOnce ==
  ASSUME NEW t \in EndingTypes, NEW u \in EndingTypes, NEW w, w \in Late[t], w \in Late[u]
  PROVE  t = u
<1> DEFINE In(x) == Late[x]
<1>1. /\ In("MISS") = {"miss", "misses"} /\ In("PARRY") = {"parry", "parries"}
      /\ In("DODGE") = {"dodge", "dodges"} /\ In("RIPOSTE") = {"riposte", "ripostes"}
      /\ In("BLOCK") = {"block", "blocks"} /\ In("ABSORB") = {"blow"}
  BY DEF Late
<1>2. w \in In(t) /\ w \in In(u)
  OBVIOUS
<1> HIDE DEF In
<1> QED BY ONLY <1>1, <1>2, t \in EndingTypes, u \in EndingTypes DEF EndingTypes

(* So a text ends in the endings of one kind of try only. *)
LEMMA EvadedIs ==
  ASSUME NEW f, Listed(f), NEW t \in EndingTypes, NEW e \in Ending[t], EndsWith(f, e)
  PROVE  Evaded(f) = {t}
<1>1. Len(f) \in Nat
  BY ListedLength
<1>2. ASSUME NEW u \in EndingTypes, NEW g \in Ending[u], EndsWith(f, g)
      PROVE  f[Len(f) - 1] \in Late[u]
  <2>1. Len(g) \in Nat /\ Len(g) >= 2 /\ g[Len(g) - 1] \in Late[u]
    BY LateIs DEF EndsIn
  <2>2. \A k \in 0..(Len(g) - 1) : f[Len(f) - k] = g[Len(g) - k]
    BY <1>1, <1>2, <2>1, EndsWithIs
  <2>3. 1 \in 0..(Len(g) - 1)
    BY ONLY <2>1
  <2>4. f[Len(f) - 1] = g[Len(g) - 1]
    BY <2>2, <2>3
  <2> QED BY <2>1, <2>4
<1>3. ASSUME NEW u \in Evaded(f) PROVE u = t
  <2>1. u \in EndingTypes /\ \E g \in Ending[u] : EndsWith(f, g)
    BY EndingIs DEF Evaded
  <2>2. f[Len(f) - 1] \in Late[u]
    BY <1>2, <2>1
  <2>3. f[Len(f) - 1] \in Late[t]
    BY <1>2
  <2> QED BY <2>1, <2>2, <2>3, LateOnce
<1>4. t \in Evaded(f)
  BY EndingIs DEF Evaded
<1> QED BY <1>3, <1>4

(* A text that ends in a word and an exclamation mark, or in the long      *)
(* ending.                                                                 *)
LEMMA EndsInWord ==
  ASSUME NEW g, Listed(g), Len(g) > 0, NEW w
  PROVE  EndsWith(g \o <<w>> \o <<"!">>, <<w, "!">>) /\ Listed(g \o <<w>> \o <<"!">>)
<1> DEFINE u == <<w>>
           z == <<"!">>
           e == <<w, "!">>
           f == g \o u \o z
<1>1. /\ Listed(u) /\ Len(u) = 1 /\ u[1] = w /\ Listed(z) /\ Len(z) = 1 /\ z[1] = "!"
      /\ Listed(e) /\ Len(e) = 2 /\ e[1] = w /\ e[2] = "!"
  BY One, Two
<1>2. Len(g) \in Nat
  BY ListedLength
<1> HIDE DEF u, z, e
<1>3. Parts(f, g, u, z)
  BY <1>1, PartsOf
<1> HIDE DEF f
<1>4. Listed(f) /\ Len(f) = Len(g) + 2 /\ Holds(f, Len(g), u) /\ Holds(f, Len(g) + 1, z)
  <2>1. Len(f) = Len(g) + 2
    BY ONLY <1>1, <1>2, <1>3 DEF Parts
  <2> QED BY <1>1, <1>3, <2>1 DEF Parts
<1>5. Holds(f, Len(g), e)
  <2>1. f[Len(g) + 1] = w /\ f[(Len(g) + 1) + 1] = "!"
    BY <1>1, <1>4 DEF Holds
  <2>2. (Len(g) + 1) + 1 = Len(g) + 2
    BY <1>2
  <2>3. f[Len(g) + 2] = "!"
    BY <2>1, <2>2
  <2>4. \A k \in 1..2 : k = 1 \/ k = 2
    OBVIOUS
  <2>5. \A k \in 1..2 : f[Len(g) + k] = e[k]
    BY ONLY <1>1, <2>1, <2>3, <2>4
  <2> QED BY <1>1, <1>2, <1>4, <2>5 DEF Holds
<1>6. EndsWith(f, e)
  <2>1. Len(f) = Len(g) + Len(e)
    BY <1>1, <1>4
  <2> QED BY <1>4, <1>5, <2>1, HoldsEnd
<1> QED BY <1>4, <1>6 DEF f, u, z, e

(* The same of the ending that the absorbed blows have. *)
LEMMA EndsInAbsorbs ==
  ASSUME NEW g, Listed(g), Len(g) > 0
  PROVE  EndsWith(g \o Absorbs, Absorbs) /\ Listed(g \o Absorbs)
<1> DEFINE f == g \o Absorbs
<1>1. Grows(f, g, Absorbs)
  BY AbsorbsIs, Grown
<1> HIDE DEF f
<1>2. Listed(f) /\ Len(f) = Len(g) + Len(Absorbs) /\ Holds(f, Len(g), Absorbs)
  BY <1>1 DEF Grows
<1>3. EndsWith(f, Absorbs)
  BY <1>2, HoldsEnd
<1> QED BY <1>2, <1>3 DEF f

(* A try is told with its source, its target and its verb, and how it      *)
(* ended.                                                                  *)
LEMMA TryLineMeant ==
  ASSUME NEW s, s.says \in EndingTypes, s.source \in Fighters, s.target \in Fighters,
         s.verb \in DOMAIN ThirdPerson, NEW points
  PROVE  Action_parse(Text(s, points)) =
           [type |-> s.says, source |-> s.source, target |-> s.target, verb |-> <<s.verb>>,
            damage |-> 0]
<1> DEFINE source == s.source
           target == s.target
           verb == s.verb
           tries == IF source \in {You, YOU} THEN "try" ELSE "tries"
           f == Text(s, points)
           g == Tried(s)
           Told(h) == IsTry(h, source, tries, verb, target)
<1>1. source \in Fighters /\ target \in Fighters /\ tries \in {"try", "tries"}
  OBVIOUS
<1>2. verb \notin Mark /\ verb \notin {"to", "try", "tries"}
  BY VerbIs
<1>3. g = TriedText(source, tries, verb, target)
  BY DEF Tried, Conj, TriedText
<1>4. TryText(f)
  BY TryTextIs
<1> DEFINE Word(who, second, third) == IF who \in {You, YOU} THEN second ELSE third
<1>5. \A who, second, third : Conj(who, second, third) = <<Word(who, second, third)>>
  BY DEF Conj
<1>6. Listed(target) /\ Len(target) \in Nat \ {0} /\ Len(source) \in Nat
  BY <1>1, FighterIs
<1>7. Told(g) /\ Listed(g) /\ Len(g) > 0
  <2> HIDE DEF source, target, tries, verb, g
  <2>1. Told(g) /\ Len(g) = Len(source) + Len(target) + 5
    BY <1>1, <1>3, TriedHolds
  <2>2. Len(g) > 0
    BY ONLY <1>6, <2>1
  <2> QED BY <2>1, <2>2 DEF IsTry
<1>8. Told(g \o target) /\ Listed(g \o target) /\ Len(g \o target) > 0
  <2> HIDE DEF source, target, tries, verb, g
  <2>1. Told(g \o target)
    BY <1>6, <1>7, TryKept
  <2>2. Grows(g \o target, g, target)
    BY <1>6, <1>7, Grown
  <2>3. Len(g \o target) = Len(g) + Len(target) /\ Listed(g \o target) /\ Len(g) \in Nat
    BY <1>7, <2>2, ListedLength DEF Grows
  <2>4. Len(g \o target) > 0
    BY ONLY <1>6, <1>7, <2>3
  <2> QED BY <2>1, <2>3, <2>4
<1> HIDE DEF Word, source, target, tries, verb, g, f
<1>9. ASSUME NEW h, Told(h), Listed(h), Len(h) > 0, NEW w, NEW t \in EndingTypes,
             <<w, "!">> \in Ending[t], f = h \o <<w>> \o <<"!">>
      PROVE  Told(f) /\ Evaded(f) = {t}
  <2>1. EndsWith(f, <<w, "!">>) /\ Listed(f)
    BY <1>9, EndsInWord
  <2>2. Evaded(f) = {t}
    BY <1>9, <2>1, EvadedIs
  <2>3. Listed(<<w>>) /\ Listed(<<"!">>)
    BY One
  <2>4. Told(h \o <<w>>)
    BY <1>9, <2>3, TryKept
  <2>5. Told(h \o <<w>> \o <<"!">>)
    BY <2>3, <2>4, TryKept
  <2> QED BY <1>9, <2>2, <2>5
<1>10. ASSUME NEW h, Told(h), Listed(h), Len(h) > 0, f = h \o Absorbs
      PROVE  Told(f) /\ Evaded(f) = {"ABSORB"}
  <2>1. EndsWith(f, Absorbs) /\ Listed(f)
    BY <1>10, EndsInAbsorbs
  <2>2. Absorbs \in Ending["ABSORB"] /\ "ABSORB" \in EndingTypes
    BY DEF Ending, Absorbs, EndingTypes
  <2>3. Evaded(f) = {"ABSORB"}
    BY <2>1, <2>2, EvadedIs
  <2> QED BY <1>10, <2>3, AbsorbsIs, TryKept
<1>11. Told(f) /\ Evaded(f) = {s.says}
  <2>1. CASE s.says = "MISS"
    <3> DEFINE w == Word(source, "miss", "misses")
    <3>1. <<w, "!">> \in Ending["MISS"] /\ "MISS" \in EndingTypes
      BY DEF Ending, EndingTypes, Word
    <3>2. f = g \o <<w>> \o <<"!">>
      BY <1>5, <2>1 DEF Text, f, g, source
    <3> HIDE DEF w
    <3> QED BY <1>7, <1>9, <2>1, <3>1, <3>2
  <2>2. CASE s.says = "PARRY"
    <3> DEFINE w == Word(target, "parry", "parries")
    <3>1. <<w, "!">> \in Ending["PARRY"] /\ "PARRY" \in EndingTypes
      BY DEF Ending, EndingTypes, Word
    <3>2. f = g \o target \o <<w>> \o <<"!">>
      BY <1>5, <2>2 DEF Text, f, g, target
    <3> HIDE DEF w
    <3> QED BY <1>8, <1>9, <2>2, <3>1, <3>2
  <2>3. CASE s.says = "DODGE"
    <3> DEFINE w == Word(target, "dodge", "dodges")
    <3>1. <<w, "!">> \in Ending["DODGE"] /\ "DODGE" \in EndingTypes
      BY DEF Ending, EndingTypes, Word
    <3>2. f = g \o target \o <<w>> \o <<"!">>
      BY <1>5, <2>3 DEF Text, f, g, target
    <3> HIDE DEF w
    <3> QED BY <1>8, <1>9, <2>3, <3>1, <3>2
  <2>4. CASE s.says = "RIPOSTE"
    <3> DEFINE w == Word(target, "riposte", "ripostes")
    <3>1. <<w, "!">> \in Ending["RIPOSTE"] /\ "RIPOSTE" \in EndingTypes
      BY DEF Ending, EndingTypes, Word
    <3>2. f = g \o target \o <<w>> \o <<"!">>
      BY <1>5, <2>4 DEF Text, f, g, target
    <3> HIDE DEF w
    <3> QED BY <1>8, <1>9, <2>4, <3>1, <3>2
  <2>5. CASE s.says = "BLOCK"
    <3> DEFINE w == Word(target, "block", "blocks")
    <3>1. <<w, "!">> \in Ending["BLOCK"] /\ "BLOCK" \in EndingTypes
      BY DEF Ending, EndingTypes, Word
    <3>2. f = g \o target \o <<w>> \o <<"!">>
      BY <1>5, <2>5 DEF Text, f, g, target
    <3> HIDE DEF w
    <3> QED BY <1>8, <1>9, <2>5, <3>1, <3>2
  <2>6. CASE s.says = "ABSORB"
    <3> DEFINE whose == IF target = YOU THEN <<"YOUR">> ELSE target \o <<"'s">>
               h == g \o whose
    <3>1. f = h \o Absorbs
      BY <2>6 DEF Text, Absorbs, f, g, target
    <3>2. Listed(<<"YOUR">>) /\ Len(<<"YOUR">>) = 1 /\ Listed(<<"'s">>) /\ Len(<<"'s">>) = 1
      BY One
    <3>3. Listed(whose)
      <4>1. Listed(target \o <<"'s">>)
        BY <1>6, <3>2, Grown DEF Grows
      <4> QED BY <3>2, <4>1
    <3> HIDE DEF whose
    <3>4. Told(h)
      BY <1>7, <3>3, TryKept
    <3>5. Grows(h, g, whose)
      BY <1>7, <3>3, Grown
    <3> HIDE DEF h
    <3>6. Listed(h) /\ Len(h) = Len(g) + Len(whose) /\ Len(g) \in Nat /\ Len(whose) \in Nat
      BY <1>7, <3>3, <3>5, ListedLength DEF Grows
    <3>7. Len(h) > 0
      BY ONLY <1>7, <3>6
    <3> QED BY <1>10, <2>6, <3>1, <3>4, <3>6, <3>7
  <2> QED BY ONLY <2>1, <2>2, <2>3, <2>4, <2>5, <2>6, s.says \in EndingTypes DEF EndingTypes
<1>12. Action_parse(f) = [type |-> s.says, source |-> source, target |-> target,
                          verb |-> <<verb>>, damage |-> 0]
  BY <1>1, <1>2, <1>4, <1>11, TryMeant
<1> QED BY <1>12 DEF f, source, target, verb

(* What the game means by a line, spelled out. *)
Made(type, source, target, verb, damage) ==
  [type |-> type, source |-> source, target |-> target, verb |-> verb, damage |-> damage]

(* A number is a word. *)
LEMMA NumberCounts ==
  ASSUME NEW s, s.number \in Number
  PROVE  s.number # NoWord
BY WordsAssumption

(* The verb of a death in the passive, in one piece. *)
LEMMA PassiveIs ==
  ASSUME NEW has
  PROVE  <<has>> \o <<"been", "slain", "by">> = <<has, "been", "slain", "by">>
<1> DEFINE a == <<has>>
           b == <<"been", "slain", "by">>
           c == <<has, "been", "slain", "by">>
           f == a \o b
<1>1. /\ Listed(a) /\ Len(a) = 1 /\ a[1] = has
      /\ Listed(b) /\ Len(b) = 3 /\ b[1] = "been" /\ b[2] = "slain" /\ b[3] = "by"
  BY One, Three
<1>2. /\ c \in Seq({has, "been", "slain", "by"}) /\ Len(c) = 4
      /\ c[1] = has /\ c[2] = "been" /\ c[3] = "slain" /\ c[4] = "by"
  OBVIOUS
<1> HIDE DEF a, b, c
<1>3. Joins(f, a, b)
  BY <1>1, Joined
<1> HIDE DEF f
<1>4. /\ Listed(f) /\ Len(f) = 4
      /\ \A k \in 1..1 : f[k] = a[k]
      /\ \A k \in 1..3 : f[1 + k] = b[k]
  BY <1>1, <1>3 DEF Joins
<1>5. f[1] = has /\ f[2] = "been" /\ f[3] = "slain" /\ f[4] = "by"
  <2>1. f[1] = a[1] /\ f[1 + 1] = b[1] /\ f[1 + 2] = b[2] /\ f[1 + 3] = b[3]
    BY ONLY <1>4
  <2> QED BY <1>1, <2>1
<1>6. PICK S : f \in Seq(S)
  BY <1>4 DEF Listed
<1> DEFINE U == S \union {has, "been", "slain", "by"}
<1>7. f \in Seq(U) /\ c \in Seq(U)
  BY <1>2, <1>6
<1> HIDE DEF U
<1>8. f = c
  <2>1. \A k \in 1..4 : k = 1 \/ k = 2 \/ k = 3 \/ k = 4
    OBVIOUS
  <2>2. \A k \in 1..4 : f[k] = c[k]
    BY ONLY <1>2, <1>5, <2>1
  <2> QED BY <1>2, <1>4, <1>7, <2>2, SeqEqual
<1> QED BY <1>8 DEF a, b, c, f

(* Meaning, case by case. *)
LEMMA MeaningIs ==
  ASSUME NEW s
  PROVE  /\ s.says = "MELEE" /\ s.number # NoWord =>
              Meaning(s) = Made("MELEE", s.source, s.target, <<s.verb>>, Value[s.number])
         /\ s.says \in EndingTypes /\ s.number = NoWord =>
              Meaning(s) = Made(s.says, s.source, s.target, <<s.verb>>, 0)
         /\ s.says = "spell" /\ s.number # NoWord =>
              Meaning(s) = Made("MAGIC", You, s.target, <<"non-melee">>, Value[s.number])
         /\ s.says = "area" /\ s.number # NoWord =>
              Meaning(s) = Made("MAGIC", <<"Non-melee">>, Me, <<"have", "taken">>, Value[s.number])
         /\ s.says = "HEAL" /\ s.number # NoWord =>
              Meaning(s) = Made("HEAL", Nobody, s.target, <<"have", "been", "healed">>,
                                Value[s.number])
         /\ s.says \in {"CRIT", "CRIP", "HOLYBLADE"} /\ s.number # NoWord =>
              Meaning(s) = Made(s.says, s.source, s.target, << >>, Value[s.number])
         /\ s.says = "slew" /\ s.number = NoWord =>
              Meaning(s) = Made("DEATH", s.source, s.target, <<"have", "slain">>, 0)
         /\ s.says = "slain" /\ s.number = NoWord =>
              Meaning(s) = Made("DEATH", s.source, s.target,
                                Conj(s.target, "have", "has") \o <<"been", "slain", "by">>, 0)
         /\ s.says = "died" /\ s.number = NoWord =>
              Meaning(s) = Made("DEATH", Nobody, s.target, <<"died">>, 0)
<1>1. s.says = "MELEE" /\ s.number # NoWord =>
              Meaning(s) = Made("MELEE", s.source, s.target, <<s.verb>>, Value[s.number])
  BY DEF Meaning, Made
<1>2. s.says \in EndingTypes /\ s.number = NoWord =>
              Meaning(s) = Made(s.says, s.source, s.target, <<s.verb>>, 0)
  BY DEF Meaning, Made, EndingTypes
<1>3. s.says = "spell" /\ s.number # NoWord =>
              Meaning(s) = Made("MAGIC", You, s.target, <<"non-melee">>, Value[s.number])
  BY DEF Meaning, Made
<1>4. s.says = "area" /\ s.number # NoWord =>
              Meaning(s) = Made("MAGIC", <<"Non-melee">>, Me, <<"have", "taken">>, Value[s.number])
  BY DEF Meaning, Made
<1>5. s.says = "HEAL" /\ s.number # NoWord =>
              Meaning(s) = Made("HEAL", Nobody, s.target, <<"have", "been", "healed">>,
                                Value[s.number])
  BY DEF Meaning, Made
<1>6. s.says \in {"CRIT", "CRIP", "HOLYBLADE"} /\ s.number # NoWord =>
              Meaning(s) = Made(s.says, s.source, s.target, << >>, Value[s.number])
  BY DEF Meaning, Made
<1>7. s.says = "slew" /\ s.number = NoWord =>
              Meaning(s) = Made("DEATH", s.source, s.target, <<"have", "slain">>, 0)
  BY DEF Meaning, Made
<1>8. s.says = "slain" /\ s.number = NoWord =>
              Meaning(s) = Made("DEATH", s.source, s.target,
                                Conj(s.target, "have", "has") \o <<"been", "slain", "by">>, 0)
  BY DEF Meaning, Made
<1>9. s.says = "died" /\ s.number = NoWord =>
              Meaning(s) = Made("DEATH", Nobody, s.target, <<"died">>, 0)
  BY DEF Meaning, Made
<1> QED BY ONLY <1>1, <1>2, <1>3, <1>4, <1>5, <1>6, <1>7, <1>8, <1>9, Zenon

(* A whole line. *)
LEMMA LineMeant ==
  ASSUME NEW s \in Sayings, NEW points \in Points(s), Plain(s.source), Plain(s.target),
         s.verb # "bite"
  PROVE  Action_parse(Text(s, points)) = Meaning(s)
<1>1. CASE s.says = "MELEE" /\ s.source \in Fighters /\ s.target \in Fighters
              /\ s.verb \in DOMAIN ThirdPerson /\ s.number \in Number
  <2> DEFINE source == s.source
             target == s.target
             v == s.verb
             w == IF source \in {You, YOU} THEN v ELSE ThirdPerson[v]
             n == s.number
  <2>1. points \in ThePoints
    BY <1>1 DEF Points, ThePoints
  <2>2. Text(s, points) = source \o <<w>> \o target \o (<<"for", n>> \o points)
    BY <1>1 DEF Text, Hurt, Conj
  <2>3. source \in Fighters /\ target \in Fighters /\ n \in Number /\ Plain(source)
        /\ v \in DOMAIN ThirdPerson /\ v # "bite"
    BY <1>1
  <2>4. w \in {v, ThirdPerson[v]}
    OBVIOUS
  <2>5. w = v => Len(source) = 1
    <3>1. ThirdPerson[v] # v
      BY <2>3, WordsAssumption
    <3>2. Len(You) = 1 /\ Len(YOU) = 1
      BY One DEF You, YOU
    <3>3. w = v => source \in {You, YOU}
      BY <3>1
    <3> HIDE DEF source, v, w
    <3> QED BY <3>2, <3>3
  <2>6. Meaning(s) = Made("MELEE", source, target, <<v>>, Value[n])
    BY <1>1, MeaningIs, NumberCounts
  <2>8. PutBy(source, v, w)
    <3> HIDE DEF source, v, w
    <3> QED BY <2>4, <2>5 DEF PutBy
  <2> HIDE DEF source, target, v, w, n
  <2>7. Action_parse(source \o <<w>> \o target \o (<<"for", n>> \o points)) =
          [type |-> "MELEE", source |-> source, target |-> target, verb |-> <<v>>,
           damage |-> Value[n]]
    BY <2>1, <2>3, <2>8, MeleeMeant
  <2> QED BY <2>2, <2>6, <2>7 DEF Made
<1>2. CASE s.says \in EndingTypes /\ s.source \in Fighters /\ s.target \in Fighters
              /\ s.verb \in DOMAIN ThirdPerson /\ s.number = NoWord
  <2>1. Action_parse(Text(s, points)) =
           [type |-> s.says, source |-> s.source, target |-> s.target, verb |-> <<s.verb>>,
            damage |-> 0]
    BY <1>2, TryLineMeant
  <2>2. Meaning(s) = Made(s.says, s.source, s.target, <<s.verb>>, 0)
    BY <1>2, MeaningIs
  <2> QED BY <2>1, <2>2 DEF Made
<1>3. CASE s.says = "spell" /\ s.target \in Fighters /\ s.number \in Number
  <2> DEFINE target == s.target
             were == IF target \in {You, YOU} THEN "were" ELSE "was"
             n == s.number
  <2>1. points \in ThePoints
    BY <1>3 DEF Points, ThePoints
  <2>2. Text(s, points) =
        target \o <<were>> \o <<"hit", "by", "non-melee">> \o (<<"for", n>> \o points)
    BY <1>3 DEF Text, Hurt, Conj
  <2>3. were \in {"was", "were"} /\ target \in Fighters /\ n \in Number /\ Plain(target)
    BY <1>3
  <2>4. Meaning(s) = Made("MAGIC", You, target, <<"non-melee">>, Value[n])
    BY <1>3, MeaningIs, NumberCounts
  <2> HIDE DEF were, target, n
  <2>5. Action_parse(target \o <<were>> \o <<"hit", "by", "non-melee">> \o (<<"for", n>> \o points)) =
          [type |-> "MAGIC", source |-> You, target |-> target, verb |-> <<"non-melee">>,
           damage |-> Value[n]]
    BY <2>1, <2>3, SpellLineMeant
  <2> QED BY <2>2, <2>4, <2>5 DEF Made
<1>4. CASE s.says \in {"area", "HEAL"} /\ s.target = You /\ s.number \in Number
  <2> DEFINE n == s.number
  <2>1. points \in ThePoints /\ n \in Number
    BY <1>4 DEF Points, ThePoints
  <2>2. CASE s.says = "area"
    <3>1. Text(s, points) = <<"Your", "body", "combusts", "as", "the", "lava", "hits", "you", ".",
                    "You", "have", "taken", n>> \o points
      BY <2>2 DEF Text
    <3>2. Meaning(s) = Made("MAGIC", <<"Non-melee">>, Me, <<"have", "taken">>, Value[n])
      BY <1>4, <2>2, MeaningIs, NumberCounts
    <3> HIDE DEF n
    <3>3. Action_parse(<<"Your", "body", "combusts", "as", "the", "lava", "hits", "you", ".",
                    "You", "have", "taken", n>> \o points) =
            [type |-> "MAGIC", source |-> <<"Non-melee">>, target |-> Me,
             verb |-> <<"have", "taken">>, damage |-> Value[n]]
      BY <2>1, AreaLineMeant
    <3> QED BY <3>1, <3>2, <3>3, Zenon DEF Made
  <2>3. CASE s.says = "HEAL"
    <3>1. Text(s, points) = <<"You", "have", "been", "healed">> \o (<<"for", n>> \o points)
      BY <2>3 DEF Text, Hurt
    <3>2. Meaning(s) = Made("HEAL", Nobody, You, <<"have", "been", "healed">>, Value[n])
      BY <1>4, <2>3, MeaningIs, NumberCounts
    <3> HIDE DEF n
    <3>3. Action_parse(<<"You", "have", "been", "healed">> \o (<<"for", n>> \o points)) =
            [type |-> "HEAL", source |-> Nobody, target |-> You,
             verb |-> <<"have", "been", "healed">>, damage |-> Value[n]]
      BY <2>1, HealLineMeant
    <3> QED BY <3>1, <3>2, <3>3, Zenon DEF Made
  <2> QED BY <1>4, <2>2, <2>3
<1>5. CASE s.says \in {"CRIT", "CRIP", "HOLYBLADE"} /\ s.source \in Fighters
              /\ s.target = Nobody /\ s.number \in Number
  <2> DEFINE n == s.number
             source == s.source
  <2>1. source \in Fighters /\ n \in Number
    BY <1>5
  <2>2. Meaning(s) = Made(s.says, source, Nobody, << >>, Value[n])
    BY <1>5, MeaningIs, NumberCounts
  <2>3. CASE s.says = "CRIT"
    <3>1. Text(s, points) = source \o <<"Scores", "a", "critical", "hit", "!", "(", n, ")">>
      BY <2>3 DEF Text
    <3> HIDE DEF n, source
    <3> QED BY <2>1, <2>2, <2>3, <3>1, CritMeant DEF Made
  <2>4. CASE s.says = "CRIP"
    <3>1. Text(s, points) = source \o <<"lands", "a", "Crippling", "Blow", "!", "(", n, ")">>
      BY <2>4 DEF Text
    <3> HIDE DEF n, source
    <3> QED BY <2>1, <2>2, <2>4, <3>1, CripMeant DEF Made
  <2>5. CASE s.says = "HOLYBLADE"
    <3>1. Text(s, points) =
        source \o <<"'s", "holy", "blade", "cleanses", "his", "target", "!", "(", n, ")">>
      BY <2>5 DEF Text
    <3> HIDE DEF n, source
    <3> QED BY <2>1, <2>2, <2>5, <3>1, HolyBladeMeant DEF Made
  <2> QED BY <1>5, <2>3, <2>4, <2>5
<1>6. CASE s.says = "slew" /\ s.source = You /\ s.target \in Fighters /\ s.number = NoWord
  <2> DEFINE target == s.target
  <2>1. Text(s, points) = <<"You", "have", "slain">> \o target \o <<"!">>
    BY <1>6 DEF Text
  <2>2. target \in Fighters
    BY <1>6
  <2>3. Meaning(s) = Made("DEATH", You, target, <<"have", "slain">>, 0)
    BY <1>6, MeaningIs
  <2> HIDE DEF target
  <2> QED BY <2>1, <2>2, <2>3, SlewMeant DEF Made
<1>7. CASE s.says = "slain" /\ s.source \in Fighters /\ s.target \in Fighters /\ s.number = NoWord
  <2> DEFINE target == s.target
             source == s.source
             has == IF target \in {You, YOU} THEN "have" ELSE "has"
             f == target \o <<has>> \o <<"been", "slain", "by">> \o source \o <<"!">>
  <2>1. Text(s, points) = f
    BY <1>7 DEF Text, Conj
  <2>2. target \in Fighters /\ source \in Fighters /\ has \in {"have", "has"}
    BY <1>7
  <2>3. Conj(target, "have", "has") = <<has>>
    BY DEF Conj
  <2>4. Meaning(s) = Made("DEATH", source, target, <<has>> \o <<"been", "slain", "by">>, 0)
    BY <1>7, <2>3, MeaningIs
  <2> HIDE DEF target, source, has
  <2>5. Action_parse(f) = [type |-> "DEATH", source |-> source, target |-> target,
                            verb |-> <<has, "been", "slain", "by">>, damage |-> 0]
    <3>1. IsSlain(f, target, has, source)
      BY <2>2, SlainIs
    <3> HIDE DEF f
    <3> QED BY <2>2, <3>1, SlainByMeant
  <2> HIDE DEF f
  <2>6. <<has>> \o <<"been", "slain", "by">> = <<has, "been", "slain", "by">>
    BY PassiveIs
  <2> QED BY <2>1, <2>4, <2>5, <2>6, Zenon DEF Made
<1>8. CASE s.says = "died" /\ s.target \in Fighters /\ s.number = NoWord
  <2> DEFINE target == s.target
  <2>1. Text(s, points) = target \o <<"died", ".">>
    BY <1>8 DEF Text
  <2>2. target \in Fighters
    BY <1>8
  <2>3. Meaning(s) = Made("DEATH", Nobody, target, <<"died">>, 0)
    BY <1>8, MeaningIs
  <2> HIDE DEF target
  <2> QED BY <2>1, <2>2, <2>3, DiedMeant DEF Made
<1> QED BY <1>1, <1>2, <1>3, <1>4, <1>5, <1>6, <1>7, <1>8, SayingIs

(* A line that has been parsed says what it means. *)
LEMMA LineSaid == LineInv => MeaningParsed
<1>1. CASE NoLine \/ Undated
  BY <1>1 DEF NoLine, Undated, MeaningParsed
<1>2. CASE Parsed
  <2>0. PICK s \in Sayings : \E points \in Points(s) :
          said = s /\ dated /\ text = Text(s, points) /\ action = Action_parse(text)
    BY <1>2, Zenon DEF Parsed
  <2>1. PICK points \in Points(s) :
          said = s /\ dated /\ text = Text(s, points) /\ action = Action_parse(text)
    BY <2>0, Zenon
  <2>2. ASSUME Plain(said.source), Plain(said.target), said.verb # "bite"
        PROVE  action = Meaning(said)
    <3>1. Action_parse(Text(said, points)) = Meaning(said)
      BY <2>1, <2>2, LineMeant
    <3> QED BY <2>1, <3>1
  <2> QED BY <2>1, <2>2 DEF MeaningParsed
<1> QED BY <1>1, <1>2 DEF LineInv

(* Whatever the names are (plain, of words) and whatever the numbers:      *)
(* what Action_parse makes of a whole line, of any of the kinds and of any *)
(* verb but "bite", is the action the game meant by it, with its fighters, *)
(* its verb, its damage and whether it was magic.                          *)
THEOREM LinesMeanWhatTheySay == Spec => []MeaningParsed
BY LineAlways, LineSaid, PTL
-----------------------------------------------------------------------------
(* The port, on the same text.  It looks for the same phrases, *)
LEMMA SamePlaces ==
  ASSUME NEW f, NEW phrase
  PROVE  /\ \A i : PP!PhraseAt(f, i, phrase) = PhraseAt(f, i, phrase)
         /\ PP!Places(f, phrase) = Places(f, phrase)
         /\ PP!Place(f, phrase) = Place(f, phrase)
         /\ PP!Has(f, phrase) = Has(f, phrase)
<1>1. \A i : PP!PhraseAt(f, i, phrase) = PhraseAt(f, i, phrase)
  BY DEF PP!PhraseAt, PhraseAt, PP!Mark, Mark
<1>2. PP!Places(f, phrase) = Places(f, phrase)
  BY <1>1 DEF PP!Places, Places
<1>3. PP!Place(f, phrase) = Place(f, phrase)
  BY <1>2 DEF PP!Place, Place, PP!Min, Min
<1>4. PP!Has(f, phrase) = Has(f, phrase)
  BY <1>2 DEF PP!Has, Has
<1> QED BY <1>1, <1>2, <1>3, <1>4

(* cuts the same words out of it, *)
LEMMA SameCuts ==
  ASSUME NEW f
  PROVE  /\ \A i : PP!Before(f, i) = Before(f, i)
         /\ \A i : PP!After(f, i) = After(f, i)
         /\ \A i, j : PP!Between(f, i, j) = Between(f, i, j)
         /\ \A e : PP!EndsWith(f, e) = EndsWith(f, e)
         /\ \A e : PP!Without(f, e) = Without(f, e)
         /\ PP!ToInt(f) = ToInt(f)
         /\ PP!Last(f) = Last(f)
<1>1. /\ \A i : PP!Before(f, i) = Before(f, i)
      /\ \A i : PP!After(f, i) = After(f, i)
      /\ \A i, j : PP!Between(f, i, j) = Between(f, i, j)
      /\ \A e : PP!Without(f, e) = Without(f, e)
  BY DEF PP!Before, Before, PP!After, After, PP!Between, Between, PP!Without, Without
<1>2. \A e : PP!EndsWith(f, e) = EndsWith(f, e)
  BY DEF PP!EndsWith, EndsWith, PP!IsSuffix, IsSuffix, PP!IsPrefix, IsPrefix, PP!Reverse, Reverse
<1>3. PP!ToInt(f) = ToInt(f)
  BY DEF PP!ToInt, ToInt, PP!Gibberish, Gibberish
<1>4. PP!Last(f) = Last(f)
  BY DEF PP!Last, Last
<1> QED BY <1>1, <1>2, <1>3, <1>4

(* and has the same words for it. *)
LEMMA SameWords ==
  /\ PP!Unknown = Unknown
  /\ PP!PointsOfDamage = PointsOfDamage /\ PP!PointOfDamage = PointOfDamage
  /\ PP!Verbs = VerbWords
BY VerbWordsAre DEF PP!Unknown, Unknown, PP!PointsOfDamage, PointsOfDamage,
                    PP!PointOfDamage, PointOfDamage, PP!Verbs

(* Its table has no names for the verbs, but the same verbs: a hit begins  *)
(* where dps sees one begin.                                               *)
LEMMA SameVerbPlace ==
  ASSUME NEW f
  PROVE  /\ PP!HasTaken(f) = HasTaken(f)
         /\ \A i : PP!NonMeleeAt(f, i) = NonMeleeAt(f, i)
         /\ \A i : PP!HealedAt(f, i) = HealedAt(f, i)
         /\ PP!VerbPlace(f) = VerbPlace(f)
<1>1. PP!HasTaken(f) = HasTaken(f)
  BY SamePlaces DEF PP!HasTaken, HasTaken
<1>2. \A i : PP!NonMeleeAt(f, i) = NonMeleeAt(f, i)
  BY SamePlaces DEF PP!NonMeleeAt, NonMeleeAt
<1>3. \A i : PP!HealedAt(f, i) = HealedAt(f, i)
  BY SamePlaces DEF PP!HealedAt, HealedAt
<1>4. ASSUME NEW i PROVE PP!MeleeAt(f, i) <=> MeleeAt(f, i) # {}
  <2>1. PP!MeleeAt(f, i) <=> \E w \in VerbWords : PhraseAt(f, i, <<w>>)
    BY SamePlaces, SameWords DEF PP!MeleeAt
  <2>2. MeleeAt(f, i) # {} <=>
          \E v \in DOMAIN ActionVerbs : \E w \in ActionVerbs[v].put : PhraseAt(f, i, <<w>>)
    BY DEF MeleeAt
  <2>3. \A w : w \in VerbWords <=> \E v \in DOMAIN ActionVerbs : w \in ActionVerbs[v].put
    BY DEF VerbWords
  <2> QED BY <2>1, <2>2, <2>3, Zenon
<1> DEFINE at == {i \in 1..Len(f) : NonMeleeAt(f, i) \/ HealedAt(f, i) \/ MeleeAt(f, i) # {}}
           there == {i \in 1..Len(f) : PP!NonMeleeAt(f, i) \/ PP!HealedAt(f, i) \/ PP!MeleeAt(f, i)}
<1>5. at = there
  BY <1>2, <1>3, <1>4
<1>6. VerbPlace(f) = IF at = {} THEN 0 ELSE Min(at)
  BY DEF VerbPlace
<1>7. PP!VerbPlace(f) = IF there = {} THEN 0 ELSE PP!Min(there)
  BY DEF PP!VerbPlace
<1>8. PP!Min(there) = Min(there)
  BY DEF PP!Min, Min
<1> HIDE DEF at, there
<1>9. PP!VerbPlace(f) = VerbPlace(f)
  BY <1>5, <1>6, <1>7, <1>8
<1> QED BY <1>1, <1>2, <1>3, <1>9

(* The last of some places of a text. *)
LEMMA GreatestPlace ==
  ASSUME NEW n \in Nat, NEW T \in SUBSET (1..n), T # {}
  PROVE  Max(T) \in T /\ \A y \in T : y <= Max(T)
<1> DEFINE R == {n + 1 - i : i \in T}
<1>1. R \in SUBSET (1..n) /\ R # {}
  OBVIOUS
<1> DEFINE m == Min(R)
<1>2. m \in R /\ \A y \in R : m <= y
  <2> HIDE DEF R
  <2> QED BY <1>1, LeastPlace
<1> HIDE DEF m
<1>3. PICK p \in T : m = n + 1 - p
  BY <1>2
<1>4. ASSUME NEW y \in T PROVE y <= p
  <2>1. m <= n + 1 - y
    BY <1>2
  <2>2. y \in 1..n /\ p \in 1..n
    OBVIOUS
  <2> QED BY ONLY <1>3, <2>1, <2>2, n \in Nat
<1>5. \E x \in T : \A y \in T : x >= y
  <2>1. \A y \in T : p >= y
    BY <1>4
  <2> QED BY <2>1
<1>6. Max(T) \in T /\ \A y \in T : Max(T) >= y
  BY <1>5 DEF Max
<1> QED BY <1>6

(* The places of " for " from a word on. *)
Fors(f, from) == {i \in Places(f, <<"for">>) : i >= from}

(* Both count the damage from the last of them, wherever they look from. *)
LEMMA SameDamageFrom ==
  ASSUME NEW S, NEW f \in Seq(S), NEW from
  PROVE  /\ PP!ForPlaces(f, from) = Fors(f, from)
         /\ Fors(f, from) \in SUBSET (1..Len(f))
         /\ Fors(f, from) = {} => ForPlace(f, from) = 0
         /\ Fors(f, from) # {} => ForPlace(f, from) = Max(Fors(f, from))
         /\ PP!DamageFrom(f, from) = DamageFrom(f, from)
<1> DEFINE F == Fors(f, from)
<1>1. PP!ForPlaces(f, from) = F
  BY SamePlaces DEF PP!ForPlaces, Fors
<1>2. ForPlace(f, from) = IF F = {} THEN 0 ELSE Max(F)
  BY DEF ForPlace, Fors
<1>3. PP!DamageFrom(f, from) = IF F = {} THEN 0 ELSE ToInt(After(f, Max(F)))
  <2>1. PP!Max(F) = Max(F)
    BY DEF PP!Max, Max
  <2>2. PP!ToInt(PP!After(f, Max(F))) = ToInt(After(f, Max(F)))
    BY SameCuts
  <2> HIDE DEF F
  <2> QED BY <1>1, <2>1, <2>2 DEF PP!DamageFrom
<1>4. F \in SUBSET (1..Len(f)) /\ Len(f) \in Nat
  BY DEF Fors, Places
<1> HIDE DEF F
<1>5. F # {} => Max(F) # 0
  <2>1. F # {} => Max(F) \in F
    BY <1>4, GreatestPlace
  <2> QED BY <1>4, <2>1
<1>6. PP!DamageFrom(f, from) = DamageFrom(f, from)
  BY <1>2, <1>3, <1>5 DEF DamageFrom
<1> QED BY <1>1, <1>2, <1>4, <1>6 DEF F

(* A target that ends at the last " for " ends at the only one, unless it  *)
(* holds another.                                                          *)
LEMMA SameTarget ==
  ASSUME NEW S, NEW f \in Seq(S), NEW i \in 1..Len(f),
         Between(f, i, ForPlace(f, i + 2)) # << >>,
         ~ForIn(Between(f, i, ForPlace(f, i + 2)))
  PROVE  PP!TargetAfter(f, i) = Between(f, i, ForPlace(f, i + 2))
<1> DEFINE F == Fors(f, i + 2)
           p == ForPlace(f, i + 2)
           b == Between(f, i, p)
<1>1. /\ PP!ForPlaces(f, i + 2) = F /\ F \in SUBSET (1..Len(f))
      /\ F = {} => p = 0
      /\ F # {} => p = Max(F)
  BY SameDamageFrom
<1>2. \A q \in F : q \in 1..Len(f) /\ q >= i + 2 /\ f[q] = "for"
  <2> SUFFICES ASSUME NEW q \in F PROVE q \in 1..Len(f) /\ q >= i + 2 /\ f[q] = "for"
    OBVIOUS
  <2>1. q \in 1..Len(f) /\ q >= i + 2 /\ PhraseAt(f, q, <<"for">>)
    BY DEF Fors, Places
  <2> DEFINE phrase == <<"for">>
  <2>2. Len(phrase) \in Nat /\ Len(phrase) >= 1 /\ phrase[1] = "for"
    OBVIOUS
  <2>3. PhraseAt(f, q, phrase)
    BY <2>1
  <2> HIDE DEF phrase, F
  <2>4. q \in Int
    BY <2>1
  <2>5. f[q] = phrase[1]
    BY <2>2, <2>3, <2>4, PhraseFirst, Zenon
  <2> QED BY <2>1, <2>2, <2>5
<1>3. Len(f) \in Nat /\ i \in 1..Len(f)
  OBVIOUS
<1>4. b # << >> /\ ~ForIn(b)
  OBVIOUS
<1>5. b = SubSeq(f, i + 1, p - 1)
  BY DEF Between
<1> HIDE DEF F, p, b
<1>6. F # {}
  <2> SUFFICES ASSUME F = {} PROVE FALSE
    OBVIOUS
  <2>1. p = 0
    BY <1>1
  <2> DEFINE m == i + 1
             k == p - 1
  <2>2. m \in Int /\ k \in Int /\ ~(m <= k) /\ \A j \in m..k : f[j] \in S
    BY ONLY <1>3, <2>1
  <2>3. b = SubSeq(f, m, k)
    BY <1>5
  <2> HIDE DEF m, k
  <2>4. b \in Seq(S) /\ Len(b) = (IF m <= k THEN k - m + 1 ELSE 0)
    BY <2>2, <2>3, SubSeqProperties
  <2>5. Len(b) = 0
    BY <2>2, <2>4
  <2> QED BY ONLY <1>4, <2>4, <2>5
<1>7. p \in F /\ \A q \in F : q <= p
  BY <1>1, <1>3, <1>6, GreatestPlace
<1>8. ASSUME NEW q \in F, q # p PROVE FALSE
  <2>1. q \in 1..Len(f) /\ q >= i + 2 /\ f[q] = "for" /\ q <= p /\ p \in 1..Len(f)
    BY <1>2, <1>7
  <2> DEFINE m == i + 1
             k == p - 1
             r == q - i
  <2>2. m \in Int /\ k \in Int /\ m <= k /\ k \in 1..Len(f) /\ m \in 1..Len(f)
        /\ r \in 1..(k - m + 1) /\ m + r - 1 = q
    BY ONLY <1>3, <1>8, <2>1
  <2>3. b = SubSeq(f, m, k)
    BY <1>5
  <2>4. \A j \in m..k : f[j] \in S
    <3>1. \A j \in m..k : j \in 1..Len(f)
      BY ONLY <1>3, <2>2
    <3> QED BY <3>1
  <2> HIDE DEF m, k, r
  <2>5. /\ b \in Seq(S) /\ Len(b) = (IF m <= k THEN k - m + 1 ELSE 0)
        /\ \A j \in 1..(k - m + 1) : b[j] = f[m + j - 1]
    BY <2>2, <2>3, <2>4, SubSeqProperties
  <2>6. b[r] = "for" /\ r \in 1..Len(b)
    BY ONLY <2>1, <2>2, <2>5
  <2>7. "for" \in ToSet(b)
    BY <2>5, <2>6 DEF ToSet
  <2> QED BY <1>4, <2>7 DEF ForIn
<1>9. F = {p}
  BY <1>7, <1>8
<1>10. PP!Cardinality({p}) = 1
  <2>1. PP!Cardinality({p}) = Cardinality({p})
    BY DEF PP!Cardinality, Cardinality
  <2> QED BY <2>1, FS_Singleton
<1>11. PP!Min({p}) = p
  <2>1. p \in 1..Len(f)
    BY <1>1, <1>7
  <2>2. p <= p
    BY <2>1
  <2> QED BY <2>2 DEF PP!Min
<1>12. PP!TargetAfter(f, i) = PP!Between(f, i, p)
  BY <1>1, <1>9, <1>10, <1>11 DEF PP!TargetAfter
<1>13. PP!TargetAfter(f, i) = b
  BY <1>12, SameCuts DEF b
<1> QED BY <1>13 DEF b, p

(* What SameAsDpsPP says of what the two parsers make of a line that is no *)
(* try.                                                                    *)
Agree(a, b) ==
  /\ b.type = a.type
  /\ b.damage = a.damage
  /\ a.type # "MAGIC" => b.source = a.source
  /\ \/ b.target = a.target
     \/ a.type = "MELEE" /\ ForIn(a.target)

(* They agree on nothing. *)
LEMMA UnknownAgrees == Agree(Unknown, PP!Unknown)
BY SameWords DEF Agree

(* They agree on a hit, a spell and a healing, if the hit has a target: it *)
(* ends at a " for ", then.                                                *)
LEMMA DamageAgrees ==
  ASSUME NEW S, NEW d \in Seq(S),
         ParseDamage(d).type = "MELEE" => ParseDamage(d).target # << >>
  PROVE  Agree(ParseDamage(d), PP!ParseDamage(d))
<1> DEFINE i == VerbPlace(d)
           a == ParseDamage(d)
           b == PP!ParseDamage(d)
<1>1. /\ PP!HasTaken(d) = HasTaken(d)
      /\ PP!NonMeleeAt(d, i) = NonMeleeAt(d, i)
      /\ PP!HealedAt(d, i) = HealedAt(d, i)
      /\ PP!VerbPlace(d) = i
      /\ PP!Before(d, i) = Before(d, i)
  BY SameVerbPlace, SameCuts
<1>2. i = 0 \/ i \in 1..Len(d)
  BY VerbPlaceIs
<1>3. \A from : PP!DamageFrom(d, from) = DamageFrom(d, from)
  BY SameDamageFrom
<1>4. CASE HasTaken(d)
  <2>1. PP!ToInt(<<PP!Last(d)>>) = ToInt(<<Last(d)>>)
    BY SameCuts
  <2>2. a.type = "MAGIC" /\ a.target = Me /\ a.damage = ToInt(<<Last(d)>>)
    BY <1>4 DEF ParseDamage
  <2>3. b.type = "MAGIC" /\ b.target = Me /\ b.damage = PP!ToInt(<<PP!Last(d)>>)
    BY <1>1, <1>4 DEF PP!ParseDamage
  <2> QED BY <2>1, <2>2, <2>3 DEF Agree
<1>5. CASE ~HasTaken(d) /\ i = 0
  <2>1. a = Unknown
    BY <1>5 DEF ParseDamage
  <2>2. b = PP!Unknown
    BY <1>1, <1>5 DEF PP!ParseDamage
  <2> QED BY <2>1, <2>2, UnknownAgrees
<1>6. CASE ~HasTaken(d) /\ i # 0
  <2>1. i > 0 /\ i \in 1..Len(d)
    BY <1>2, <1>6
  <2> HIDE DEF i
  <2>2. CASE NonMeleeAt(d, i) /\ ~HealedAt(d, i)
    <3>1. a.type = "MAGIC" /\ a.target = Before(d, i) /\ a.damage = DamageFrom(d, i + 4)
      BY <1>6, <2>1, <2>2 DEF ParseDamage, i
    <3>2. b.type = "MAGIC" /\ b.target = Before(d, i) /\ b.damage = PP!DamageFrom(d, i + 4)
      BY <1>1, <1>6, <2>1, <2>2 DEF PP!ParseDamage
    <3> QED BY <1>3, <3>1, <3>2 DEF Agree
  <2>3. CASE ~NonMeleeAt(d, i) /\ HealedAt(d, i)
    <3>1. /\ a.type = "HEAL" /\ a.source = << >> /\ a.target = Before(d, i)
          /\ a.damage = DamageFrom(d, i + 3)
      BY <1>6, <2>1, <2>3 DEF ParseDamage, i
    <3>2. /\ b.type = "HEAL" /\ b.source = << >> /\ b.target = Before(d, i)
          /\ b.damage = PP!DamageFrom(d, i + 3)
      BY <1>1, <1>6, <2>1, <2>3 DEF PP!ParseDamage
    <3> QED BY <1>3, <3>1, <3>2 DEF Agree
  <2>4. ~(NonMeleeAt(d, i) /\ HealedAt(d, i))
    <3> SUFFICES ASSUME NonMeleeAt(d, i), HealedAt(d, i) PROVE FALSE
      OBVIOUS
    <3>1. d[i] \in {"was", "were"}
      BY <2>1, HitByWords
    <3>2. d[i] = "have"
      BY <2>1, HealedWords
    <3> QED BY <3>1, <3>2
  <2>5. CASE ~NonMeleeAt(d, i) /\ ~HealedAt(d, i)
    <3> DEFINE t == Between(d, i, ForPlace(d, i + 2))
    <3>1. /\ a.type = "MELEE" /\ a.source = Before(d, i) /\ a.target = t
          /\ a.damage = DamageFrom(d, i + 2)
      BY <1>6, <2>1, <2>5 DEF ParseDamage, i
    <3>2. /\ b.type = "MELEE" /\ b.source = Before(d, i) /\ b.target = PP!TargetAfter(d, i)
          /\ b.damage = PP!DamageFrom(d, i + 2)
      BY <1>1, <1>6, <2>1, <2>5 DEF PP!ParseDamage
    <3>3. t # << >>
      BY <3>1
    <3>4. ForIn(t) \/ PP!TargetAfter(d, i) = t
      BY <2>1, <3>3, SameTarget
    <3> QED BY <1>3, <3>1, <3>2, <3>4 DEF Agree
  <2> QED BY <2>2, <2>3, <2>4, <2>5
<1> QED BY <1>4, <1>5, <1>6

(* The same of the line that the points of damage end; *)
LEMMA StatementAgrees ==
  ASSUME NEW f, Listed(f),
         ParseStatement(f).type = "MELEE" => ParseStatement(f).target # << >>
  PROVE  Agree(ParseStatement(f), PP!ParseStatement(f))
<1> DEFINE died == <<"died", ".">>
           a == ParseStatement(f)
           b == PP!ParseStatement(f)
<1>1. /\ \A e : PP!EndsWith(f, e) = EndsWith(f, e)
      /\ \A e : PP!Without(f, e) = Without(f, e)
  BY SameCuts
<1>2. ASSUME NEW p \in ThePoints, EndsWith(f, p),
             a = ParseDamage(Without(f, p)), b = PP!ParseDamage(Without(f, p))
      PROVE  Agree(a, b)
  <2> DEFINE d == Without(f, p)
  <2>1. PICK S : f \in Seq(S)
    BY DEF Listed
  <2>2. Len(p) = 4 /\ Len(p) \in Nat /\ Len(f) \in Nat
    BY <2>1, ThePointsAre
  <2>3. Len(f) > Len(p)
    BY <1>2 DEF EndsWith
  <2>4. Len(f) - Len(p) \in 0..Len(f)
    BY ONLY <2>2, <2>3
  <2>5. Listed(d)
    BY <2>4, BeginningIs DEF Without, Begins
  <2>6. PICK T : d \in Seq(T)
    BY <2>5 DEF Listed
  <2>7. ParseDamage(d).type = "MELEE" => ParseDamage(d).target # << >>
    BY <1>2
  <2> HIDE DEF d, a, b
  <2>8. Agree(ParseDamage(d), PP!ParseDamage(d))
    BY <2>6, <2>7, DamageAgrees
  <2> QED BY <1>2, <2>8 DEF d
<1>3. PointsOfDamage \in ThePoints /\ PointOfDamage \in ThePoints
  BY DEF ThePoints
<1>4. CASE EndsWith(f, PointsOfDamage) /\ ~EndsWith(f, PointOfDamage) /\ ~EndsWith(f, died)
  <2>1. a = ParseDamage(Without(f, PointsOfDamage))
    BY <1>4 DEF ParseStatement
  <2>2. b = PP!ParseDamage(Without(f, PointsOfDamage))
    BY <1>1, <1>4, SameWords DEF PP!ParseStatement
  <2> QED BY <1>2, <1>3, <1>4, <2>1, <2>2
<1>5. CASE ~EndsWith(f, PointsOfDamage) /\ EndsWith(f, PointOfDamage) /\ ~EndsWith(f, died)
  <2>1. a = ParseDamage(Without(f, PointOfDamage))
    BY <1>5 DEF ParseStatement
  <2>2. b = PP!ParseDamage(Without(f, PointOfDamage))
    BY <1>1, <1>5, SameWords DEF PP!ParseStatement
  <2> QED BY <1>2, <1>3, <1>5, <2>1, <2>2
<1>6. CASE ~EndsWith(f, PointsOfDamage) /\ ~EndsWith(f, PointOfDamage) /\ EndsWith(f, died)
  <2>1. a = [Unknown EXCEPT !.type = "DEATH", !.verb = <<"died">>,
                            !.target = Without(f, died)]
    BY <1>6 DEF ParseStatement
  <2>2. b = [PP!Unknown EXCEPT !.type = "DEATH", !.verb = <<"died">>,
                               !.target = Without(f, died)]
    BY <1>1, <1>6, SameWords DEF PP!ParseStatement
  <2> HIDE DEF died
  <2>3. a = b
    BY <2>1, <2>2, SameWords
  <2> QED BY <2>3 DEF Agree
<1>7. CASE ~EndsWith(f, PointsOfDamage) /\ ~EndsWith(f, PointOfDamage) /\ ~EndsWith(f, died)
  <2>1. a = Unknown
    BY <1>7 DEF ParseStatement
  <2>2. b = PP!Unknown
    BY <1>1, <1>7, SameWords DEF PP!ParseStatement
  <2> QED BY <2>1, <2>2, UnknownAgrees
<1>8. /\ ~(EndsWith(f, PointsOfDamage) /\ EndsWith(f, PointOfDamage))
      /\ ~(EndsWith(f, PointsOfDamage) /\ EndsWith(f, died))
      /\ ~(EndsWith(f, PointOfDamage) /\ EndsWith(f, died))
  <2>0. Len(f) \in Nat
    BY ListedLength
  <2>1. \A p \in ThePoints : EndsWith(f, p) =>
           f[Len(f) - 1] = "damage" /\ f[Len(f) - 3] = p[1]
    <3> SUFFICES ASSUME NEW p \in ThePoints, EndsWith(f, p)
                 PROVE  f[Len(f) - 1] = "damage" /\ f[Len(f) - 3] = p[1]
      OBVIOUS
    <3>1. Len(p) = 4 /\ Len(p) \in Nat /\ p[3] = "damage"
      BY ThePointsAre
    <3>2. \A k \in 0..(Len(p) - 1) : f[Len(f) - k] = p[Len(p) - k]
      BY <2>0, <3>1, EndsWithIs
    <3>3. 1 \in 0..(Len(p) - 1) /\ 3 \in 0..(Len(p) - 1) /\ Len(p) - 1 = 3 /\ Len(p) - 3 = 1
      BY ONLY <3>1
    <3>4. f[Len(f) - 1] = p[3] /\ f[Len(f) - 3] = p[1]
      BY <3>2, <3>3
    <3> QED BY <3>1, <3>4
  <2>2. PointsOfDamage[1] # PointOfDamage[1]
    BY DEF PointsOfDamage, PointOfDamage
  <2>3. EndsWith(f, died) => f[Len(f) - 1] # "damage"
    BY NoDeath
  <2> HIDE DEF died
  <2> QED BY <1>3, <2>1, <2>2, <2>3
<1> HIDE DEF died
<1> QED BY <1>4, <1>5, <1>6, <1>7, <1>8, Zenon

(* of announcements, *)
LEMMA AnnouncementAgrees ==
  ASSUME NEW f
  PROVE  Agree(ParseAnnouncement(f), PP!ParseAnnouncement(f))
<1> DEFINE T == {"CRIT", "CRIP", "HOLYBLADE"}
           Of(t) == Announcement[t]
           Act(t) == [Unknown EXCEPT !.type = t, !.source = Before(f, Place(f, Of(t))),
                        !.damage = ToInt(Between(f, Place(f, Of(t)) + Len(Of(t)) - 1, Len(f)))]
<1>1. DOMAIN Announcement = T
  BY DEF Announcement
<1>2. /\ Of("CRIT") = PP!CriticalHit /\ Of("CRIP") = PP!CripplingBlow
      /\ Of("HOLYBLADE") = PP!HolyBlade
  BY DEF Announcement, PP!CriticalHit, PP!CripplingBlow, PP!HolyBlade
<1>3. \A t : Announces(f, t) <=> Has(f, Of(t))
  BY DEF Announces
<1>4. ParseAnnouncement(f) =
        IF \A t \in T : ~Has(f, Of(t)) THEN Unknown
        ELSE Act(CASE Has(f, Of("CRIT")) -> "CRIT"
                   [] ~Has(f, Of("CRIT")) /\ Has(f, Of("CRIP")) -> "CRIP"
                   [] OTHER -> "HOLYBLADE")
  BY <1>1, <1>3 DEF ParseAnnouncement
<1>5. ASSUME NEW phrase, NEW t
      PROVE  PP!Announced(f, phrase, t) =
               [Unknown EXCEPT !.type = t, !.source = Before(f, Place(f, phrase)),
                  !.damage = ToInt(Between(f, Place(f, phrase) + Len(phrase) - 1, Len(f)))]
  <2> DEFINE i == Place(f, phrase)
  <2>1. PP!Place(f, phrase) = i /\ PP!Before(f, i) = Before(f, i)
    BY SamePlaces, SameCuts
  <2>2. \A k : PP!ToInt(PP!Between(f, k, Len(f))) = ToInt(Between(f, k, Len(f)))
    BY SameCuts
  <2> HIDE DEF i
  <2>3. PP!Announced(f, phrase, t) =
          [Unknown EXCEPT !.type = t, !.source = Before(f, i),
             !.damage = ToInt(Between(f, i + Len(phrase) - 1, Len(f)))]
    BY <2>1, <2>2, SameWords DEF PP!Announced
  <2> QED BY <2>3 DEF i
<1>6. \A t : PP!Announced(f, Of(t), t) = Act(t)
  BY <1>5
<1>7. \A phrase : PP!Has(f, phrase) = Has(f, phrase)
  BY SamePlaces
<1> HIDE DEF Of, Act
<1>8. PP!ParseAnnouncement(f) =
        IF Has(f, Of("CRIT")) THEN Act("CRIT")
        ELSE IF Has(f, Of("CRIP")) THEN Act("CRIP")
        ELSE IF Has(f, Of("HOLYBLADE")) THEN Act("HOLYBLADE")
        ELSE Unknown
  BY <1>2, <1>6, <1>7, SameWords DEF PP!ParseAnnouncement
<1>9. PP!ParseAnnouncement(f) = ParseAnnouncement(f)
  BY <1>4, <1>8
<1> QED BY <1>9 DEF Agree

(* and of deaths with a killer. *)
LEMMA ExclamationAgrees ==
  ASSUME NEW f, Listed(f), Tries(f) = 0
  PROVE  Agree(ParseExclamation(f), PP!ParseExclamation(f))
<1> DEFINE slain == <<"have", "slain">>
           has == HasBeenSlainBy
           have == HaveBeenSlainBy
           a == ParseExclamation(f)
           b == PP!ParseExclamation(f)
<1>1. /\ \A phrase : PP!Has(f, phrase) = Has(f, phrase)
      /\ \A phrase : PP!Place(f, phrase) = Place(f, phrase)
      /\ \A i : PP!Before(f, i) = Before(f, i)
      /\ \A i, j : PP!Between(f, i, j) = Between(f, i, j)
  BY SamePlaces, SameCuts
<1>2. PICK S : f \in Seq(S)
  BY DEF Listed
<1>3. ASSUME NEW phrase
      PROVE  /\ ~Has(f, phrase) => Place(f, phrase) = 0
             /\ Has(f, phrase) => Place(f, phrase) \in 1..Len(f) /\ Place(f, phrase) # 0
  <2>1. Has(f, phrase) => Place(f, phrase) \in 1..Len(f)
    BY <1>2, PlaceIs
  <2>2. ~Has(f, phrase) => Place(f, phrase) = 0
    BY <1>2, PlaceIs
  <2> QED BY <2>1, <2>2
<1>4. CASE Has(f, slain)
  <2> DEFINE i == Place(f, slain)
             act == [Unknown EXCEPT !.type = "DEATH", !.verb = slain,
                       !.source = Before(f, i), !.target = Between(f, i + 1, Len(f))]
  <2>1. i # 0
    BY <1>3, <1>4
  <2>2. a = act
    BY <1>4 DEF ParseExclamation, ParseSlain
  <2>3. PP!Place(f, slain) = i /\ PP!Before(f, i) = Before(f, i)
        /\ PP!Between(f, i + 1, Len(f)) = Between(f, i + 1, Len(f))
    BY <1>1
  <2>4. b = act
    <3> HIDE DEF i
    <3> QED BY <2>1, <2>3, SameWords DEF PP!ParseExclamation
  <2> QED BY <2>2, <2>4 DEF Agree
<1>5. ASSUME NEW phrase \in {has, have}, Has(f, phrase), ~Has(f, slain),
             phrase = have => ~Has(f, has)
      PROVE  Agree(a, b)
  <2> DEFINE i == Place(f, phrase)
  <2>1. Place(f, slain) = 0
    BY <1>3, <1>5
  <2>2. has # have /\ Len(has) = 4 /\ Len(have) = 4
    BY DEF HasBeenSlainBy, HaveBeenSlainBy
  <2>3. Len(phrase) = 4
    BY <2>2
  <2>4. i \in Int
    BY <1>3, <1>5
  <2>5. a = ParseSlainBy(f, phrase)
    <3>1. CASE phrase = has
      BY <1>5, <3>1 DEF ParseExclamation
    <3>2. CASE phrase = have
      BY <1>5, <3>2 DEF ParseExclamation
    <3> QED BY <3>1, <3>2
  <2>6. b = PP!SlainBy(f)
    <3>1. Has(f, has) \/ Has(f, have)
      BY <1>5
    <3> QED BY <1>1, <2>1, <3>1 DEF PP!ParseExclamation, HasBeenSlainBy, HaveBeenSlainBy
  <2>7. (IF Place(f, has) # 0 THEN Place(f, has) ELSE Place(f, have)) = i
    <3>1. CASE phrase = has
      BY <1>3, <1>5, <3>1
    <3>2. CASE phrase = have
      BY <1>3, <1>5, <3>2
    <3> QED BY <3>1, <3>2
  <2> HIDE DEF i, a, b
  <2>8. /\ a.type = "DEATH" /\ a.damage = 0 /\ a.target = Before(f, i)
        /\ a.source = Between(f, i + 3, Len(f))
    <3>1. i + Len(phrase) - 1 = i + 3
      BY ONLY <2>3, <2>4
    <3> QED BY <2>5, <3>1 DEF ParseSlainBy, Unknown, i
  <2>9. /\ b.type = "DEATH" /\ b.damage = 0 /\ b.target = Before(f, i)
        /\ b.source = Between(f, i + 3, Len(f))
    <3>1. (IF PP!Place(f, has) # 0 THEN PP!Place(f, has) ELSE PP!Place(f, have)) = i
      BY <1>1, <2>7
    <3>2. \E verb : b = [PP!Unknown EXCEPT !.type = "DEATH", !.verb = verb,
                           !.target = PP!Before(f, i), !.source = PP!Between(f, i + 3, Len(f))]
      BY <2>6, <3>1 DEF PP!SlainBy, HasBeenSlainBy, HaveBeenSlainBy
    <3> QED BY <1>1, <3>2 DEF PP!Unknown
  <2> QED BY <2>8, <2>9 DEF Agree
<1>6. CASE ~Has(f, slain) /\ ~Has(f, has) /\ ~Has(f, have)
  <2>1. a = Unknown
    BY <1>6 DEF ParseExclamation
  <2>2. PP!Place(f, slain) = 0
    BY <1>1, <1>3, <1>6
  <2>3. b = PP!Unknown
    BY <1>1, <1>6, <2>2 DEF PP!ParseExclamation, HasBeenSlainBy, HaveBeenSlainBy
  <2> QED BY <2>1, <2>3, UnknownAgrees
<1>7. has \in {has, have} /\ have \in {has, have} /\ has # have
  BY DEF HasBeenSlainBy, HaveBeenSlainBy
<1>8. CASE ~Has(f, slain) /\ Has(f, has)
  BY <1>5, <1>7, <1>8, Zenon
<1>9. CASE ~Has(f, slain) /\ ~Has(f, has) /\ Has(f, have)
  BY <1>5, <1>7, <1>9, Zenon
<1> QED BY <1>4, <1>6, <1>8, <1>9, Zenon

(* Without a stop at the end there is none for either parser. *)
LEMMA NoStopAtEnd ==
  ASSUME NEW f, Listed(f), Len(f) > 0 => f[Len(f)] \notin Stops
  PROVE  LastMark(f) \notin Stops /\ PP!LastMark(f) \notin Stops
<1>1. Len(f) \in Nat
  BY ListedLength
<1>2. CASE Len(f) > 0
  BY <1>2, LastMarkIs
<1>3. CASE ~(Len(f) > 0)
  <2>1. PICK S : f \in Seq(S)
    BY DEF Listed
  <2>2. f = << >>
    BY <1>1, <1>3, <2>1
  <2>3. NoWord \notin Stops /\ PP!NoWord \notin Stops
    BY DEF Stops, NoWord, PP!NoWord
  <2> QED BY <2>2, <2>3 DEF LastMark, PP!LastMark
<1> QED BY <1>2, <1>3

(* A text that is told as a statement, an announcement or a death. *)
LEMMA TextAgrees ==
  ASSUME NEW f, Listed(f), Named(Action_parse(f)),
         Len(f) > 0 /\ f[Len(f)] = "!" => Tries(f) = 0
  PROVE  /\ Action_parse(f).type \notin EndingTypes
         /\ Agree(Action_parse(f), PP!Action_parse(f))
<1> DEFINE a == Action_parse(f)
           b == PP!Action_parse(f)
<1>0. Len(f) \in Nat
  BY ListedLength
<1>1. CASE Len(f) = 0 \/ f[Len(f)] \notin Stops
  <2>1. PICK S : f \in Seq(S)
    BY DEF Listed
  <2>2. Len(f) > 0 => f[Len(f)] \notin Stops
    BY <1>1
  <2>3. LastMark(f) \notin Stops /\ PP!LastMark(f) \notin Stops
    BY <2>2, NoStopAtEnd
  <2>4. a = Unknown /\ b = PP!Unknown
    BY <2>3 DEF Action_parse, PP!Action_parse, Stops
  <2> QED BY <2>4, UnknownAgrees DEF Unknown, EndingTypes
<1>2. CASE Len(f) > 0 /\ f[Len(f)] = "."
  <2>1. LastMark(f) = "." /\ PP!LastMark(f) = "."
    BY <1>2, LastMarkIs
  <2>2. a = ParseStatement(f) /\ b = PP!ParseStatement(f)
    BY <2>1 DEF Action_parse, PP!Action_parse
  <2>3. a.type = "MELEE" => a.target # << >>
    BY DEF Named, Nobody
  <2> HIDE DEF a, b
  <2>4. Agree(a, b)
    BY <2>2, <2>3, StatementAgrees
  <2>5. ParseStatement(f).type \in {"MELEE", "MAGIC", "HEAL", "DEATH", "UNKNOWN"}
    <3>1. \A d : ParseDamage(d).type \in {"MELEE", "MAGIC", "HEAL", "UNKNOWN"}
      BY DEF ParseDamage, Unknown
    <3> QED BY <3>1 DEF ParseStatement, Unknown
  <2> QED BY <2>2, <2>4, <2>5 DEF EndingTypes, a, b
<1>3. CASE Len(f) > 0 /\ f[Len(f)] = ")"
  <2>1. LastMark(f) = ")" /\ PP!LastMark(f) = ")"
    BY <1>3, LastMarkIs
  <2>2. a = ParseAnnouncement(f) /\ b = PP!ParseAnnouncement(f)
    BY <2>1 DEF Action_parse, PP!Action_parse
  <2>3. ParseAnnouncement(f).type \in {"UNKNOWN", "CRIT", "CRIP", "HOLYBLADE"}
    BY DEF ParseAnnouncement, Unknown
  <2> HIDE DEF a, b
  <2> QED BY <2>2, <2>3, AnnouncementAgrees DEF EndingTypes, a, b
<1>4. CASE Len(f) > 0 /\ f[Len(f)] = "!"
  <2>1. LastMark(f) = "!" /\ PP!LastMark(f) = "!"
    BY <1>4, LastMarkIs
  <2>2. a = ParseExclamation(f) /\ b = PP!ParseExclamation(f)
    BY <2>1 DEF Action_parse, PP!Action_parse
  <2>3. Tries(f) = 0
    BY <1>4
  <2>4. ParseExclamation(f).type \in {"DEATH", "UNKNOWN"}
    BY <2>3 DEF ParseExclamation, ParseSlain, ParseSlainBy, Unknown
  <2> HIDE DEF a, b
  <2> QED BY <2>2, <2>3, <2>4, ExclamationAgrees DEF EndingTypes, a, b
<1> QED BY <1>0, <1>1, <1>2, <1>3, <1>4 DEF Stops
-----------------------------------------------------------------------------
(* Of a try the port makes nothing: there is no death in its words. *)
KillPairs == {<<"have", "slain">>, <<"been", "slain">>}

(* A text without a pair of P, and its last word. *)
EndsFree(f, P, w) == Listed(f) /\ Len(f) > 0 /\ Free(f, P) /\ f[Len(f)] = w

(* Two such texts joined, that do not meet in a pair. *)
LEMMA EndsFreeJoins ==
  ASSUME NEW P, NEW a, NEW b, NEW u, NEW w, EndsFree(a, P, u), EndsFree(b, P, w),
         <<u, b[1]>> \notin P
  PROVE  EndsFree(a \o b, P, w)
<1> DEFINE f == a \o b
<1>1. /\ Listed(a) /\ Len(a) > 0 /\ Free(a, P) /\ a[Len(a)] = u
      /\ Listed(b) /\ Len(b) > 0 /\ Free(b, P) /\ b[Len(b)] = w
  BY DEF EndsFree
<1>2. Joins(f, a, b)
  BY <1>1, Joined
<1> HIDE DEF f
<1>3. <<a[Len(a)], b[1]>> \notin P
  BY <1>1
<1>4. Free(f, P)
  BY <1>1, <1>2, <1>3, FreeJoins
<1>5. Listed(f) /\ f[Len(f)] = w
  BY <1>1, <1>2, JoinsEnds DEF Joins
<1>6. Len(f) > 0
  <2>1. Len(f) = Len(a) + Len(b) /\ Len(a) \in Nat /\ Len(b) \in Nat
    BY <1>1, <1>2, ListedLength DEF Joins
  <2> QED BY ONLY <1>1, <2>1
<1>7. EndsFree(f, P, w)
  BY <1>4, <1>5, <1>6 DEF EndsFree
<1> QED BY <1>7 DEF f

(* Neighbours that are no pair: *)
LEMMA NoKill ==
  ASSUME NEW u, NEW v, u \notin {"have", "been"} \/ v # "slain"
  PROVE  <<u, v>> \notin KillPairs
BY DEF KillPairs

(* a word, two words, *)
LEMMA WordsEndFree ==
  /\ \A u : EndsFree(<<u>>, KillPairs, u)
  /\ \A u, v : u \notin {"have", "been"} => EndsFree(<<u, v>>, KillPairs, v)
<1>1. ASSUME NEW u PROVE EndsFree(<<u>>, KillPairs, u)
  <2> DEFINE f == <<u>>
  <2>1. Listed(f) /\ Len(f) = 1 /\ f[1] = u /\ Free(f, KillPairs)
    BY OneWord
  <2> HIDE DEF f
  <2>2. EndsFree(f, KillPairs, u)
    BY <2>1 DEF EndsFree
  <2> QED BY <2>2 DEF f
<1>2. ASSUME NEW u, NEW v, u \notin {"have", "been"} PROVE EndsFree(<<u, v>>, KillPairs, v)
  <2> DEFINE f == <<u, v>>
  <2>1. Listed(f) /\ Len(f) = 2 /\ f[1] = u /\ f[2] = v
    BY Two
  <2> HIDE DEF f
  <2>2. Free(f, KillPairs)
    <3>1. \A k \in 1..(Len(f) - 1) : k = 1 /\ k + 1 = 2
      BY <2>1
    <3>2. <<f[1], f[2]>> \notin KillPairs
      BY <1>2, <2>1, NoKill
    <3> QED BY <3>1, <3>2 DEF Free
  <2>3. EndsFree(f, KillPairs, v)
    BY <2>1, <2>2 DEF EndsFree
  <2> QED BY <2>3 DEF f
<1> QED BY <1>1, <1>2

(* a fighter, *)
LEMMA FighterEndsFree ==
  ASSUME NEW f \in Fighters
  PROVE  EndsFree(f, KillPairs, f[Len(f)])
<1>1. Listed(f) /\ Len(f) > 0 /\ Free(f, Pairs)
  BY FighterParts
<1>2. \A x \in KillPairs : x \in Pairs
  BY DEF KillPairs, Pairs
<1>3. Free(f, KillPairs)
  BY <1>1, <1>2 DEF Free
<1> QED BY <1>1, <1>3 DEF EndsFree

(* the longest of the endings. *)
LEMMA AbsorbsEndFree == EndsFree(Absorbs, KillPairs, "!")
<1>1. Listed(Absorbs) /\ Len(Absorbs) = 6 /\ Absorbs[6] = "!"
  BY AbsorbsIs
<1>2. Free(Absorbs, KillPairs)
  <2> SUFFICES ASSUME NEW k \in 1..5 PROVE <<Absorbs[k], Absorbs[k + 1]>> \notin KillPairs
    BY <1>1 DEF Free
  <2>1. k = 1 \/ k = 2 \/ k = 3 \/ k = 4 \/ k = 5
    OBVIOUS
  <2>2. Absorbs[k] \in {"magical", "skin", "absorbs", "the", "blow"}
    BY <2>1 DEF Absorbs
  <2>3. Absorbs[k] \notin {"have", "been"}
    BY <2>2
  <2> QED BY <2>3, NoKill
<1> QED BY <1>1, <1>2 DEF EndsFree

(* The text of a try up to its ", but" has none, *)
LEMMA TriedEndsFree ==
  ASSUME NEW source \in Fighters, NEW target \in Fighters, NEW tries \in {"try", "tries"},
         NEW verb, verb \notin {"have", "been"}
  PROVE  EndsFree(TriedText(source, tries, verb, target), KillPairs, "but")
<1> DEFINE P == KillPairs
           u == <<tries>>
           t == <<"to", verb>>
           z == <<",", "but">>
           v == source[Len(source)]
           w == target[Len(target)]
<1>1. EndsFree(source, P, v) /\ EndsFree(target, P, w)
  BY FighterEndsFree
<1>2. EndsFree(u, P, tries) /\ EndsFree(t, P, verb) /\ EndsFree(z, P, "but")
  <2>1. "to" \notin {"have", "been"} /\ "," \notin {"have", "been"}
    OBVIOUS
  <2> QED BY <2>1, WordsEndFree
<1>3. u[1] = tries /\ t[1] = "to" /\ z[1] = ","
  OBVIOUS
<1>4. <<v, u[1]>> \notin P /\ <<tries, t[1]>> \notin P /\ <<verb, target[1]>> \notin P
      /\ <<w, z[1]>> \notin P
  <2>1. u[1] # "slain" /\ t[1] # "slain" /\ z[1] # "slain"
    BY <1>3
  <2> HIDE DEF u, t, z, v, w
  <2> QED BY <2>1, NoKill
<1> HIDE DEF P, u, t, z, v, w
<1>5. EndsFree(source \o u, P, tries)
  BY <1>1, <1>2, <1>4, EndsFreeJoins
<1>6. EndsFree((source \o u) \o t, P, verb)
  BY <1>2, <1>4, <1>5, EndsFreeJoins
<1>7. EndsFree(((source \o u) \o t) \o target, P, w)
  BY <1>1, <1>4, <1>6, EndsFreeJoins
<1>8. EndsFree((((source \o u) \o t) \o target) \o z, P, "but")
  BY <1>2, <1>4, <1>7, EndsFreeJoins
<1> QED BY <1>8 DEF TriedText, P, u, t, z

(* nor has the whole. *)
LEMMA TryEndsFree ==
  ASSUME NEW s, s.says \in EndingTypes, s.source \in Fighters, s.target \in Fighters,
         s.verb \in DOMAIN ThirdPerson, NEW points
  PROVE  EndsFree(Text(s, points), KillPairs, "!")
<1> DEFINE source == s.source
           target == s.target
           verb == s.verb
           tries == IF source \in {You, YOU} THEN "try" ELSE "tries"
           f == Text(s, points)
           g == Tried(s)
           z == <<"!">>
           Of(h, w) == EndsFree(h, KillPairs, w)
           Word(who, second, third) == IF who \in {You, YOU} THEN second ELSE third
<1>1. source \in Fighters /\ target \in Fighters /\ tries \in {"try", "tries"}
  OBVIOUS
<1>2. verb \notin {"have", "been"}
  <2>1. verb \in DOMAIN ActionVerbs
    BY WordsAssumption
  <2> QED BY <2>1 DEF ActionVerbs
<1>3. g = TriedText(source, tries, verb, target)
  BY DEF Tried, Conj, TriedText
<1>4. Of(g, "but")
  <2> HIDE DEF source, target, tries, verb, g
  <2> QED BY <1>1, <1>2, <1>3, TriedEndsFree
<1>5. \A who, second, third : Conj(who, second, third) = <<Word(who, second, third)>>
  BY DEF Conj
<1>6. Of(target, target[Len(target)])
  BY <1>1, FighterEndsFree
<1>7. \A u : <<"but", u>> \notin KillPairs
  BY NoKill
<1>8. ASSUME NEW h, NEW v, NEW w, Of(h, v), w # "slain" PROVE Of(h \o <<w>> \o z, "!")
  <2> DEFINE u == <<w>>
  <2>1. EndsFree(u, KillPairs, w) /\ u[1] = w /\ EndsFree(z, KillPairs, "!") /\ z[1] = "!"
    BY WordsEndFree
  <2>2. <<v, u[1]>> \notin KillPairs /\ <<w, z[1]>> \notin KillPairs
    <3>1. u[1] # "slain" /\ z[1] # "slain"
      BY <1>8, <2>1
    <3> HIDE DEF u, z
    <3> QED BY <3>1, NoKill
  <2> HIDE DEF u, z
  <2>3. EndsFree(h \o u, KillPairs, w)
    BY <1>8, <2>1, <2>2, EndsFreeJoins
  <2>4. EndsFree((h \o u) \o z, KillPairs, "!")
    BY <2>1, <2>2, <2>3, EndsFreeJoins
  <2> QED BY <2>4 DEF u
<1>9. Of(g \o target, target[Len(target)])
  <2> HIDE DEF source, target, g
  <2> QED BY <1>4, <1>6, <1>7, EndsFreeJoins
<1>10. ASSUME NEW w, w # "slain", f = g \o target \o <<w>> \o z PROVE Of(f, "!")
  <2> HIDE DEF f, g, target, z, Of
  <2> QED BY <1>8, <1>9, <1>10
<1>11. CASE s.says = "MISS"
  <2> DEFINE w == Word(source, "miss", "misses")
  <2>1. w # "slain"
    OBVIOUS
  <2>2. f = g \o <<w>> \o z
    BY <1>5, <1>11 DEF Text
  <2> HIDE DEF w, f, g, z, Of
  <2> QED BY <1>4, <1>8, <2>1, <2>2 DEF f, Of
<1>12. CASE s.says = "PARRY"
  <2> DEFINE w == Word(target, "parry", "parries")
  <2>1. w # "slain"
    OBVIOUS
  <2>2. f = g \o target \o <<w>> \o z
    BY <1>5, <1>12 DEF Text
  <2> HIDE DEF w
  <2> QED BY <1>10, <2>1, <2>2
<1>13. CASE s.says = "DODGE"
  <2> DEFINE w == Word(target, "dodge", "dodges")
  <2>1. w # "slain"
    OBVIOUS
  <2>2. f = g \o target \o <<w>> \o z
    BY <1>5, <1>13 DEF Text
  <2> HIDE DEF w
  <2> QED BY <1>10, <2>1, <2>2
<1>14. CASE s.says = "RIPOSTE"
  <2> DEFINE w == Word(target, "riposte", "ripostes")
  <2>1. w # "slain"
    OBVIOUS
  <2>2. f = g \o target \o <<w>> \o z
    BY <1>5, <1>14 DEF Text
  <2> HIDE DEF w
  <2> QED BY <1>10, <2>1, <2>2
<1>15. CASE s.says = "BLOCK"
  <2> DEFINE w == Word(target, "block", "blocks")
  <2>1. w # "slain"
    OBVIOUS
  <2>2. f = g \o target \o <<w>> \o z
    BY <1>5, <1>15 DEF Text
  <2> HIDE DEF w
  <2> QED BY <1>10, <2>1, <2>2
<1>16. CASE s.says = "ABSORB"
  <2> DEFINE whose == IF target = YOU THEN <<"YOUR">> ELSE target \o <<"'s">>
             v == IF target = YOU THEN "YOUR" ELSE "'s"
  <2>1. f = g \o whose \o Absorbs
    BY <1>16 DEF Text, Absorbs
  <2>2. EndsFree(<<"YOUR">>, KillPairs, "YOUR") /\ EndsFree(<<"'s">>, KillPairs, "'s")
    BY WordsEndFree
  <2>3. EndsFree(target \o <<"'s">>, KillPairs, "'s")
    <3> DEFINE y == <<"'s">>
    <3>1. <<target[Len(target)], y[1]>> \notin KillPairs
      <4>1. y[1] # "slain"
        OBVIOUS
      <4> HIDE DEF y, target
      <4> QED BY <4>1, NoKill
    <3>2. EndsFree(y, KillPairs, "'s")
      BY <2>2
    <3> HIDE DEF y, target
    <3>3. EndsFree(target \o y, KillPairs, "'s")
      BY <1>6, <3>1, <3>2, EndsFreeJoins
    <3> QED BY <3>3 DEF y
  <2>4. EndsFree(whose, KillPairs, v)
    <3> HIDE DEF target
    <3>1. CASE target = YOU
      BY <2>2, <3>1
    <3>2. CASE target # YOU
      BY <2>3, <3>2
    <3> QED BY <3>1, <3>2
  <2>5. <<v, Absorbs[1]>> \notin KillPairs
    <3>1. Absorbs[1] # "slain"
      BY AbsorbsIs
    <3> HIDE DEF v
    <3> QED BY <3>1, NoKill
  <2> HIDE DEF whose, v, g, f, target, source
  <2>6. EndsFree(g \o whose, KillPairs, v)
    BY <1>4, <1>7, <2>4, EndsFreeJoins
  <2>7. EndsFree((g \o whose) \o Absorbs, KillPairs, "!")
    BY <2>5, <2>6, AbsorbsEndFree, EndsFreeJoins
  <2> QED BY <2>1, <2>7 DEF f
<1> QED BY ONLY <1>11, <1>12, <1>13, <1>14, <1>15, <1>16, s.says \in EndingTypes DEF EndingTypes, f

(* So the port ignores it. *)
LEMMA TryIgnored ==
  ASSUME NEW f, EndsFree(f, KillPairs, "!")
  PROVE  PP!Action_parse(f) = Unknown
<1>1. Listed(f) /\ Len(f) > 0 /\ Free(f, KillPairs) /\ f[Len(f)] = "!"
  BY DEF EndsFree
<1>2. <<"have", "slain">> \in KillPairs /\ <<"been", "slain">> \in KillPairs
  BY DEF KillPairs
<1>3. ~Has(f, <<"have", "slain">>)
  BY <1>1, <1>2, NoPhrase
<1>4. ~Has(f, HasBeenSlainBy) /\ ~Has(f, HaveBeenSlainBy)
  BY <1>1, <1>2, NoSlainBy DEF HasBeenSlainBy, HaveBeenSlainBy
<1>5. /\ ~PP!Has(f, <<"has", "been", "slain", "by">>)
      /\ ~PP!Has(f, <<"have", "been", "slain", "by">>)
  BY <1>4, SamePlaces DEF HasBeenSlainBy, HaveBeenSlainBy
<1>6. PP!Place(f, <<"have", "slain">>) = 0
  BY <1>3, SamePlaces DEF Place, Has
<1>7. PP!ParseExclamation(f) = PP!Unknown
  BY <1>5, <1>6 DEF PP!ParseExclamation
<1>8. PP!LastMark(f) = "!"
  BY <1>1, LastMarkIs
<1> QED BY <1>7, <1>8, SameWords DEF PP!Action_parse
-----------------------------------------------------------------------------
(* What SameAsDpsPP says of what the two parsers make of any line. *)
SameOf(a, b) == IF a.type \in DOMAIN Ending THEN b = Unknown ELSE Agree(a, b)

(* A line that is no try tells of none. *)
LEMMA OtherTries ==
  ASSUME NEW f, OtherText(f), Len(f) > 0, f[Len(f)] = "!"
  PROVE  Tries(f) = 0
<1>1. KillText(f)
  BY DEF OtherText, HitText, AreaText, DiedText, AnnounceText
<1> QED BY <1>1, NoTries DEF KillText

(* Every line. *)
LEMMA LineAgrees ==
  ASSUME NEW s \in Sayings, NEW points \in Points(s)
  PROVE  SameOf(Action_parse(Text(s, points)), PP!Action_parse(Text(s, points)))
<1> DEFINE f == Text(s, points)
           a == Action_parse(f)
           b == PP!Action_parse(f)
<1>1. LineText(f)
  BY TextIs
<1>2. Listed(f)
  BY <1>1, Zenon DEF LineText, HitText, AreaText, DiedText, TryText, KillText, AnnounceText
<1>3. CASE s.says \notin EndingTypes
  <2>1. OtherText(f)
    BY <1>3, OtherTextIs
  <2>2. Named(a)
    BY <1>1, LineNamed
  <2> HIDE DEF f
  <2>3. Len(f) > 0 /\ f[Len(f)] = "!" => Tries(f) = 0
    BY <2>1, OtherTries
  <2>4. a.type \notin EndingTypes /\ Agree(a, b)
    BY <1>2, <2>2, <2>3, TextAgrees
  <2> HIDE DEF a, b
  <2>5. SameOf(a, b)
    BY <2>4, EndingIs DEF SameOf
  <2> QED BY <2>5 DEF a, b, f
<1>4. CASE s.says \in EndingTypes
  <2>1. s.source \in Fighters /\ s.target \in Fighters /\ s.verb \in DOMAIN ThirdPerson
    BY <1>4, SayingIs DEF EndingTypes
  <2>2. a.type = s.says
    BY <1>4, <2>1, TryLineMeant
  <2>3. b = Unknown
    BY <1>4, <2>1, TryEndsFree, TryIgnored
  <2> HIDE DEF f, a, b
  <2>4. SameOf(a, b)
    BY <1>4, <2>2, <2>3, EndingIs DEF SameOf
  <2> QED BY <2>4 DEF a, b, f
<1> QED BY <1>3, <1>4

(* And so does what is in the variables. *)
LEMMA LineSame == LineInv => SameAsDpsPP
<1>1. SameOf(action, actionPP) => SameAsDpsPP
  BY DEF SameOf, Agree, SameAsDpsPP
<1>2. CASE NoLine \/ Undated
  <2>1. SameOf(Unknown, Unknown)
    BY EndingIs, UnknownAgrees, SameWords DEF SameOf, Unknown, EndingTypes
  <2> QED BY <1>1, <1>2, <2>1 DEF NoLine, Undated
<1>3. CASE Parsed
  <2>0. PICK s \in Sayings : \E points \in Points(s) :
          /\ text = Text(s, points)
          /\ action = Action_parse(text)
          /\ actionPP = PP!Action_parse(text)
    BY <1>3, Zenon DEF Parsed
  <2>1. PICK points \in Points(s) :
          /\ text = Text(s, points)
          /\ action = Action_parse(text)
          /\ actionPP = PP!Action_parse(text)
    BY <2>0, Zenon
  <2>2. SameOf(Action_parse(text), PP!Action_parse(text))
    BY <2>1, LineAgrees
  <2> QED BY <1>1, <2>1, <2>2
<1> QED BY <1>2, <1>3 DEF LineInv

(* Of every line, with whatever names: the port of the parser to dps++     *)
(* takes it for the same kind of fighting, with the same damage, on the    *)
(* same target unless it is one of a hit with "for" in it, and of the same *)
(* source where the text names one.                                        *)
THEOREM PortParsesAlike == Spec => []SameAsDpsPP
BY LineAlways, LineSame, PTL
-----------------------------------------------------------------------------
(* A leap year has one day more. *)
LEMMA LeapDayIs == ASSUME NEW year PROVE LeapDay(year) \in {0, 1}
BY DEF LeapDay

(* The ifs of unparseDate find a month for every day of the year. *)
LEMMA MonthFound ==
  ASSUME NEW leapday \in {0, 1}, NEW day \in 0..(364 + leapday)
  PROVE  /\ MonthOf(day, leapday) \in 1..12
         /\ day < EndOfMonth(MonthOf(day, leapday), leapday)
         /\ \A k \in 1..(MonthOf(day, leapday) - 1) : day >= EndOfMonth(k, leapday)
<1> DEFINE Ends(m) == EndOfMonth(m, leapday)
           Good(m) == day < Ends(m) /\ \A k \in 1..(m - 1) : day >= Ends(k)
<1>1. /\ Ends(1) = 31 /\ Ends(2) = 59 + leapday /\ Ends(3) = 90 + leapday
      /\ Ends(4) = 120 + leapday /\ Ends(5) = 151 + leapday /\ Ends(6) = 181 + leapday
      /\ Ends(7) = 212 + leapday /\ Ends(8) = 243 + leapday /\ Ends(9) = 273 + leapday
      /\ Ends(10) = 304 + leapday /\ Ends(11) = 334 + leapday
      /\ Ends(12) = 365 + leapday
  BY DEF EndOfMonth
<1>2. \E m \in 1..12 : Good(m)
  <2> HIDE DEF Ends
  <2> DEFINE Falls(m) == day < Ends(m)
  <2>1. CASE Falls(1)  BY <2>1
  <2>2. CASE ~Falls(1) /\ Falls(2)  BY <2>2, <1>1
  <2>3. CASE ~Falls(1) /\ ~Falls(2) /\ Falls(3)  BY <2>3, <1>1
  <2>4. CASE \A k \in 1..3 : ~Falls(k)
    <3>1. \A k \in 1..3 : day >= Ends(k)  BY <2>4, <1>1
    <3>2. CASE Falls(4)  BY <3>1, <3>2
    <3>3. CASE ~Falls(4) /\ Falls(5)  BY <3>1, <3>3, <1>1
    <3>4. CASE ~Falls(4) /\ ~Falls(5) /\ Falls(6)  BY <3>1, <3>4, <1>1
    <3>5. CASE \A k \in 4..6 : ~Falls(k)
      <4>1. \A k \in 1..6 : day >= Ends(k)  BY <3>1, <3>5, <1>1
      <4>2. CASE Falls(7)  BY <4>1, <4>2
      <4>3. CASE ~Falls(7) /\ Falls(8)  BY <4>1, <4>3, <1>1
      <4>4. CASE ~Falls(7) /\ ~Falls(8) /\ Falls(9)  BY <4>1, <4>4, <1>1
      <4>5. CASE \A k \in 7..9 : ~Falls(k)
        <5>1. \A k \in 1..9 : day >= Ends(k)  BY <4>1, <4>5, <1>1
        <5>2. CASE Falls(10)  BY <5>1, <5>2
        <5>3. CASE ~Falls(10) /\ Falls(11)  BY <5>1, <5>3, <1>1
        <5>4. CASE ~Falls(10) /\ ~Falls(11)  BY <5>1, <5>4, <1>1
        <5> QED  BY <5>2, <5>3, <5>4
      <4> QED  BY <4>2, <4>3, <4>4, <4>5
    <3> QED  BY <3>2, <3>3, <3>4, <3>5
  <2> QED  BY <2>1, <2>2, <2>3, <2>4
<1>3. MonthOf(day, leapday) = CHOOSE m \in 1..12 : Good(m)
  BY DEF MonthOf
<1> QED  BY <1>2, <1>3

(* What unparseDate subtracts from the day of the year is what parseDate   *)
(* adds for the month.                                                     *)
LEMMA MonthDaysAre ==
  ASSUME NEW year, NEW m \in 1..12
  PROVE  MonthDays(m, year) = EndOfMonth(m - 1, LeapDay(year))
<1>1. LeapDay(year) \in {0, 1}  BY LeapDayIs
<1>2. CASE m \in 1..4   BY <1>1, <1>2 DEF MonthDays, EndOfMonth
<1>3. CASE m \in 5..8   BY <1>1, <1>3 DEF MonthDays, EndOfMonth
<1>4. CASE m \in 9..12  BY <1>1, <1>4 DEF MonthDays, EndOfMonth
<1> QED  BY <1>2, <1>3, <1>4

LEMMA MonthRead == ASSUME NEW m \in 1..12 PROVE MonthNumber(Month[m]) = m
BY DEF MonthNumber, Month

LEMMA Quotient ==
  ASSUME NEW n \in Nat, NEW d \in Nat \ {0}
  PROVE  (n \div d) * d + (n % d) = n /\ n \div d \in Nat /\ n % d \in Nat
OBVIOUS

LEMMA Distributes ==
  ASSUME NEW a \in Int, NEW b \in Int, NEW d \in Int
  PROVE  a * d + b * d = (a + b) * d
OBVIOUS

LEMMA LeapYearsType == ASSUME NEW year \in Nat PROVE leapYearsSince1999(year) \in Nat
<1>1. IsFiniteSet(2000..(year - 1))  BY FS_Interval
<1>2. IsFiniteSet({i \in 2000..(year - 1) : i % 4 = 0 /\ isLeapYear(i)})
  BY <1>1, FS_Subset
<1> QED  BY <1>2, FS_CardinalityType DEF leapYearsSince1999

(* The stamp that unparseDate makes of a day and a second of any year is    *)
(* parsed to the seconds up to that year, and that day and second: the ifs  *)
(* of the one and the switch of the other count the same days, in leap      *)
(* years and others (date.c).                                               *)
THEOREM ParsedAsPrinted ==
  ASSUME NEW year \in Nat, NEW day \in 0..(364 + LeapDay(year)),
         NEW seconds \in 0..(DAY - 1)
  PROVE  LET upTo == (365 * (year - 1999) + leapYearsSince1999(year)) * DAY - EQDate
         IN  StampOf(year, day, seconds) # NoStamp =>
               parseDate(StampOf(year, day, seconds)) = upTo + day * DAY + seconds
<1> DEFINE leapday == LeapDay(year)
           m     == MonthOf(day, leapday)
           stamp == StampOf(year, day, seconds)
           years == 365 * (year - 1999) + leapYearsSince1999(year)
           before == EndOfMonth(m - 1, leapday)
<1>1. leapday \in {0, 1}  BY LeapDayIs
<1>2. m \in 1..12  BY <1>1, MonthFound
<1>3. MonthNumber(stamp.month) = m  BY <1>2, MonthRead DEF StampOf
<1>4. MonthDays(m, stamp.year) = before  BY <1>2, MonthDaysAre DEF StampOf
<1>5. before \in Nat  BY <1>1, <1>2 DEF EndOfMonth
<1>6. stamp.day - 1 = day - before  BY <1>1, <1>5 DEF StampOf
<1>7. MINUTE \in Nat \ {0} /\ HOUR \in Nat \ {0} /\ DAY \in Nat \ {0}
  BY DateAssumption
<1>8. stamp.second + stamp.minute * MINUTE + stamp.hour * HOUR = seconds
  <2> DEFINE minutes == seconds % HOUR
  <2>1. seconds \in Nat  BY <1>7
  <2>2. (seconds \div HOUR) * HOUR + minutes = seconds /\ minutes \in Nat
        /\ seconds \div HOUR \in Nat
    BY <2>1, <1>7, Quotient, Zenon
  <2>3. (minutes \div MINUTE) * MINUTE + (minutes % MINUTE) = minutes
        /\ minutes \div MINUTE \in Nat /\ minutes % MINUTE \in Nat
    BY <2>2, <1>7, Quotient, Zenon
  <2>4. stamp.second = minutes % MINUTE /\ stamp.minute = minutes \div MINUTE
        /\ stamp.hour = seconds \div HOUR
    BY DEF StampOf
  <2> HIDE DEF minutes, stamp
  <2> QED  BY <2>2, <2>3, <2>4, <1>7
<1>9. (day - before) * DAY + before * DAY = day * DAY
  <2>1. day - before \in Int /\ day \in Int  BY <1>1, <1>5
  <2> QED  BY <2>1, <1>5, <1>7, Distributes
<1>10. years \in Int  BY LeapYearsType
<1>11. stamp.year = year  BY DEF StampOf
<1>12. SecondsSinceEQDate(stamp, m)
         = seconds + (day - before) * DAY + before * DAY + years * DAY - EQDate
  <2>1. SecondsSinceEQDate(stamp, m)
          = stamp.second + stamp.minute * MINUTE + stamp.hour * HOUR
              + (stamp.day - 1) * DAY + MonthDays(m, stamp.year) * DAY
              + (365 * (stamp.year - 1999) + leapYearsSince1999(stamp.year)) * DAY
              - EQDate
    BY DEF SecondsSinceEQDate
  <2> HIDE DEF stamp, m, before, years
  <2> QED  BY <2>1, <1>4, <1>6, <1>8, <1>11 DEF years
<1>13. stamp # NoStamp => parseDate(stamp) = SecondsSinceEQDate(stamp, m)
  BY <1>3 DEF parseDate
<1>14. /\ years * DAY \in Int /\ day * DAY \in Int /\ EQDate \in Int
       /\ (day - before) * DAY \in Int /\ before * DAY \in Int /\ seconds \in Int
  BY <1>1, <1>5, <1>7, <1>10 DEF EQDate
<1> HIDE DEF stamp, years, before, m
<1>15. SecondsSinceEQDate(stamp, m) = (years * DAY - EQDate) + day * DAY + seconds
  BY <1>9, <1>12, <1>14
<1> QED  BY <1>13, <1>15 DEF stamp, years
-----------------------------------------------------------------------------
(* A set of numbers with 0 and with the successor of each is all of Nat.   *)
LEMMA CountingUp ==
  ASSUME NEW P \in SUBSET Nat, 0 \in P, \A n \in P : n + 1 \in P
  PROVE  P = Nat
<1> DEFINE R == OpToRel(<, Nat)
           T == Nat \ P
<1> SUFFICES ASSUME T # {} PROVE FALSE
  OBVIOUS
<1>1. \E n \in T : \A m \in T : <<m, n>> \notin R
  <2>1. IsWellFoundedOn(R, Nat)
    BY NatLessThanWellFounded
  <2> HIDE DEF R
  <2> QED BY <2>1, WFMin
<1>2. PICK n \in T : \A m \in T : <<m, n>> \notin R
  BY <1>1
<1>3. n - 1 \in Nat /\ (n - 1) + 1 = n
  <2>1. n # 0 /\ n \in Nat
    OBVIOUS
  <2> QED BY <2>1
<1>4. n - 1 \in T
  BY <1>3
<1>5. <<n - 1, n>> \in R
  BY <1>3 DEF OpToRel
<1> QED BY <1>2, <1>4, <1>5

(* The days of the years before one, from the year 0. *)
DaysTo(year) == 365 * year + Cardinality({i \in 0..(year - 1) : isLeapYear(i)})
DaysIn(year) == 365 + LeapDay(year)

(* A year has 365 days or 366. *)
LEMMA DaysInType == ASSUME NEW year PROVE DaysIn(year) \in {365, 366}
BY LeapDayIs DEF DaysIn

(* Of the years up to one, finitely many are leap years. *)
LEMMA LeapYearsFinite ==
  ASSUME NEW year \in Nat
  PROVE  /\ IsFiniteSet({i \in 0..(year - 1) : isLeapYear(i)})
         /\ Cardinality({i \in 0..(year - 1) : isLeapYear(i)}) \in Nat
<1> DEFINE S == {i \in 0..(year - 1) : isLeapYear(i)}
<1>1. IsFiniteSet(0..(year - 1))
  BY FS_Interval
<1>2. S \in SUBSET (0..(year - 1))
  OBVIOUS
<1> HIDE DEF S
<1>3. IsFiniteSet(S) /\ Cardinality(S) \in Nat
  BY <1>1, <1>2, FS_Subset, FS_CardinalityType
<1> QED BY <1>3 DEF S

(* The days to a year are a number. *)
LEMMA DaysToType == ASSUME NEW year \in Nat PROVE DaysTo(year) \in Nat
<1> DEFINE n == Cardinality({i \in 0..(year - 1) : isLeapYear(i)})
<1>1. n \in Nat
  BY LeapYearsFinite
<1>2. DaysTo(year) = 365 * year + n
  BY DEF DaysTo
<1> HIDE DEF n
<1> QED BY <1>1, <1>2

(* The next year begins after all days of the one before. *)
LEMMA DaysToNext ==
  ASSUME NEW year \in Nat
  PROVE  DaysTo(year + 1) = DaysTo(year) + DaysIn(year)
<1> DEFINE S == {i \in 0..(year - 1) : isLeapYear(i)}
           T == {i \in 0..((year + 1) - 1) : isLeapYear(i)}
<1>1. IsFiniteSet(S) /\ Cardinality(S) \in Nat
  BY LeapYearsFinite
<1>11. year \notin S
  OBVIOUS
<1>2. T = (IF isLeapYear(year) THEN S \cup {year} ELSE S)
  <2>1. (year + 1) - 1 = year /\ \A i \in 0..year : i = year \/ i \in 0..(year - 1)
    OBVIOUS
  <2> QED BY <2>1
<1>3. DaysTo(year) = 365 * year + Cardinality(S)
      /\ DaysTo(year + 1) = 365 * (year + 1) + Cardinality(T)
  BY DEF DaysTo
<1> HIDE DEF S, T
<1>4. Cardinality(T) = Cardinality(S) + LeapDay(year)
  <2>1. CASE isLeapYear(year)
    BY <1>1, <1>11, <1>2, <2>1, FS_AddElement DEF LeapDay
  <2>2. CASE ~isLeapYear(year)
    BY <1>1, <1>2, <2>2 DEF LeapDay
  <2> QED BY <2>1, <2>2
<1>5. LeapDay(year) \in {0, 1}
  BY LeapDayIs
<1> QED BY <1>1, <1>3, <1>4, <1>5 DEF DaysIn

(* And later years later. *)
LEMMA DaysToGrows ==
  ASSUME NEW a \in Nat, NEW b \in Nat, a < b
  PROVE  DaysTo(a + 1) <= DaysTo(b)
<1> DEFINE S == {i \in 0..((a + 1) - 1) : isLeapYear(i)}
           T == {i \in 0..(b - 1) : isLeapYear(i)}
<1>1. S \in SUBSET T
  OBVIOUS
<1>2. a + 1 \in Nat
  OBVIOUS
<1>3. IsFiniteSet(T) /\ Cardinality(T) \in Nat
  BY LeapYearsFinite
<1>4. Cardinality(S) \in Nat
  BY <1>2, LeapYearsFinite
<1>5. DaysTo(b) = 365 * b + Cardinality(T) /\ DaysTo(a + 1) = 365 * (a + 1) + Cardinality(S)
  BY DEF DaysTo
<1> HIDE DEF S, T
<1>6. Cardinality(S) <= Cardinality(T)
  BY <1>1, <1>3, FS_Subset
<1> QED BY <1>3, <1>4, <1>5, <1>6

(* The year of a day that is counted from the year 0. *)
YearOf(n) == CHOOSE year \in Nat : DaysTo(year) <= n /\ n < DaysTo(year + 1)
(* A day is in one year only. *)
LEMMA YearOfIs ==
  ASSUME NEW year \in Nat, NEW n \in Int, DaysTo(year) <= n, n < DaysTo(year + 1)
  PROVE  YearOf(n) = year
<1> DEFINE y == YearOf(n)
           In(z) == DaysTo(z) <= n /\ n < DaysTo(z + 1)
<1>0. \E z \in Nat : In(z)
  OBVIOUS
<1>1. y \in Nat /\ In(y)
  <2>1. y = CHOOSE z \in Nat : In(z)
    BY DEF YearOf
  <2> QED BY <1>0, <2>1
<1> HIDE DEF y
<1>2. /\ DaysTo(y) \in Nat /\ DaysTo(y + 1) \in Nat
      /\ DaysTo(year) \in Nat /\ DaysTo(year + 1) \in Nat
  BY <1>1, DaysToType
<1>3. ~(y < year) /\ ~(year < y)
  BY <1>1, <1>2, DaysToGrows
<1> QED BY <1>1, <1>3 DEF y

(* So the loop of unparseDate over the years ends, and takes one year off  *)
(* the days at a time.                                                     *)
YearTakenOff(at) == [year |-> at.year + 1, day |-> at.day - DaysIn(at.year)]
YearsLoop(f) ==
  f = [at \in YearDays |-> IF at.day >= DaysIn(at.year) THEN f[YearTakenOff(at)] ELSE at]
LEMMA YearAndDaySolved == YearsLoop(YearAndDay)
<1> DEFINE Total(at) == DaysTo(at.year) + at.day
           At(n) == [year |-> YearOf(n), day |-> n - DaysTo(YearOf(n))]
           f == [at \in YearDays |-> At(Total(at))]
<1>1. ASSUME NEW at \in YearDays
      PROVE  f[at] = IF at.day >= DaysIn(at.year) THEN f[YearTakenOff(at)] ELSE at
  <2> DEFINE day == at.day
             year == at.year
             next == YearTakenOff(at)
  <2>1. day \in Nat /\ year \in Nat /\ at = [year |-> year, day |-> day]
    BY DEF YearDays
  <2>2. next.year = year + 1 /\ next.day = day - DaysIn(year)
    BY DEF YearTakenOff
  <2>3. next = [year |-> year + 1, day |-> day - DaysIn(year)]
    BY DEF YearTakenOff
  <2> HIDE DEF day, year, next
  <2>4. DaysTo(year) \in Nat
    BY <2>1, DaysToType
  <2>5. DaysTo(year + 1) = DaysTo(year) + DaysIn(year)
    BY <2>1, DaysToNext
  <2>6. DaysIn(year) \in Nat
    BY DaysInType
  <2>7. f[at] = At(DaysTo(year) + day)
    BY DEF day, year
  <2>8. CASE day >= DaysIn(year)
    <3>1. next \in YearDays
      BY <2>1, <2>3, <2>6, <2>8 DEF YearDays
    <3>2. f[next] = At(DaysTo(year + 1) + (day - DaysIn(year)))
      BY <3>1, <2>2
    <3>3. DaysTo(year + 1) + (day - DaysIn(year)) = DaysTo(year) + day
      BY <2>1, <2>4, <2>5, <2>6
    <3> HIDE DEF f, At
    <3>4. f[next] = f[at]
      BY <2>7, <3>2, <3>3
    <3> QED BY <2>8, <3>4 DEF next, day, year
  <2>9. CASE ~(day >= DaysIn(year))
    <3>1. DaysTo(year) + day \in Int /\ DaysTo(year) <= DaysTo(year) + day
          /\ DaysTo(year) + day < DaysTo(year + 1)
      BY <2>1, <2>4, <2>5, <2>6, <2>9
    <3>2. YearOf(DaysTo(year) + day) = year
      BY <2>1, <3>1, YearOfIs
    <3>3. (DaysTo(year) + day) - DaysTo(year) = day
      BY <2>1, <2>4
    <3>4. At(DaysTo(year) + day) = [year |-> year, day |-> day]
      BY <3>2, <3>3
    <3> HIDE DEF f, At
    <3> QED BY <2>1, <2>7, <2>9, <3>4 DEF day, year
  <2> QED BY <2>8, <2>9
<1>2. YearsLoop(f)
  <2>1. f = [at \in YearDays |-> f[at]]
    OBVIOUS
  <2> HIDE DEF f
  <2> QED BY <1>1, <2>1 DEF YearsLoop
<1>3. YearAndDay = CHOOSE g : YearsLoop(g)
  BY DEF YearAndDay, YearsLoop, DaysIn, YearTakenOff, YearDays
<1> HIDE DEF f
<1> QED BY <1>2, <1>3

(* What a step of the loop does. *)
LEMMA YearTaken ==
  ASSUME NEW at \in YearDays
  PROVE  YearAndDay[at] = IF at.day >= DaysIn(at.year) THEN YearAndDay[YearTakenOff(at)] ELSE at
<1>1. \A g : YearsLoop(g) =>
        g[at] = IF at.day >= DaysIn(at.year) THEN g[YearTakenOff(at)] ELSE at
  BY DEF YearsLoop
<1> QED BY <1>1, YearAndDaySolved

(* The days from the first of January 1999 to that of a year. *)
DaysBefore(year) == 365 * (year - 1999) + leapYearsSince1999(year)

(* A year adds its days to what parseDate counts for the years before      *)
(* it.                                                                     *)
LEMMA DaysBeforeNext ==
  ASSUME NEW year \in Nat, year >= 1999
  PROVE  /\ DaysBefore(year) \in Nat
         /\ DaysBefore(year + 1) = DaysBefore(year) + DaysIn(year)
<1> DEFINE S == {i \in 2000..(year - 1) : i % 4 = 0 /\ isLeapYear(i)}
           T == {i \in 2000..((year + 1) - 1) : i % 4 = 0 /\ isLeapYear(i)}
<1>1. /\ IsFiniteSet(S)
      /\ year \notin S
  <2> DEFINE Y == 2000..(year - 1)
  <2>1. IsFiniteSet(Y)
    BY FS_Interval
  <2>2. S \in SUBSET Y
    OBVIOUS
  <2>4. year \notin S
    OBVIOUS
  <2> HIDE DEF S, Y
  <2>3. IsFiniteSet(S)
    BY <2>1, <2>2, FS_Subset
  <2> QED BY <2>4, <2>3
<1>2. Cardinality(S) \in Nat
  BY <1>1, FS_CardinalityType
<1>3. T = (IF isLeapYear(year) THEN S \cup {year} ELSE S)
  <2>1. (year + 1) - 1 = year
    OBVIOUS
  <2>2. isLeapYear(year) => year % 4 = 0 /\ year \in 2000..year
    BY DEF isLeapYear
  <2>3. ASSUME NEW i PROVE i \in 2000..year <=> i \in 2000..(year - 1) \/ (i = year /\ year >= 2000)
    OBVIOUS
  <2> QED BY <2>1, <2>2, <2>3
<1>4. leapYearsSince1999(year) = Cardinality(S) /\ leapYearsSince1999(year + 1) = Cardinality(T)
  BY DEF leapYearsSince1999
<1> HIDE DEF S, T
<1>5. Cardinality(T) = Cardinality(S) + LeapDay(year)
  <2>1. CASE isLeapYear(year)
    BY <1>1, <1>2, <1>3, <2>1, FS_AddElement DEF LeapDay
  <2>2. CASE ~isLeapYear(year)
    BY <1>1, <1>2, <1>3, <2>2 DEF LeapDay
  <2> QED BY <2>1, <2>2
<1>6. LeapDay(year) \in {0, 1}
  BY LeapDayIs
<1> QED BY <1>2, <1>4, <1>5, <1>6 DEF DaysIn, DaysBefore

(* And it counts from 1999. *)
LEMMA DaysBeforeFirst == DaysBefore(1999) = 0
<1>1. {i \in 2000..(1999 - 1) : i % 4 = 0 /\ isLeapYear(i)} = {}
  OBVIOUS
<1>2. leapYearsSince1999(1999) = 0
  BY <1>1, FS_EmptySet DEF leapYearsSince1999
<1> QED BY <1>2 DEF DaysBefore

(* The loop comes to every year with the days that are left of it. *)
LEMMA YearReached ==
  ASSUME NEW year \in Nat, year >= 1999, NEW day \in Nat
  PROVE  YearAndDay[[year |-> 1999, day |-> DaysBefore(year) + day]]
           = YearAndDay[[year |-> year, day |-> day]]
<1> DEFINE At(y, d) == [year |-> y, day |-> d]
           Reached(y) == \A d \in Nat : YearAndDay[At(1999, DaysBefore(y) + d)] = YearAndDay[At(y, d)]
           P == {y \in Nat : y >= 1999 => Reached(y)}
<1>1. Reached(1999)
  BY DaysBeforeFirst
<1>2. ASSUME NEW y \in Nat, y >= 1999, Reached(y) PROVE Reached(y + 1)
  <2>3. /\ DaysBefore(y) \in Nat
        /\ DaysBefore(y + 1) = DaysBefore(y) + DaysIn(y)
    BY <1>2, DaysBeforeNext
  <2>4. DaysIn(y) \in Nat
    BY DaysInType
  <2>5. ASSUME NEW d \in Nat
        PROVE  YearAndDay[At(1999, DaysBefore(y + 1) + d)] = YearAndDay[At(y + 1, d)]
    <3> DEFINE e == DaysIn(y) + d
    <3>1. e \in Nat /\ e >= DaysIn(y) /\ e - DaysIn(y) = d /\ DaysBefore(y + 1) + d = DaysBefore(y) + e
      BY <2>3, <2>4
    <3> HIDE DEF e
    <3>2. YearAndDay[At(1999, DaysBefore(y) + e)] = YearAndDay[At(y, e)]
      BY <1>2, <3>1
    <3>3. At(y, e) \in YearDays /\ At(y, e).day = e /\ At(y, e).year = y
      BY <1>2, <3>1 DEF YearDays
    <3>4. YearTakenOff(At(y, e)) = At(y + 1, d)
      BY <3>1, <3>3 DEF YearTakenOff
    <3> HIDE DEF At
    <3>5. YearAndDay[At(y, e)] = YearAndDay[YearTakenOff(At(y, e))]
      BY <3>1, <3>3, YearTaken
    <3> QED BY <3>1, <3>2, <3>4, <3>5
  <2> QED BY <2>5
<1>3. 0 \in P /\ P \in SUBSET Nat
  OBVIOUS
<1>4. ASSUME NEW n \in P PROVE n + 1 \in P
  <2>1. n \in Nat /\ n + 1 \in Nat /\ (n >= 1999 => Reached(n))
    OBVIOUS
  <2> HIDE DEF Reached
  <2>2. CASE n >= 1999
    BY <1>2, <2>1, <2>2
  <2>3. CASE n + 1 = 1999
    <3>1. Reached(n + 1)
      BY <1>1, <2>3
    <3> QED BY <2>1, <3>1
  <2>4. CASE ~(n >= 1999) /\ n + 1 # 1999
    BY <2>1, <2>4
  <2> QED BY <2>2, <2>3, <2>4
<1>5. year \in P
  <2> HIDE DEF P
  <2> QED BY <1>3, <1>4, CountingUp
<1> QED BY <1>5

(* Division by d takes a multiple of d and a rest apart. *)
LEMMA QuotientIs ==
  ASSUME NEW q \in Nat, NEW d \in Nat \ {0}, NEW r \in 0..(d - 1)
  PROVE  (q * d + r) \div d = q /\ (q * d + r) % d = r
<1> DEFINE n == q * d + r
           a == n \div d
           b == n % d
<1>1. n \in Nat
  OBVIOUS
<1>2. a * d + b = n /\ a \in Nat /\ b \in Nat
  BY <1>1, Quotient, Zenon
<1>3. b \in 0..(d - 1)
  BY <1>1
<1> HIDE DEF a, b
<1>4. a * d + b = q * d + r
  BY <1>2
<1>5. \A x \in Nat, y \in Nat : x < y => (x + 1) * d <= y * d /\ (x + 1) * d = x * d + d
  OBVIOUS
<1>6. q * d \in Nat /\ a * d \in Nat
  BY <1>2
<1>7. ~(a < q)
  <2> SUFFICES ASSUME a < q PROVE FALSE
    OBVIOUS
  <2>1. a * d + d <= q * d
    BY <1>2, <1>5
  <2> QED BY ONLY <2>1, <1>3, <1>4, <1>6, d \in Nat, r \in 0..(d - 1)
<1>8. ~(q < a)
  <2> SUFFICES ASSUME q < a PROVE FALSE
    OBVIOUS
  <2>1. q * d + d <= a * d
    BY <1>2, <1>5
  <2> QED BY ONLY <2>1, <1>3, <1>4, <1>6, d \in Nat, r \in 0..(d - 1)
<1>9. a = q
  BY <1>2, <1>7, <1>8
<1>10. b = r
  BY ONLY <1>3, <1>4, <1>6, <1>9, r \in 0..(d - 1), d \in Nat
<1> QED BY <1>9, <1>10 DEF a, b

(* A second of the day, cut into hours, minutes and seconds in either order. *)
LEMMA SecondCut ==
  ASSUME NEW s \in Nat
  PROVE  /\ (s \div MINUTE) % (HOUR \div MINUTE) = (s % HOUR) \div MINUTE
         /\ s % MINUTE = (s % HOUR) % MINUTE
<1> DEFINE h == HOUR \div MINUTE
           x == s \div HOUR
           y == s % HOUR
           a == y \div MINUTE
           b == y % MINUTE
<1>1. MINUTE \in Nat \ {0} /\ HOUR \in Nat \ {0}
  BY DateAssumption
<1>2. HOUR % MINUTE = 0
  BY DateAssumption
<1>3. h * MINUTE + (HOUR % MINUTE) = HOUR /\ h \in Nat
  BY <1>1, Quotient, Zenon
<1>4. x * HOUR + y = s /\ x \in Nat /\ y \in Nat
  BY <1>1, Quotient, Zenon
<1>5. a * MINUTE + b = y /\ a \in Nat /\ b \in Nat
  BY <1>1, <1>4, Quotient, Zenon
<1>6. y < HOUR /\ b \in 0..(MINUTE - 1)
  BY <1>1, <1>4
<1> HIDE DEF h, x, y, a, b
<1>7. h * MINUTE = HOUR /\ h # 0
  <2>1. h * MINUTE = HOUR
    BY <1>1, <1>2, <1>3
  <2> QED BY <1>1, <2>1
<1>8. a < h
  <2> SUFFICES ASSUME h <= a PROVE FALSE
    BY <1>3, <1>5
  <2>1. h * MINUTE <= a * MINUTE
    BY <1>1, <1>3, <1>5
  <2>2. a * MINUTE \in Nat
    BY <1>1, <1>5
  <2> QED BY ONLY <2>1, <2>2, <1>1, <1>5, <1>6, <1>7
<1>9. (x * h + a) * MINUTE + b = s
  <2>1. (x * h + a) * MINUTE = x * (h * MINUTE) + a * MINUTE
    BY <1>1, <1>3, <1>4, <1>5
  <2>2. x * HOUR \in Nat /\ a * MINUTE \in Nat
    BY <1>1, <1>4, <1>5
  <2> QED BY <2>1, <2>2, <1>4, <1>5, <1>7
<1>10. x * h + a \in Nat
  BY <1>3, <1>4, <1>5
<1>11. s \div MINUTE = x * h + a /\ s % MINUTE = b
  BY <1>1, <1>6, <1>9, <1>10, QuotientIs
<1>12. (x * h + a) % h = a
  <2>1. h \in Nat \ {0} /\ a \in 0..(h - 1)
    BY <1>3, <1>5, <1>7, <1>8
  <2> QED BY <2>1, <1>4, QuotientIs
<1> QED BY <1>11, <1>12 DEF h, y, a, b

(* Where the months of a year end. *)
LEMMA MonthEnds ==
  ASSUME NEW leapday \in {0, 1}
  PROVE  /\ EndOfMonth(0, leapday) = 0 /\ EndOfMonth(1, leapday) = 31
         /\ EndOfMonth(2, leapday) = 59 + leapday /\ EndOfMonth(3, leapday) = 90 + leapday
         /\ EndOfMonth(4, leapday) = 120 + leapday /\ EndOfMonth(5, leapday) = 151 + leapday
         /\ EndOfMonth(6, leapday) = 181 + leapday /\ EndOfMonth(7, leapday) = 212 + leapday
         /\ EndOfMonth(8, leapday) = 243 + leapday /\ EndOfMonth(9, leapday) = 273 + leapday
         /\ EndOfMonth(10, leapday) = 304 + leapday
         /\ EndOfMonth(11, leapday) = 334 + leapday
         /\ EndOfMonth(12, leapday) = 365 + leapday
BY DEF EndOfMonth

(* They end one after the other. *)
LEMMA MonthEndsGrow ==
  ASSUME NEW leapday \in {0, 1}, NEW m \in 0..12, NEW n \in 0..12, m <= n
  PROVE  /\ EndOfMonth(m, leapday) \in Nat
         /\ EndOfMonth(m, leapday) <= EndOfMonth(n, leapday)
<1> DEFINE E(k) == EndOfMonth(k, leapday)
<1>1. /\ E(0) = 0 /\ E(1) = 31 /\ E(2) = 59 + leapday /\ E(3) = 90 + leapday
      /\ E(4) = 120 + leapday /\ E(5) = 151 + leapday /\ E(6) = 181 + leapday
      /\ E(7) = 212 + leapday /\ E(8) = 243 + leapday /\ E(9) = 273 + leapday
      /\ E(10) = 304 + leapday /\ E(11) = 334 + leapday /\ E(12) = 365 + leapday
  BY MonthEnds
<1> HIDE DEF E
<1>2. \A k \in 0..11 : E(k) \in Nat /\ E(k + 1) \in Nat /\ E(k) <= E(k + 1)
  BY <1>1
<1>3. \A k \in 0..12 : E(k) \in Nat
  BY <1>1
<1>4. \A k \in 0..12 : m <= k => E(m) <= E(k)
  <2> DEFINE P == {k \in 0..12 : m <= k => E(m) <= E(k)}
  <2>1. \A k \in 0..11 : k \in P => k + 1 \in P
    BY <1>2, <1>3
  <2>2. 0 \in P
    BY <1>3
  <2> HIDE DEF P
  <2>3. \A k \in 0..12 : k \in P
    <3>1. 1 \in P /\ 2 \in P /\ 3 \in P /\ 4 \in P /\ 5 \in P /\ 6 \in P
      BY <2>1, <2>2
    <3>2. 7 \in P /\ 8 \in P /\ 9 \in P /\ 10 \in P /\ 11 \in P /\ 12 \in P
      BY <2>1, <3>1
    <3> QED BY <2>2, <3>1, <3>2
  <2> QED BY <2>3 DEF P
<1> QED BY <1>3, <1>4 DEF E

(* Of a day in a month, unparseDate finds that month. *)
LEMMA MonthOfDay ==
  ASSUME NEW leapday \in {0, 1}, NEW m \in 1..12, NEW day \in Nat,
         EndOfMonth(m - 1, leapday) <= day, day < EndOfMonth(m, leapday)
  PROVE  MonthOf(day, leapday) = m /\ day \in 0..(364 + leapday)
<1> DEFINE x == MonthOf(day, leapday)
           E(k) == EndOfMonth(k, leapday)
<1>1. E(12) = 365 + leapday
  BY MonthEnds
<1>2. E(m) <= E(12) /\ E(m) \in Nat
  BY MonthEndsGrow
<1>3. day \in 0..(364 + leapday)
  BY <1>1, <1>2
<1>4. x \in 1..12 /\ day < E(x) /\ \A k \in 1..(x - 1) : day >= E(k)
  <2>1. x \in 1..12
    BY <1>3, MonthFound
  <2>2. day < E(x)
    BY <1>3, MonthFound
  <2>3. \A k \in 1..(x - 1) : day >= E(k)
    BY <1>3, MonthFound
  <2> QED BY <2>1, <2>2, <2>3
<1>5. m - 1 \in 0..12 /\ E(m - 1) \in Nat
  BY MonthEndsGrow
<1> HIDE DEF x
<1>6. ~(x < m)
  <2> SUFFICES ASSUME x < m PROVE FALSE
    OBVIOUS
  <2>1. x \in 0..12 /\ x <= m - 1
    BY <1>4
  <2>2. E(x) <= E(m - 1) /\ E(x) \in Nat
    BY <1>5, <2>1, MonthEndsGrow
  <2> QED BY <1>4, <1>5, <2>2
<1>7. ~(m < x)
  <2> SUFFICES ASSUME m < x PROVE FALSE
    OBVIOUS
  <2>1. m \in 1..(x - 1)
    BY <1>4
  <2> QED BY <1>2, <1>4, <2>1
<1> QED BY <1>3, <1>4, <1>6, <1>7 DEF x

(* The calendar of the game is that of date.c. *)
LEMMA LengthIs ==
  ASSUME NEW c \in [year : Nat, month : 1..12, day : Nat]
  PROVE  LengthOfMonth(c) = EndOfMonth(c.month, LeapDay(c.year))
                              - EndOfMonth(c.month - 1, LeapDay(c.year))
<1> DEFINE y == c.year
           m == c.month
           leapday == LeapDay(y)
           E(k) == EndOfMonth(k, leapday)
<1>1. y \in Nat /\ m \in 1..12
  OBVIOUS
<1>2. leapday = IF (y % 4 = 0 /\ y % 100 # 0) \/ y % 400 = 0 THEN 1 ELSE 0
  <2> HIDE DEF y
  <2>1. (y % 4 = 0 /\ (y % 25 # 0 \/ y % 16 = 0))
          <=> ((y % 4 = 0 /\ y % 100 # 0) \/ y % 400 = 0)
    BY <1>1
  <2> QED BY <2>1 DEF LeapDay, isLeapYear
<1>3. LengthOfMonth(c) = IF m = 2 THEN 28 + leapday ELSE IF m \in {4, 6, 9, 11} THEN 30 ELSE 31
  BY <1>2 DEF LengthOfMonth, Thirty
<1>4. leapday \in {0, 1}
  BY LeapDayIs
<1>5. /\ E(0) = 0 /\ E(1) = 31 /\ E(2) = 59 + leapday /\ E(3) = 90 + leapday
      /\ E(4) = 120 + leapday /\ E(5) = 151 + leapday /\ E(6) = 181 + leapday
      /\ E(7) = 212 + leapday /\ E(8) = 243 + leapday /\ E(9) = 273 + leapday
      /\ E(10) = 304 + leapday /\ E(11) = 334 + leapday /\ E(12) = 365 + leapday
  BY <1>4, MonthEnds
<1> HIDE DEF E, leapday, y, m
<1>6. LengthOfMonth(c) = E(m) - E(m - 1)
  <2>1. CASE m \in 1..4  BY <1>3, <1>4, <1>5, <2>1
  <2>2. CASE m \in 5..8  BY <1>3, <1>4, <1>5, <2>2
  <2>3. CASE m \in 9..12  BY <1>3, <1>4, <1>5, <2>3
  <2> QED BY <1>1, <2>1, <2>2, <2>3
<1> QED BY <1>6 DEF E, leapday, y, m

(* The day of the year of a day of the calendar, the first being 0. *)
DayOfYear(c) == EndOfMonth(c.month - 1, LeapDay(c.year)) + c.day - 1
IsDay(c) == /\ c \in [year : Nat, month : 1..12, day : Nat]
            /\ c.year >= 1999
            /\ c.day \in 1..LengthOfMonth(c)

(* What unparseDate makes of the day of the year is the day of the         *)
(* calendar.                                                               *)
LEMMA DayOfYearIs ==
  ASSUME NEW c, IsDay(c)
  PROVE  /\ DayOfYear(c) \in 0..(364 + LeapDay(c.year))
         /\ MonthOf(DayOfYear(c), LeapDay(c.year)) = c.month
         /\ c.day = DayOfYear(c) - EndOfMonth(c.month - 1, LeapDay(c.year)) + 1
         /\ EndOfMonth(c.month - 1, LeapDay(c.year)) \in Nat
<1> DEFINE m == c.month
           leapday == LeapDay(c.year)
           before == EndOfMonth(m - 1, leapday)
           upTo == EndOfMonth(m, leapday)
           day == DayOfYear(c)
<1>1. /\ c \in [year : Nat, month : 1..12, day : Nat]
      /\ m \in 1..12 /\ c.year \in Nat /\ c.day \in Nat /\ c.day >= 1 /\ c.day <= LengthOfMonth(c)
  <2>1. c \in [year : Nat, month : 1..12, day : Nat] /\ c.day \in 1..LengthOfMonth(c)
    BY DEF IsDay
  <2> QED BY <2>1
<1>2. leapday \in {0, 1}
  BY LeapDayIs
<1>3. LengthOfMonth(c) = upTo - before
  BY <1>1, LengthIs
<1>4. before \in Nat /\ upTo \in Nat
  BY <1>1, <1>2, MonthEndsGrow
<1>5. day = before + c.day - 1
  BY DEF DayOfYear
<1> HIDE DEF day, m, before, upTo, leapday
<1>6. day \in Nat /\ before <= day /\ day < upTo /\ c.day = day - before + 1
  BY <1>1, <1>3, <1>4, <1>5
<1>7. MonthOf(day, leapday) = m /\ day \in 0..(364 + leapday)
  BY <1>1, <1>2, <1>6, MonthOfDay DEF before, upTo
<1> QED BY <1>4, <1>6, <1>7 DEF day, m, before, leapday

(* The calendar of the state and the days since the release. *)
CalendarInv ==
  /\ IsDay(calendar)
  /\ days \in Nat
  /\ DaysBefore(calendar.year) + DayOfYear(calendar) = days + 74
StampInv == stamped # NoStamp => /\ instant \in Instants
                                 /\ stamped = StampAt(calendar, instant)
                                 /\ date = parseDate(stamped)
DateInv == CalendarInv /\ StampInv

(* It is so on the day of the release. *)
LEMMA FirstDay == Init => DateInv
<1> SUFFICES ASSUME Init PROVE DateInv
  OBVIOUS
<1>1. calendar = [year |-> 1999, month |-> 3, day |-> 16] /\ days = 0 /\ stamped = NoStamp
  BY CalendarAssumption DEF Init
<1>2. LeapDay(1999) = 0
  BY DEF LeapDay, isLeapYear
<1>3. EndOfMonth(2, 0) = 59
  BY DEF EndOfMonth
<1>4. DayOfYear(calendar) = 74
  BY <1>1, <1>2, <1>3 DEF DayOfYear
<1>5. LengthOfMonth(calendar) = 31
  BY <1>1 DEF LengthOfMonth, Thirty
<1>6. IsDay(calendar)
  BY <1>1, <1>5 DEF IsDay
<1> QED BY <1>1, <1>4, <1>6, DaysBeforeFirst DEF DateInv, CalendarInv, StampInv

(* And a day later in the calendar is the next day of the count. *)
LEMMA NextDay ==
  ASSUME NEW c, IsDay(c)
  PROVE  /\ IsDay(DayAfter(c))
         /\ DaysBefore(DayAfter(c).year) + DayOfYear(DayAfter(c))
              = DaysBefore(c.year) + DayOfYear(c) + 1
<1> DEFINE y == c.year
           m == c.month
           d == c.day
           leapday == LeapDay(y)
           E(k) == EndOfMonth(k, leapday)
           n == DayAfter(c)
<1>1. /\ c \in [year : Nat, month : 1..12, day : Nat]
      /\ y \in Nat /\ y >= 1999 /\ m \in 1..12 /\ d \in Nat /\ d >= 1 /\ d <= LengthOfMonth(c)
  <2>1. c \in [year : Nat, month : 1..12, day : Nat] /\ c.day \in 1..LengthOfMonth(c) /\ c.year >= 1999
    BY DEF IsDay
  <2> QED BY <2>1
<1>2. LengthOfMonth(c) = E(m) - E(m - 1)
  BY <1>1, LengthIs
<1>3. leapday \in {0, 1}
  BY LeapDayIs
<1>4. E(m) \in Nat /\ E(m - 1) \in Nat /\ E(0) = 0 /\ E(12) = 365 + leapday
  BY <1>1, <1>3, MonthEndsGrow, MonthEnds
<1>5. DayOfYear(c) = E(m - 1) + d - 1
  BY DEF DayOfYear
<1>6. /\ DaysBefore(y) \in Nat
      /\ DaysBefore(y + 1) = DaysBefore(y) + DaysIn(y)
  BY <1>1, DaysBeforeNext
<1>7. CASE d < LengthOfMonth(c)
  <2>1. n = [year |-> y, month |-> m, day |-> d + 1]
    BY <1>1, <1>7 DEF DayAfter
  <2>2. LengthOfMonth(n) = LengthOfMonth(c)
    BY <2>1 DEF LengthOfMonth
  <2>3. DayOfYear(n) = E(m - 1) + (d + 1) - 1
    BY <2>1 DEF DayOfYear
  <2>4. n.day \in 1..LengthOfMonth(n)
    BY <1>1, <1>2, <1>4, <1>7, <2>1, <2>2
  <2>5. n.year = y
    BY <2>1
  <2>6. IsDay(n)
    BY <1>1, <2>1, <2>4 DEF IsDay
  <2> HIDE DEF n, E, y, m, d
  <2>7. DaysBefore(n.year) + DayOfYear(n) = DaysBefore(y) + DayOfYear(c) + 1
    BY <1>1, <1>4, <1>5, <1>6, <2>3, <2>5
  <2> QED BY <2>6, <2>7 DEF n, y
<1>8. CASE d = LengthOfMonth(c) /\ m < 12
  <2>0. ~(d < LengthOfMonth(c))
    BY <1>1, <1>8
  <2>1. n = [year |-> y, month |-> m + 1, day |-> 1]
    <3>1. n = [c EXCEPT !.month = m + 1, !.day = 1]
      BY <1>8, <2>0 DEF DayAfter
    <3>2. c = [year |-> y, month |-> m, day |-> d]
      BY <1>1
    <3> HIDE DEF n, y, m, d
    <3> QED BY <3>1, <3>2
  <2>2. LengthOfMonth(n) \in 28..31
    BY DEF LengthOfMonth
  <2>3. DayOfYear(n) = E((m + 1) - 1) + 1 - 1
    BY <2>1 DEF DayOfYear
  <2>4. n.day \in 1..LengthOfMonth(n)
    BY <2>1, <2>2
  <2>5. n.year = y
    BY <2>1
  <2>6. IsDay(n)
    BY <1>1, <1>8, <2>1, <2>4 DEF IsDay
  <2>8. (m + 1) - 1 = m
    BY <1>1
  <2> HIDE DEF n, E, y, m, d
  <2>9. DayOfYear(n) = E(m) + 1 - 1
    BY <2>3, <2>8
  <2>7. DaysBefore(n.year) + DayOfYear(n) = DaysBefore(y) + DayOfYear(c) + 1
    BY <1>1, <1>2, <1>4, <1>5, <1>6, <1>8, <2>5, <2>9
  <2> QED BY <2>6, <2>7 DEF n, y
<1>9. CASE d = LengthOfMonth(c) /\ ~(m < 12)
  <2>0. ~(d < LengthOfMonth(c))
    BY <1>1, <1>9
  <2>1. n = [year |-> y + 1, month |-> 1, day |-> 1]
    BY <1>1, <1>9, <2>0 DEF DayAfter
  <2>2. LengthOfMonth(n) \in 28..31
    BY DEF LengthOfMonth
  <2>3. DayOfYear(n) = EndOfMonth(0, LeapDay(y + 1)) + 1 - 1
    BY <2>1 DEF DayOfYear
  <2>4. EndOfMonth(0, LeapDay(y + 1)) = 0
    BY DEF EndOfMonth
  <2>5. n.year = y + 1 /\ n.day \in 1..LengthOfMonth(n)
    BY <2>1, <2>2
  <2>6. IsDay(n)
    BY <1>1, <2>1, <2>5 DEF IsDay
  <2>8. m = 12
    BY <1>1, <1>9
  <2>9. DaysIn(y) = 365 + leapday
    BY DEF DaysIn
  <2> HIDE DEF n, E, y, m, d, leapday
  <2>7. DaysBefore(n.year) + DayOfYear(n) = DaysBefore(y) + DayOfYear(c) + 1
    BY <1>1, <1>2, <1>3, <1>4, <1>5, <1>6, <1>9, <2>3, <2>4, <2>5, <2>8, <2>9
  <2> QED BY <2>6, <2>7 DEF n, y
<1> QED
  <2> HIDE DEF d
  <2>1. LengthOfMonth(c) \in Int
    BY <1>2, <1>4
  <2> QED BY <1>1, <1>7, <1>8, <1>9, <2>1

(* The game writes the stamp that unparseDate prints. *)
LEMMA StampIs ==
  ASSUME NEW c, IsDay(c), NEW s \in 0..(DAY - 1)
  PROVE  /\ StampAt(c, s) = StampOf(c.year, DayOfYear(c), s)
         /\ StampAt(c, s) # NoStamp
<1> DEFINE leapday == LeapDay(c.year)
           day == DayOfYear(c)
<1>1. /\ c.year \in Nat /\ c.month \in 1..12 /\ c.day \in Nat
  BY DEF IsDay
<1>2. /\ MonthOf(day, leapday) = c.month
      /\ c.day = day - EndOfMonth(c.month - 1, leapday) + 1
  BY DayOfYearIs
<1>3. s \in Nat
  BY DateAssumption
<1>4. /\ (s \div MINUTE) % (HOUR \div MINUTE) = (s % HOUR) \div MINUTE
      /\ s % MINUTE = (s % HOUR) % MINUTE
  BY <1>3, SecondCut
<1> HIDE DEF day, leapday
<1>5. StampOf(c.year, day, s) =
        [year |-> c.year, month |-> Month[c.month], day |-> c.day, hour |-> s \div HOUR,
         minute |-> (s % HOUR) \div MINUTE, second |-> (s % HOUR) % MINUTE]
  BY <1>2 DEF StampOf, leapday
<1>6. StampAt(c, s) =
        [year |-> c.year, month |-> Month[c.month], day |-> c.day, hour |-> s \div HOUR,
         minute |-> (s % HOUR) \div MINUTE, second |-> (s % HOUR) % MINUTE]
  BY <1>4 DEF StampAt
<1>7. StampAt(c, s) # NoStamp
  <2>1. Month[c.month] \in {Month[m] : m \in 1..12}
    BY <1>1
  <2>2. MINUTE \in Nat \ {0} /\ HOUR \in Nat \ {0}
    BY DateAssumption
  <2>3. s \div HOUR \in Nat /\ s % HOUR \in Nat
    BY <1>3, <2>2, Quotient
  <2>4. (s % HOUR) \div MINUTE \in Nat /\ (s % HOUR) % MINUTE \in Nat
    BY <2>2, <2>3, Quotient
  <2> DEFINE h == s \div HOUR
             a == (s % HOUR) \div MINUTE
             b == (s % HOUR) % MINUTE
             w == Month[c.month]
  <2> HIDE DEF h, a, b, w
  <2>5. StampAt(c, s) \in [year : Nat, month : {Month[m] : m \in 1..12}, day : Nat,
                           hour : Nat, minute : Nat, second : Nat]
    BY <1>1, <1>6, <2>1, <2>3, <2>4 DEF h, a, b, w
  <2> QED BY <2>5, CalendarAssumption
<1> QED BY <1>5, <1>6, <1>7 DEF day

(* The date that is read of a line, and what is printed of it again. *)
LEMMA DateRead ==
  ASSUME NEW c, IsDay(c), NEW n \in Nat, DaysBefore(c.year) + DayOfYear(c) = n + 74,
         NEW s \in 0..(DAY - 1)
  PROVE  /\ parseDate(StampAt(c, s)) = n * DAY + s
         /\ unparseDate(n * DAY + s) = StampAt(c, s)
<1> DEFINE day == DayOfYear(c)
           year == c.year
           before == DaysBefore(year)
<1>1. year \in Nat /\ year >= 1999
  BY DEF IsDay
<1>2. day \in 0..(364 + LeapDay(year))
  BY DayOfYearIs
<1>3. before \in Nat
  BY <1>1, DaysBeforeNext
<1>4. day \in Nat
  BY <1>2, LeapDayIs
<1>5. DAY \in Nat \ {0} /\ s \in Nat
  BY DateAssumption
<1>6. StampAt(c, s) = StampOf(year, day, s) /\ StampOf(year, day, s) # NoStamp
  BY StampIs
<1>7. parseDate(StampOf(year, day, s)) = (before * DAY - EQDate) + day * DAY + s
  BY <1>1, <1>2, <1>6, ParsedAsPrinted DEF DaysBefore
<1> HIDE DEF day, year, before
<1>8. before + day = n + 74
  BY DEF day, year, before
<1>9. /\ before * DAY + day * DAY = (n + 74) * DAY /\ (n + 74) * DAY = n * DAY + 74 * DAY
      /\ before * DAY \in Int /\ day * DAY \in Int /\ n * DAY \in Int /\ 74 * DAY \in Int
  <2>1. before * DAY + day * DAY = (before + day) * DAY
    BY <1>3, <1>4, <1>5
  <2>2. (n + 74) * DAY = n * DAY + 74 * DAY
    BY <1>5
  <2> QED BY <1>3, <1>4, <1>5, <1>8, <2>1, <2>2
<1>10. parseDate(StampAt(c, s)) = n * DAY + s
  BY <1>5, <1>6, <1>7, <1>9 DEF EQDate
<1>11. (n * DAY + s) + EQDate = (n + 74) * DAY + s
  BY <1>5, <1>9 DEF EQDate
<1>12. ((n + 74) * DAY + s) \div DAY = n + 74 /\ ((n + 74) * DAY + s) % DAY = s
  BY <1>5, QuotientIs
<1>13. YearAndDay[[year |-> 1999, day |-> n + 74]] = [year |-> year, day |-> day]
  <2> DEFINE at == [year |-> year, day |-> day]
  <2>1. YearAndDay[[year |-> 1999, day |-> before + day]] = YearAndDay[at]
    BY <1>1, <1>4, YearReached DEF before
  <2>2. at \in YearDays /\ at.day = day /\ at.year = year
    BY <1>1, <1>4 DEF YearDays
  <2>3. ~(day >= DaysIn(year))
    BY <1>2, LeapDayIs DEF DaysIn
  <2> HIDE DEF at
  <2>4. YearAndDay[at] = at
    BY <2>2, <2>3, YearTaken
  <2> QED BY <1>8, <2>1, <2>4 DEF at
<1>14. unparseDate(n * DAY + s) = StampOf(year, day, s)
  <2> DEFINE seconds == (n * DAY + s) + EQDate
  <2>1. unparseDate(n * DAY + s) =
          StampOf(YearAndDay[[year |-> 1999, day |-> seconds \div DAY]].year,
                  YearAndDay[[year |-> 1999, day |-> seconds \div DAY]].day, seconds % DAY)
    BY DEF unparseDate
  <2>2. seconds \div DAY = n + 74 /\ seconds % DAY = s
    BY <1>11, <1>12
  <2> HIDE DEF seconds
  <2> QED BY <1>13, <2>1, <2>2
<1> QED BY <1>6, <1>10, <1>14

(* Every step keeps the count with the calendar. *)
LEMMA DateStep == DateInv /\ [Next]_vars => DateInv'
<1> SUFFICES ASSUME DateInv, [Next]_vars PROVE DateInv'
  OBVIOUS
<1>1. CASE Lines \/ UNCHANGED vars
  <2>1. UNCHANGED dates
    BY <1>1 DEF Lines, vars
  <2> QED BY <2>1 DEF DateInv, CalendarInv, StampInv, dates
<1>2. CASE Midnight
  <2>1. IsDay(calendar') /\ days' \in Nat
        /\ DaysBefore(calendar'.year) + DayOfYear(calendar') = days' + 74
    <3>1. IsDay(calendar) /\ days \in Nat
          /\ DaysBefore(calendar.year) + DayOfYear(calendar) = days + 74
      BY DEF DateInv, CalendarInv
    <3>2. IsDay(DayAfter(calendar))
      BY <3>1, NextDay
    <3>3. DaysBefore(DayAfter(calendar).year) + DayOfYear(DayAfter(calendar))
            = DaysBefore(calendar.year) + DayOfYear(calendar) + 1
      BY <3>1, NextDay
    <3>4. calendar' = DayAfter(calendar) /\ days' = days + 1
      BY <1>2 DEF Midnight
    <3> QED BY <3>1, <3>2, <3>3, <3>4
  <2>2. stamped' = NoStamp
    BY <1>2 DEF Midnight
  <2> QED BY <2>1, <2>2 DEF DateInv, CalendarInv, StampInv
<1>3. ASSUME NEW s \in Instants, ReadDate(s) PROVE DateInv'
  BY <1>3 DEF DateInv, CalendarInv, StampInv, ReadDate
<1>4. CASE ForgetDate
  BY <1>4 DEF DateInv, CalendarInv, StampInv, ForgetDate
<1> QED BY <1>1, <1>2, <1>3, <1>4 DEF Next

(* So the date is right. *)
LEMMA DateAgrees == DateInv => DatesAgree
<1> SUFFICES ASSUME DateInv, stamped # NoStamp
             PROVE  date = days * DAY + instant /\ unparseDate(date) = stamped
  BY DEF DatesAgree
<1>1. /\ IsDay(calendar) /\ days \in Nat
      /\ DaysBefore(calendar.year) + DayOfYear(calendar) = days + 74
      /\ instant \in Instants /\ stamped = StampAt(calendar, instant) /\ date = parseDate(stamped)
  BY DEF DateInv, CalendarInv, StampInv
<1>2. instant \in 0..(DAY - 1)
  BY <1>1, CalendarAssumption
<1> QED BY <1>1, <1>2, DateRead

(* Whatever day it is since the release, however many days are counted     *)
(* and however many seconds a day has: the date that parseDate reads of    *)
(* a line is the seconds passed until it was written, and unparseDate      *)
(* prints that date as the game wrote it (date.c).                         *)
THEOREM DatesAlwaysAgree == Spec => []DatesAgree
<1>1. Init => DateInv
  BY FirstDay
<1>2. DateInv /\ [Next]_vars => DateInv'
  BY DateStep
<1>3. DateInv => DatesAgree
  BY DateAgrees
<1> QED BY <1>1, <1>2, <1>3, PTL DEF Spec
=============================================================================
