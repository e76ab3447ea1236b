# takp in TLA+

Models, model-checking runs and proofs for the programs of this repository: tools
for players of an online game. `src/dps` (C) reads the game's log and reports the
damage of each battle, `src/dps++` is its port to C++, `src/dps.py` its
predecessor, and `src/launcher` (C++) switches between the windows of several
games with hotkeys and repeats a key in one of them ("autofire"). Some shell
scripts start the game and keep score.

## The system and its parts

| Part | State | Operations | Hard because |
|---|---|---|---|
| `dps/tail.c`, `tail()` | position, the answer of the callback | poll the size, seek, read, split into lines, call back, sleep | the game writes, and empties the file, between any two system calls |
| `dps++/tail.cpp`, `IO`, `LoopIO` | position, inotify queue | as above, but blocks in `read(m_inotify)` | a write just before the wait must still end the wait |
| `dps/dps.c`, `tellme()`, `main()` | `lineno`, the battle | called per line: window of dates, parse, expire and report the battle, dispatch | order of checks; dates that step back or lie below zero |
| `dps/battle.c` | names, fights, deaths by id; start, end, expiry; announcements waiting for their hit | start, keepalive, melee, miss, crit, crip, holyBlade, magic, heal, death, sort, report, reset | ids that tie four arrays together and live until a reset; counters in two places |
| `dps++/dps.cpp`, `dps++/battle.cpp` | as above, with vectors and counters of its own | as above | written again and not translated |
| `dps/action.c`, `dps++/action.cpp` | none | text of a line to an action | a chain of string tests whose order decides; lengths written by hand; two versions of it |
| `dps/array.c` | storage, size, capacity | push, resize, clear, at, swap | storage moves under pointers that `at` gave out; elements own memory |
| `dps/date.c` | none | date to seconds and back | calendar boundaries, leap years, two ways to count |
| `launcher/context.cpp`, threads | `m_running`, the autofire flag, condition variable, a promise, a self-pipe | five threads and a signal handler | every pair of them shares something |
| `launcher/context.cpp`, keys | windows and keys of three clients, autofire's key and aim, the grabs of the X server | reload of the configuration, key press and release, focus, unmap | what a reload does not set stays from the one before; a grab given up is not released |
| `launcher/window.cpp`, `display.cpp` | none | wrappers of Xlib | |
| `launcher.sh`, `skillup.sh`, `loot_table.sh` | processes | run other programs | |

How they interact: `tail()` calls `tellme()` with every line, and `tellme()`
returns whether to go on. `tellme()` lets `Action_parse` make an action of the line
and calls the method of the one `struct Battle` for it; the battle keeps its arrays
with `array.c` and prints with `date.c`. In the launcher the keyboard thread owns
the clients, the autofire thread reads them; they share an atomic flag and a
condition variable. The inotify thread and the cancel thread talk to the keyboard
thread only by sending an X event to the root window. The signal handler talks to
all: to the inotify thread by a pipe, to the autofire thread by the flag and
`notify_all`, to the cancel thread by a promise.

What makes each part correct:

* *tail*: whole lines only, in order, each once, all of them in the end; nothing
  after a refusal; an emptied file is found out; the program ends when it should.
* *battle*: what the lines of a battle said is in the report, once; names and
  fights are not split in two; ids stay valid; nothing leaks from one battle to the
  next; a battle ends after the silence asked for and lies in the window asked for;
  the port tells the same story.
* *array*: nothing is freed twice, lost or used after it moved, and what was put in
  can be read back.
* *parser, date*: a line means what the game meant by it, whatever the fighters are
  called; the rest of a line whose beginning was missed means nothing; both versions
  agree; a date is parsed to the time that has passed and printed as it was.
* *launcher*: shutdown reaches every thread; autofire only while the game has the
  focus; the promise is satisfied once; a key reaches the client it is configured
  for, and no key in use loses its grab.

## Modules

| Module | Models | State and actions against the code |
|---|---|---|
| `Battle` | `dps/battle.c`, `battle.h`, the ratio of `utility.h` | A battle is a record with the fields of the struct; each method is an operator from battle to battle. Arrays are sequences, an array index plus one is an id, `NoId` = 0 stands for -1. |
| `Dps` | `tellme()`, the end of `main()` in `dps/dps.c` | Extends `Battle`. One action per case of the `switch`, each a whole call: window, report and reset of a battle that is over, handler. `Undated`, `Skip` and `Stop` are the early returns, `Finish` is what follows `tail()`. |
| `DpsPP` | `dps++/dps.cpp`, `dps++/battle.cpp` | The port, in the same style but from its own source: vectors, one table of verbs, its own rules for what a backstab and a miss count as. |
| `DpsPair` | (composition) | Both programs over the same log, in step: each line goes to both as the action its own parser makes of it. |
| `BattleLedger` | (abstract) | What the parser promises, without ids, arrays, verbs or classes of hits: accounts by pairs of names, closed by silence, published when long enough. |
| `Array` | `dps/array.c` | A heap of blocks whose addresses are never used twice; an array is its block, its size and its capacity. One operator per function. |
| `Storage` | the arrays of `dps/battle.c` | Extends `Array`. `m_pc`, `m_fight` with a `m_byVerb` per fight, `m_death`, and what their elements own; `Melee`, `Death`, `Sort` and `Reset` follow `battle.c` pointer by pointer. |
| `LogFile` | (external) the file and the game | `Write`, `Truncate`, `read(2)`, and `WholeLines`, the reference definition of the lines of a run of bytes. |
| `LineScan` | the `for` over a buffer in `dps/tail.c`, `dps++/tail.cpp` | Extends `LogFile`. What a byte does to the loop (`ScanByte`), which both programs share, and its state; the heads of the two loops are in `Tail` and `LoopIO`. |
| `LineStream` | (abstract) | What tailing a growing file promises. |
| `Tail` | `tail()` in `dps/tail.c` | A step per system call: `Stat` (with the seek), `ReadNothing`, `ReadSome` (with the callbacks), `Sleep`, `Leave`. |
| `LoopIO` | `IO`, `LoopIO` in `dps++/tail.cpp` | As `Tail`, with the constructor's two steps (size, watch) and `Wait` on the inotify queue, which merges equal events. |
| `Launcher` | the threads of `Context` in `launcher/context.cpp`, `main.cpp` | `pc` says where each of the threads and the handler are. A step per access to shared state. The game, window manager and player are the environment. |
| `Hotkeys` | the keys of `Context` in `launcher/context.cpp` | One action per X event the keyboard thread handles, and `Reload`, which is `parse_config` with every `set_client`, `set_autofire`, `grab` and `ungrab` it calls, in their order. |
| `Words` | the searches of `dps/utility.c` | A text is a sequence of words and marks; a phrase is found in it as `String_find`, `startsWith` and `endsWith` find it. |
| `Parser` | `dps/action.c` | Pure operators, one per branch of `Action_parse` and `parseDamage`, and the table of verbs. |
| `ParserPP` | `dps++/action.cpp` | The same for the port. |
| `Date` | `dps/date.c` | `parseDate` and `unparseDate` on the parts of a stamp; the loop over the years is a recursive function. |
| `GameLog` | (external) what the game writes of a fight | `Parse` is `tellme` with a line, or with the rest of one whose beginning was missed: both parsers get a line that has its date, and what the game meant by it is kept; the date in front of it follows the calendar; `Return` ends the call. |
| `MCDps`, `MCDpsPair`, `MCTail`, `MCLoopIO`, `MCLauncher`, `MCHotkeys`, `MCParser`, `MCStorage` | | Small instances for TLC. |
| `DpsProofs` | | Theorems about `Dps`: types, ids and dates; what it counts; that it implements `BattleLedger` and sorts its rows, and that `DpsPP` beside it does too. |
| `StorageProofs` | | Theorems about `Array` and `Storage`. |
| `LineProofs`, `TailProofs`, `LoopProofs` | | Theorems about `LineScan`, and with them about `Tail` and `LoopIO`. |
| `LauncherProofs`, `HotkeysProofs` | | Theorems about `Launcher` and `Hotkeys`. |
| `ParserProofs` | | Theorems about `Words`, both parsers and `GameLog`, and about `Date`. |

Definitions that no action uses and whose names say what goes wrong in them
(`ReadNothingDrains`, `DieKeepsBlow`, `KbHotkeyBlind`, ...) are each a faulty form of
the definition below them. Put in its place, each is found out by the property that
`PROJECT.json` lists for it: they show that the properties can fail.

## What TLC checks

`tlc -config <run>.cfg <module>`; the four runs marked *violated* are
disagreements of the code with its documentation, see below.

| Run | Bounds | Shows |
|---|---|---|
| `MCDpsPair` | 3 names, 2 verbs, 10 kinds of line, 5 dates that do not step back, 4 lines; `--by-verb`, `--since 1`, `--until 4`, `--me` | `NothingLost`: the fights add up to what the lines dealt. `BattleWindow`: a battle lies in the window and each fight in its battle. `RefinesLedger`, `PortRefinesLedger`: both programs implement `BattleLedger`. `SameStory`: until a swing misses, both tell the same of what each target suffered, of heals, deaths and battles. |
| `MCDpsClock` | 3 names, 12 kinds of line, dates -2, -1, 0, 1, 3, 5 in any order, 4 lines; `--extra`, `--until 4`, `--report-by-target` | `TypeOK`; `NamesInterned`, `FightsIndexed`: ids; `MagicWithinFight`; `SpecialsAnnounced`, `FinishingBlowsDealt`: each announcement and each blow is used once, in its battle. `RowsSortedByDps`: the report. |
| `MCStorage` | 3 names, 2 verbs, 3 lines, arrays that start with one element; symmetry of names and of verbs, which no definition tells apart | `OwnedOnce`: every block has one owner, and none is freed twice or lost. `ReadBack`: what was counted can be read back through the arrays, however they moved. |
| `MCTail` | 11 bytes in four lines with LF, CR and CRLF, buffer of 4, one truncation, with and without `--history` and `--follow` | `ConsumedDelivered`, `RefinesLineStream`, `EveryLineDelivered`: whole lines, in order, once, all. `EndsAtWholeLine`. `NeverGlued`, `CatchesUp`: truncation. |
| `MCLoopIO` | the same log | the same for the C++ loop, `NothingAfterRefusal`, and `BlockedAtEnd`: no wakeup is lost. |
| `MCLauncher` | 2 keys or edits, 1 signal, 1 window of the game | `KeyboardThreadWoken`, `ExitsWhenHeard`: shutdown. `StopsWithoutFocus`: autofire. |
| `MCHotkeys` | 10 configurations (keys swapped, a client more and less, a key that is none, a modifier that is cut off, four keys, fewer keys than accounts, two lines of keys), 4 reloads, 2 values of what lies beyond the keys in memory | `BoundKeysGrabbed`: no key in use loses its grab. `RoutedAsConfigured`: a key reaches the client it is configured for. `AutofireAimed`: autofire aims at an account that was named for it. |
| `MCParser` | 4 names (of one word, of several, with a verb inside, with "for" inside), all 15 verbs, 17 kinds of line, 2 numbers, each line whole and with a beginning of any length missed; every day from the release to March 2100, at three instants of a day of 24 seconds (a minute of 2, an hour of 6) | `MeaningParsed`: a line is parsed to what was meant, and the rest of one to nothing. `FightersNamed`: what `Dps` assumes of its lines (`LogAssumption`) holds of the parser's. `SameAsDpsPP`: the two parsers agree, but for the tries and a "for" in a target. `DatesAgree`: a date is parsed to the seconds passed and printed as it was. |
| `MCDpsByVerb` | one attacker of three targets, 5 lines, with `--by-verb` | *violated*: `RowsSortedByDps` |
| `MCTailStop` | buffer of 8 | *violated*: `NothingAfterRefusal` |
| `MCTailPartial` | a log without a last newline | *violated*: `EndsWithoutFollow` |
| `MCParserVerb` | as `MCParser` | *violated*: `VerbWithoutSpaces` |

Why the bounds are enough. A battle needs two names; three give an attacker with
two targets, a target with two attackers, and both spellings of the log's owner.
Four lines are enough to announce, hit, be silent and hit again, or to strike two
blows and die twice. Dates around a keepalive of one give "just alive" and "just
over"; those at and next to `--since` and `--until` give "just inside" and "just
outside"; -1, the second before the game's release, is what the code also uses
for "no battle". An array that starts with one element and doubles to two and then
to four goes through every branch of `nextCapacity` but `c > Half` before `Large`, which
doubling from 16 does not reach either, and moves at every push; three lines
strike, strike again and die. A buffer of four bytes splits lines and a CRLF in every place, and one truncation at
any point of the loop shows everything that a second could do to a loop that keeps
only a position. Both parsers look at a line alone and compare it with fixed
phrases, so one line of each form with each shape of name is all there is to see.
A century of days has every kind of year that `date.c` tells apart; the seconds of a
day are divided the same way whatever their number, so a scaled minute and hour
(`ParserProofs` is for any) are enough. The launcher's run needs one key to start
autofire and one to disturb it; the runs with two windows of the game and with two
signals (one key) were made once and agree. A reload depends on the clients the
ones before it left, of which four in any order of ten configurations give every
combination of a key, an aim and a client that the next one does not set.

Fairness. `Tail` and `LoopIO` assume weak fairness of the loop, which runs on a
thread of its own and makes system calls that return (`Wait` only when there is an
event); nothing is assumed of the game. `Launcher` assumes weak fairness of each
thread and of the handler, that is, of the kernel's scheduler and of timed waits;
nothing is assumed of the player, the window manager or the number of events.
`Dps`, `DpsPP`, `Storage`, `Hotkeys` and `GameLog` have only safety properties.

`CHECK_DEADLOCK` is off for all but the parser because every one of these programs may stop:
the log ends, the callback refuses, main returns, nobody presses a key.

## Where the code and its documentation disagree

* `--by-verb` leaves the rows of a report in the order of the log: the sort compares
  `m_melee.damage`, which is 0 then (`MCDpsByVerb`).
* `tail()` goes on calling back for the rest of the buffer after the callback has
  refused, and a later answer overrides the refusal (`MCTailStop`). The C++ port
  stops at once (`MCLoopIO`).
* Without `--follow`, a log whose last line is not finished is read for ever, without
  even the sleep (`MCTailPartial`).
* The table of verbs gives " bite " a length of 7: "You bite ..." is not recognized,
  and the verb of "bites" is "bite " with a space, where the code says "No spaces";
  with `--by-verb`, hits and misses of a bite come in two rows (`MCParserVerb`).
* The comment above `Action_parse` (`action.c:252`) lists "You were hit by non-melee for
  N damage."; no ending the code looks for fits it. `GameLog` leaves the form out and
  writes "points of damage", as the sample logs do.

Met while modelling, in the models, but the subject of no run of its own:

* A finishing blow returns before `keepalive`, so a battle can end sooner after it than
  `dps/README.md:36` says. A battle shorter than `--keepalive` is not reported. Names of
  a report come in the order they were met, not by damage. A stamp with the right length
  and garbled digits is parsed to some number, mostly far below zero, which `--since`
  skips even by its default of -1.
* The port does not know swings that miss, calls the source of every spell
  "Spell/DS(Total)" and reports battles however short (`SameStory` compares the rest).
* The launcher does not exit after a signal that falls between the autofire thread's
  check of `m_running` and its wait (`cv.wait` without a predicate), or before the
  inotify thread has made its pipe, or after an exception in `parse_config`, which ends
  the keyboard thread and leaves the others asleep. Autofire goes on without focus if
  the game's window is let go and found again before the autofire thread notices (the
  exception in `StopsWithoutFocus`).
* `set_client` and `set_autofire` reset a key before they ungrab it, so nothing is ever
  ungrabbed: a key that is given up stays grabbed for ever. That is also what keeps
  `BoundKeysGrabbed`: if a key swapped between two clients were released, the second
  would lose it (`SetClientReleasesFirst` of `Hotkeys` is that fault).
* A second line of keys keeps the modifiers of the first, where a comment says "Last
  one in wins"; modifiers are masked with 0x7F, so a key with `Mod5` or `AnyModifier` is
  grabbed and never matched; `keys[4]` is read when there are only four; a key symbol that
  is none has the keycode 0, and its grab is one of `AnyKey`. The exceptions of
  `RoutedAsConfigured` name them. `autofire[0]` (`context.cpp:674`) is read even if the
  configuration has no autofire line and the vector is empty: the behaviour is
  undefined, and every configuration of `Hotkeys` has such a line, maybe with the empty
  name (`NoAccount`).
* A reload does not clear what it does not set. `AutofireAimed` therefore only says that
  autofire aims at an account which some configuration so far has named, not that the
  last one did.
* A name with a verb in it ("a claw spider") is split at the verb (`Plain` in
  `MeaningParsed`), and a target of a hit that is taken to have the word "for" in it is mangled by `dps++`
  (`ForIn` in `SameAsDpsPP`). If the name *ends* in a verb, the verb of the line has no target and no
  damage behind it: "You bite a giant claw for 7 points of damage." becomes a hit by
  "You bite a giant" of no one for 0 points (`bite` is not recognized, `claw` is). The names
  of the models end in no verb (`NamesAssumption`), as the game's do.

## What is proved

Each theorem holds for every value of the constants the modules allow; the only
assumptions are those the modules state on their constants, which TLC evaluates on
every run. Those that say something of the environment are `LogAssumption` (a line
names its fighters, and its damage is a number: `FightersAlwaysNamed` proves it of the
parser), `NamesAssumption` (no name ends in a verb or in "by", or holds "try to", "tries
to", "have slain" or "been slain"), `WordsAssumption` (names and numbers are words, which
a mark of the line is not; nothing is hit for 0 points; the third person of a verb is one
of the forms that `action.c` looks for, and not the verb itself), `CalendarAssumption` (the
game was released on 16 March 1999, as `date.c:41` has it; what stands for a stamp of the
wrong length is not a stamp), `ContentAssumption` (the bytes of a log are numbers), `TruncationsAssumption`
(a bound of the model) and `VerbsAssumption` (the table of verbs is finite).

`DpsProofs`, for every set of names, aliases and verbs, every choice of options, every
set of lines the parser can produce and every set of integer dates, those below zero
and decreasing ones included:

* `TypeCorrect`: `Spec => []TypeOK`;
* `NoNameTwice`: `Spec => []NamesInterned`;
* `IdsWithinTables`: `Spec => []FightsIndexed`, so the report never uses an id past
  the end of an array.

The inductive invariant is `IInv == TypeOK /\ NamesInterned /\ FightsIndexed`, which
`MCDpsClock` checks as its conjuncts. None of the three is inductive alone:
`FightsIndexed` needs that interning only appends and that a name just interned has
an id (`EngageFinds`), which needs `NamesInterned` and the types; `TypeOK` of the
counters needs that the fight a handler updates exists, which is `FightsIndexed`.
The argument goes method by method: lemmas `MeleeGood`, `MissGood`, `MagicGood`,
`HealGood`, `DieGood`, `AnnounceGood`, `ResetGood` show that each keeps a good battle
good, from lemmas on its helpers (`PositionOfFinds`, `FightPositionFinds`,
`InternKeeps`, `GetFightFinds`, `UpdateFight`, `HitType`, `EvadeType`). The searches
of the code return the *first* match, a `CHOOSE` of a least index; `LeastIndex`
provides it, from the well-foundedness of strict inclusion on finite sets.
`NextIInv` has a case for every action. `Inductive` then follows with `PTL`.

It goes on to prove `WindowKept`, `Spec => []BattleWindow`, for logs whose dates do
not step back and have no -1 that is read (`DatesInOrder`, an assumption of the
theorem: without it the property is false). The invariant adds that a battle is either
idle or has begun inside the window, that its end is the date of the last line that
touched it, and that every fight that was struck lies between. A new fight is pushed
with an end of 0 and set right in the same call; that the call finds the fight it has
pushed (`GetFightFinds`) is why the 0 is never seen.

Its second part proves, for any log, what `Dps` counts:

* `BlowsPaidFor`: `Spec => []FinishingBlowsDealt`. Inductive together with the `IInv`
  above: a death is marked by using up the blow that waited, a blow that waits was
  just struck, and a reset clears both.
* `SpellsWithinFight`: `Spec => []MagicWithinFight`;
* `EveryLineCounted`: `Spec => []NothingLost`;
* `SpecialsPaidFor`: `Spec => []SpecialsAnnounced`.

The last three are consequences of one invariant, `CInv` (`CountsInductive`), which
says for every fight that its total is the sum of what is kept by class of hit and,
with `--by-verb`, by verb, and that the sums over all fights are what the lines of the
battle dealt; that a spell's share is within its fight; and that the special hits counted
and the announcements that still wait are no more than the lines that announced one.
What a line changes is one entry of one fight, so the argument needs that a sum of which
one member grows, grows by as much, and that a new fight adds nothing. Sums are folds
over sets, about which the library has no usable induction (its theorems take an
operator as a parameter); `SubsetInduction` states induction over the subsets of a
finite set with a *set* in the place of the property, and `SumsExist` derives from it
that the sums exist and are found by adding one member at a time.

It ends with the refinement `ImplementsLedger`, `Spec => RefinesLedger`, for logs whose
dates are in order (`DatesInOrder`, as above). The refinement mapping takes the fights of a
battle to accounts by pairs of names (`Account`) and each report to what it prints
(`AccountPrinted`). Three things carry it:

* what a handler does to the accounts. `Struck` says that one fight, found or just
  pushed, has one more swing and every other total is what it was; `Unstruck` that no
  total changed. Each handler is one of the two (`MeleeStrikes`, `MissStrikes`,
  `MagicStrikes`, `BlowUnstruck`, `HealUnstruck`, `DieUnstruck`, `AnnounceUnstruck`), and
  `AccountStruck`, `AccountSame` turn them into `Enter` and a carried account. They rest on
  the ids (no two fights between the same names, `PairsDiffer`) and on `CInv` (the total
  of a fight grows with the one counter that is in use);
* what a report prints. `Rows` is a bubble sort, then for each name the rows of its
  fights; `SortKeeps` and `FlattenRange` show that exactly the fights of the battle are
  printed, one row each, so that what is printed is the account (`Printed`). The folds
  of the community modules are recursive functions, of which `PassesSolved` and
  `FlattenSolved` first show that they exist;
* when a battle begins and ends. `MeleeProlongs` to `BlowOpens` say which dates a handler
  leaves, and `Settles` that `IsOver` is the silence of the ledger, which needs the
  invariant `LInv`: no date is before -1, so that a battle that began did so after it.

And with `RowsSorted`, `~ByVerb => (Spec => []RowsSortedByDps)`, for any log: below one
another the rows of a name fall in damage per second. With `--by-verb` this is false
(run `MCDpsByVerb`), hence the hypothesis. The comparison is written with products,
as the seconds of a fight may be negative but are never zero, and is a total order of the
fights (`RatioTransitive`, `AtLeastOrders`). Then `PassStep` and `PassSinks` follow the inner loop of
`Battle_sort`, which brings the least of the fights it passes to the end (`Sunk`), and
`PassPlaces` the outer one, behind which the fights are in their places (`Behind`);
`n - 1` passes are just enough (`SortSorts`). `FlattenOrder` says that what stands first
in a flattened sequence is in an earlier part or earlier in the same part, so that the
order of the fights is that of the rows of one name (`RowsOfFall`), and different names
never own one another's rows (`Interned`). What was printed stays, so the invariant is
`OutputFalls`, with `IInv` and `CInv`.

Its third part is `PortImplementsLedger`, `PairSpec => PortRefinesLedger`, for the C++ port
told the same lines, again with `DatesInOrder`. The invariant `PPInv` says of the port's
battle what `IInv` says of `Dps`'s: its types, that no name has two ids and no pair two
fights (`PPGood`), that its dates lie in order (`PPWithin`), and that what was printed is a
sequence. The port looks names up by the first match in a vector
(`PPIdFinds`, `PPFightIdFinds`), and its `melee` runs a second time inside `magic`, so that a
spell is counted in two shares but is one swing (`PPMagicStrikes`). It prints the rows
name by name without a sort of the fights; `PPPrinted` shows that they are the account.
It knows no misses, so its hits stand for the swings of the ledger, and `PPSettles` has
`Least <- 0`, as the port publishes a battle however short it was. `PairAssumption` says
that the name `Spell/DS(Total)` is no fighter's and not the absence of a name.

`LineProofs` has what both tail loops rest on. The reference `WholeLines` and the scans are
recursive functions; each is known by the equation it solves, and `RecursionSolved`
and `RecursionUnique`, by an induction over numbers with a set for the property
(`BoundedInduction`), give it one solution. `WithBytes` lemmas say that reading two runs
of bytes one after the other is reading their concatenation. `FoundUpTo` is the
invariant of the `for` over a buffer: the lines given to the callback are the whole
lines of what was consumed, and no end of line is left in the rest. `ReadDelivers` is
the consequence for a read: what is handed over is what the file has there.

`TailProofs` proves, for any log, writes and truncations of it, size of the buffer and
callback:

* `TypeCorrect`: `Spec => []TypeOK`;
* `WholeLinesDelivered`: `Spec => []ConsumedDelivered`, no line is lost, cut, doubled or
  out of order until the file is emptied;
* `LinesNeverGlued`: `Spec => []NeverGlued`, even when it is emptied;
* `ImplementsLineStream`: `Spec => RefinesLineStream`, the loop implements the abstract
  stream: `Init` and every step map, a read that delivers to `Deliver` or a stutter.

`ConsumedDelivered` is not inductive: the position that was checked and the offset that
is read from are two variables, so `InStep` says how they agree at each point of
the loop, and that they only part after a truncation.

`LoopProofs` proves the same for `LoopIO` (`TypeCorrect`, `WholeLinesDelivered`,
`ImplementsLineStream`), and

* `NoWakeupLost`: `Spec => []BlockedAtEnd`; the invariant follows the position from the
  size to the read: in `read` the offset is where `m_pos` is, or `m_pos` was set to the end
  of a file that was emptied, or there is an event (`UpToDate`);
* `NothingFollowsRefusal`: `Spec => []NothingAfterRefusal`, which is false of `Tail`
  (`MCTailStop`): `ParsedUpTo` says that the line that was refused is the last.

`LauncherProofs` proves, for any number of keys, windows, events and signals,
`PromiseKept`, `Spec => []TypeOK`, of which the point is `barrier \in 0..1`: `set_value` is
called once at most; and `KeyboardWoken`, `Spec => []KeyboardThreadWoken`. The second is
not inductive: it counts any handler that is under way, but only the one that found
`m_running` set will set the promise. `Woken` counts only that one, and
`PromisePending` says what it has not done yet.

`HotkeysProofs` proves, for any configurations, reloads and contents of the memory
beyond the keys, `GrabsKept`, `Spec => []BoundKeysGrabbed`; `AimKept`,
`Spec => []AutofireAimed`; and `RouteKept`, `Spec => []RoutedAsConfigured`. A reload is
several calls, so the invariants are stated of a context in the middle of one
(`Grabbed`); the second adds that a client with the autofire flag was named, and that
the client autofire aims at has the flag (`AimInv`).

`ParserProofs` proves, for any names and numbers (of up to five digits, which are one
word) that `NamesAssumption` and `WordsAssumption` allow:

* `FightersAlwaysNamed`: `Spec => []FightersNamed`, so that what `DpsProofs` assumes of its
  lines is what the parser gives it;
* `LinesMeanWhatTheySay`: `Spec => []MeaningParsed`, every value of a line: its kind,
  both fighters, the verb, the damage, and whether it was magic; and that the rest of a
  line whose beginning was missed has none of them. The names are `Plain`
  (no verb but as the first word, and no "been healed" inside) and the verb is not `bite`,
  whose entry in the table is wrong (`MCParserVerb`); it is the code that asks for both;
* `PortParsesAlike`: `Spec => []SameAsDpsPP`, of every line, plain names or not.

None is a table of cases: a name may have any words in any number, so that a verb, a "for"
or a "hit" may stand in the middle of it, and the searches of the parser find the first or
the last of them, not the one that is meant. The argument is about places. `HitParsed`,
`AreaParsed`, `SlainParsed`, `SlainByParsed` and `TryParsed` say what a branch of
`Action_parse` finds in a text from where its marks are, whatever the words around them.
`TextIs` says that each line of the game has one of six forms (`HitText`, `AreaText`,
`DiedText`, `TryText`, `KillText`, `AnnounceText`), which fix where its marks and its pairs
of words stand: at most one mark of a kind, and the pairs of a try or a death only where the
form has them. `LineNamed` goes through the forms. For the values, `Holds` says where each
part of a line (a fighter, the verb, the words of an ending) stands in it, `FirstVerb` and
`VerbsApart` that the first verb found is that of the line, as no plain name has another,
and a lemma for each branch (`HitMeant`, `SpellMeant`, `HealMeant`, `CritMeant`,
`DiedMeant`, `SlewMeant`, `TryMeant` and so on) what is cut out of the text from there;
`LineMeant` goes through the kinds of line. `LineInv` (there is no line, or one without a
date and the actions are `Unknown`, or the actions are the parsers' of a text the game
wrote) is the invariant.

The comparison with the port asks little of the form of a line. On any text whatever it
finds the same places and cuts out the same words (`SamePlaces`, `SameCuts`,
`SameVerbPlace`: its table of 29 verbs is that of `dps`, spelled out), so the branches agree
one by one: `DamageAgrees`, `StatementAgrees`, `AnnouncementAgrees`, `ExclamationAgrees`.
`SameTarget` is where they could part: `dps` ends the target at the last " for ", the port at
every one, which is the same if the target that `dps` takes holds none; that there is one
at all is what `FightersNamed` says. Of a try `dps` always makes one (`TryLineMeant`), and
the port nothing, because no death is in its words (`TryEndsFree`, `TryIgnored`). The proof
corrected the property: it used to leave aside the names of targets with "for" in
them, but in "A hits x for y slashes Player1 for 7 points of damage." the "for" is in
the name of the source, which `dps` splits at "hits", and it is the target `dps` takes
that holds it.

`ParsedAsPrinted` says of a year, and of any length of the day, that the stamp
that `unparseDate` prints for a day and second of the year is parsed to them again. It
rests on `MonthFound`, that the chain of tests finds a month for every day.
`DatesAlwaysAgree`, `Spec => []DatesAgree`, adds the years, however many. The loop of
`unparseDate` takes one year off at a time, `parseDate` counts the leap days since 1999
in one sum. `YearsLoop` shows that the recursion has a solution, given outright as the
one year whose days hold the day that is asked for (`YearOf`), and that it has no other;
`YearReached` that the year it ends with is the one the sum counts from. `DateInv` is the
invariant: the days before the calendar's year and those of its year are the days
counted since the release, and the 74 days before it.

`StorageProofs` proves, for any names, verbs, capacities and length of the log,
`BlocksOwnedOnce`, `Spec => []OwnedOnce`, and `StoredReadBack`, `Spec => []ReadBack`. The
inductive invariant `SInv` has three parts. `WF` says of a battle that its arrays are
blocks of their capacity, that no name, pair or verb is in them twice and that ids are
of names; and, of the function `Own` from owners to addresses, that it is one to one and
onto the blocks in use (`Once`). The third part, `Told` and `ToldDeaths`, says that what is
stored is what was said. The first two parts need each other: that a text is still what
it was when another array moves is because the two do not share a block.

The argument goes from the bottom up. `MallocIs`, `FreeIs` and `WriteIs` say what happens
to a heap, `PushedIs` what a push does, whichever branch of `Array_resize` it takes. What
`datum_dtor` is called for is a fold, so a clear is solved by induction over the
subsets of `1..n` (`SubsetsReached`; `StringFold` and its like): `ClearStrings`, `ClearVerbs`
and `ClearFights` say that it frees exactly the blocks the elements own. `Untouched` and
its lemmas say what stays when some owners' blocks change; with them `InternIs`,
`GetFightIs`, `CountHitIs`, `DeathPushed`, `SortedIs` and `ResetIs` go function by function
through `battle.c`. That no pointer is stale is then `AtIs`, for the pointer is taken after
the push (taken before, `PointedBeforePush`, it is not valid).

Only model-checked:

* liveness: `EveryLineDelivered`, `EndsAtWholeLine`, `CatchesUp` of the loops,
  `ExitsWhenHeard` and `StopsWithoutFocus` of the launcher; fairness and `ENABLED` are
  out of the prover's reach;
* `SameStory`, which compares reports that are built by sorting and selecting from
  sequences on both sides.

## Not modelled

About 113000 of the 120000 lines under `src/` are the vendored ASIO library
(`src/dps++/asio`), which only the ASIO class of `dps++/tail.cpp` (lines 163-238, an
alternative to the loop that is modelled, chosen when the program is built) calls. Its
behaviour is third-party code and not this program's logic, so it stays out, and with
it the ASIO class, which is a wrapper of it.

Of the programs' own code these are left out: the command lines (`dps.c:123-255` and the
port's), whose options are constants of the models; the layout of reports (of the section of
deaths, `battle.c:574-594`, only that the ids it looks up are there) and debug prints;
stamps with characters that are no digits, chat lines and numbers of more than five digits
in `action.c`; `Array_new`, which only the tests use, and running out of memory; failing
system calls; a line longer than tail's buffer of 64 KiB, which would be read for ever;
`dps++/date.cpp`, which is the algorithm of `dps/date.c` again, and `dps++/array.cpp`, which
nothing uses; `dps.py`, superseded by `dps`; in the launcher the text of the configuration,
the keys that other programs grab, a `parse_config` that throws part-way through its calls
(that it throws is in `Launcher`, what it leaves of the clients is not in `Hotkeys`), and
the switching of windows other than its effect on autofire and keys; the catch block of the
autofire thread (`context.cpp:411-415`), whose calls throw only if a lock does; the tests
and the build. The scripts only run other programs.

## Plan

1. Done: `Battle`, `Dps`, `BattleLedger`; `LogFile`, `Tail`, `LoopIO`, `LineStream`;
   `Launcher`; `Words`, `Parser`, `ParserPP`, `GameLog`; then `Array`, `Storage`, `Date`,
   `DpsPP`, `DpsPair`, `Hotkeys`; the theorems above.
2. Left to model: a `parse_config` that throws in the middle, as one more outcome of
   `Hotkeys`'s `Reload`; the handing over of the clients between the keyboard thread and
   the autofire thread with `Hotkeys` and `Launcher` composed.
3. Left to prove: `SameStory`.
