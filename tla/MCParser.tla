------------------------------ MODULE MCParser ------------------------------
(***************************************************************************)
(* Names for GameLog: of one word and of several, with a verb in the       *)
(* middle and with " for " in the middle.  Days of four hours of three     *)
(* minutes of two seconds, until after the turn of the century.            *)
(***************************************************************************)
EXTENDS GameLog

MCRelease  == [year |-> 1999, month |-> 3, day |-> 16]
MCInstants == {0, 13, 23}
MCMe == <<"Player1">>
MCName == {<<"Player2">>, <<"a", "blizzard", "hunter">>,
           <<"a", "claw", "spider">>, <<"a", "sword", "for", "hire">>}
MCValue == [n \in {"7", "32000"} |-> IF n = "7" THEN 7 ELSE 32000]
MCThirdPerson ==
  [backstab |-> "backstabs", bash |-> "bashes", bite |-> "bites",
   claw |-> "claws", crush |-> "crushes", gore |-> "gores", hit |-> "hits",
   kick |-> "kicks", maul |-> "mauls", pierce |-> "pierces",
   punch |-> "punches", rend |-> "rends", slash |-> "slashes",
   slice |-> "slices", smash |-> "smashes"]
=============================================================================
