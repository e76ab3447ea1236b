----------------------------- MODULE LineStream -----------------------------
(***************************************************************************)
(* What tailing a growing file promises: the lines that have become whole  *)
(* are handed over in order, each once, and none before it is whole.  Once *)
(* the file has shrunk nothing more is promised here.                      *)
(***************************************************************************)
EXTENDS Integers, SequencesExt

VARIABLES
  grows,    \* whether the file has only grown so far
  whole,    \* the whole lines of the file since the tail began
  handed    \* the lines handed to the callback

Init == handed = << >>

Grow == IsPrefix(whole, whole') /\ UNCHANGED handed

Hand == /\ UNCHANGED whole
        /\ IsPrefix(handed, handed')
        /\ IsPrefix(handed', whole)

Next == grows' => Grow \/ Hand
Spec == Init /\ [][Next]_<<grows, whole, handed>>
=============================================================================
