----------------------------- MODULE MCStorage ------------------------------
(***************************************************************************)
(* Three names that are alike, and arrays that start with one element, so  *)
(* that every array moves.                                                 *)
(***************************************************************************)
EXTENDS Storage

CONSTANTS Kai, Orc, Elf, slash, kick
MCName == {Kai, Orc, Elf}
MCVerb == {slash, kick}
Alike  == Permutations(MCName) \union Permutations(MCVerb)
=============================================================================
