----------------------------- MODULE MCDpsPair ------------------------------
(***************************************************************************)
(* A small log for dps and its port.                                       *)
(***************************************************************************)
EXTENDS DpsPair, MCDps

MCBackstabs == {backstab}
=============================================================================
