----------------------------- MODULE MCLauncher -----------------------------
(***************************************************************************)
(* A short session with the launcher: two keys or edits of the config, one *)
(* signal, one game window, and the focus coming and going.                *)
(***************************************************************************)
EXTENDS Launcher
=============================================================================
