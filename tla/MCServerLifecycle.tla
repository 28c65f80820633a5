-------------------------- MODULE MCServerLifecycle --------------------------
(***************************************************************************)
(* Instances of ServerLifecycle for TLC.                                   *)
(***************************************************************************)
EXTENDS ServerLifecycle

\* Below, at and above the bound of every default.
MCValues == {-1, 0, 1}
=============================================================================
