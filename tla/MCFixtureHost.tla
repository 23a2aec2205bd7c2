--------------------------- MODULE MCFixtureHost ----------------------------
(***************************************************************************)
(* Scenarios and fixtures of runs in the small domain of MCDomain.         *)
(***************************************************************************)
EXTENDS FixtureHost, MCDomain
=============================================================================
