----------------------------- MODULE MCSupport -----------------------------
(***************************************************************************)
(* Instance of Support for TLC: two clicks, which may overlap.             *)
(***************************************************************************)
EXTENDS Support

MCRuns == 1..2
MCFirstPublic == {0, 2}
=============================================================================
