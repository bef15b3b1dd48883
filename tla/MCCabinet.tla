----------------------------- MODULE MCCabinet -----------------------------
(***************************************************************************)
(* Instance of Cabinet for TLC: two workers and three contributions, so    *)
(* that a job waits in the queue; pages of one row, so that a walk takes   *)
(* several requests.                                                       *)
(***************************************************************************)
EXTENDS Cabinet

MCKey == [g \in Sigs |-> CASE g = "a" -> 1 [] g = "b" -> 2 [] g = "c" -> 3]
=============================================================================
