------------------------------- MODULE MCDemo -------------------------------
(***************************************************************************)
(* Instance of Demo for TLC: three supporters, the first of whom           *)
(* contributes twice, for two workers that sweep two wallets at a time.    *)
(***************************************************************************)
EXTENDS Demo

CONSTANTS w1, w2

MCWorkers == {w1, w2}
=============================================================================
