----------------------------- MODULE MCPayments -----------------------------
(* Low parts of two bits, logarithms below 16: one amount that fits into one     *)
(* logarithm, and one that does not and whose double outgrows the search.        *)
EXTENDS Payments

MCAmounts == {7, 40}
=============================================================================
