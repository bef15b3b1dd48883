------------------------------ MODULE MCRelay ------------------------------
(***************************************************************************)
(* Instance of Relay for TLC: from one address a batch of two that is fine *)
(* and one whose second member is neither permitted nor signed, so that    *)
(* one of them may be refused, with a sweep in between; and a wallet that  *)
(* asks the faucet.                                                        *)
(***************************************************************************)
EXTENDS Relay

Tx(kind) == [kind |-> kind, complete |-> TRUE]
MCRequests == {"prove", "mixed", "drip"}
MCClient == [r \in MCRequests |-> IF r \in {"prove", "mixed"} THEN "a" ELSE "b"]
MCMode == [prove |-> "proofs", mixed |-> "close", drip |-> "faucet"]
MCBatch ==
  [prove |-> <<Tx("record"), Tx("write")>>,
   mixed |-> <<Tx("closeRecord"), [kind |-> "record", complete |-> FALSE]>>,
   drip |-> <<Tx("topUp")>>]
=============================================================================
