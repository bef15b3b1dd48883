----------------------------- MODULE MCIndexer -----------------------------
(***************************************************************************)
(* Instance of Indexer for TLC: a history of four transactions.  The       *)
(* second and the third share a slot and change the same pledge, so that   *)
(* their order shows in the index; the last one failed on chain.  The run  *)
(* with every fault has three, of which the first two share a slot, and    *)
(* two stops.                                                              *)
(***************************************************************************)
EXTENDS Indexer

Pledging(n, expires, count) ==
  [kind |-> "pledged", creator |-> "alice", supporter |-> "bob", periods |-> 1,
   started_at |-> 1, expires_at |-> expires, periods_total |-> count,
   contributions |-> count, show_publicly |-> FALSE, slot |-> n]

MCTransaction(n, slot, failedOnChain, e) ==
  [sig |-> n, slot |-> slot, failed |-> failedOnChain, events |-> <<e>>]

MCHistory ==
  <<MCTransaction(1, 1, FALSE, [kind |-> "creatorRegistered", wallet |-> "alice",
                                handle |-> "lumen", text |-> "old",
                                suggested_amount |-> 0, slot |-> 1]),
    MCTransaction(2, 2, FALSE, Pledging(2, 2, 1)),
    MCTransaction(3, 2, FALSE, Pledging(2, 3, 2)),
    MCTransaction(4, 3, TRUE, [kind |-> "visibilityChanged", creator |-> "alice",
                               supporter |-> "bob", show_publicly |-> TRUE, slot |-> 3])>>
MCStorm ==
  <<[MCHistory[1] EXCEPT !.slot = 1],
    [MCHistory[2] EXCEPT !.slot = 1],
    [MCHistory[3] EXCEPT !.slot = 2]>>
=============================================================================
