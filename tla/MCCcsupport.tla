---------------------------- MODULE MCCcsupport ----------------------------
(***************************************************************************)
(* Instance of Ccsupport for TLC: two wallets, either of which registers;  *)
(* both may support alice (a creator may pledge to herself).               *)
(* The transfers a transaction may hold are every way to be right or to    *)
(* be wrong in one account, and a list whose second transfer is the right  *)
(* one.                                                                    *)
(***************************************************************************)
EXTENDS Ccsupport

CONSTANTS alice, bob, usd

MCWallets == {alice, bob}
MCMints == {usd}

TransferOf(mint, from, to, authority) ==
  [mint |-> mint, source |-> Ata(from, mint), destination |-> Ata(to, mint),
   authority |-> authority, signed |-> TRUE]

Proper == {TransferOf(mint, bob, to, bob) : mint \in MCMints, to \in {alice}}
Own == {TransferOf(mint, alice, alice, alice) : mint \in MCMints}
Wrong == {TransferOf(usd, alice, alice, bob),
          [TransferOf(usd, bob, alice, bob) EXCEPT !.signed = FALSE]}

MCTransferLists ==
  {<<>>} \cup {<<t>> : t \in Proper \cup Own \cup Wrong}
  \cup {<<TransferOf(usd, bob, bob, bob), TransferOf(usd, bob, alice, bob)>>}
=============================================================================
