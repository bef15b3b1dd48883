--------------------------- MODULE MCProgramIndex ---------------------------
(***************************************************************************)
(* Instance of ProgramIndex for TLC: a creator with up to two supporters,  *)
(* one of them the creator.                                                *)
(***************************************************************************)
EXTENDS ProgramIndex

LOCAL INSTANCE TLC

CONSTANTS alice, bob, usd, lumen, tide, bad

MCWallets == {alice, bob}
MCMints == {usd}
MCValidHandles == {lumen, tide}
MCHandles == MCValidHandles \cup {bad}

\* The program treats valid handles alike, and no state or property orders them.
HandleSymmetry == Permutations(MCValidHandles)

MCRank == bob :> 1 @@ alice :> 2

TransferOf(from, to) ==
  [mint |-> usd, source |-> Ata(from, usd), destination |-> Ata(to, usd),
   authority |-> from, signed |-> TRUE]

MCTransferLists == {<<TransferOf(bob, alice)>>, <<TransferOf(alice, alice)>>}
=============================================================================
