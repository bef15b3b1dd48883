----------------------------- MODULE LogReplica -----------------------------
(***************************************************************************)
(* What the index promises: a replica of the program's log.  Transactions  *)
(* land one after the other; the replica takes them in order, skips none,  *)
(* and may take again what it took before.  What taking one makes of the   *)
(* index is a parameter.                                                   *)
(***************************************************************************)
EXTENDS Naturals, Sequences

CONSTANTS History,      \* the transactions of the program, in chain order
          EmptyIndex,   \* the index that holds none of them
          Apply(_, _)   \* an index after one more transaction

VARIABLES landed,  \* how many of them have landed
          copied,  \* how many of those the replica took
          index    \* the index it shows

replicaVars == <<landed, copied, index>>

ReplicaInit ==
  /\ landed = 0
  /\ copied = 0
  /\ index = EmptyIndex

TxLands ==
  /\ landed < Len(History)
  /\ landed' = landed + 1
  /\ UNCHANGED <<copied, index>>

TxIsCopied ==
  /\ copied < landed
  /\ copied' = copied + 1
  /\ index' = Apply(index, History[copied + 1])
  /\ UNCHANGED landed

\* After a restart the replica goes over transactions it already has.
TxIsTakenAgain ==
  /\ \E n \in 1..copied : index' = Apply(index, History[n])
  /\ UNCHANGED <<landed, copied>>

ReplicaNext == TxLands \/ TxIsCopied \/ TxIsTakenAgain

\* The chain owes nobody a transaction; the replica owes the chain a copy of each.
ReplicaSpec == ReplicaInit /\ [][ReplicaNext]_replicaVars /\ WF_replicaVars(TxIsCopied)
=============================================================================
