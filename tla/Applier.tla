------------------------------ MODULE Applier ------------------------------
(***************************************************************************)
(* What the worker writes to the index for one chain transaction, and what *)
(* the database makes of it.  The index is a record of three tables, each  *)
(* a function from its primary key to a row.  The ciphertext and times     *)
(* that a row only carries along are left out.                             *)
(***************************************************************************)
EXTENDS SequencesExt

EmptyIndex == [creators |-> <<>>, pledges |-> <<>>, contributions |-> <<>>]

\* A table with the row at `key` put in or replaced.
Put(table, key, row) ==
  [k \in DOMAIN table \cup {key} |-> IF k = key THEN row ELSE table[k]]

\* creatorUpsert: on conflict the handle and the registration slot stay.
CreatorUpsert(index, e) ==
  [index EXCEPT !.creators =
     IF e.wallet \in DOMAIN index.creators
       THEN [@ EXCEPT ![e.wallet].text = e.text,
                      ![e.wallet].suggested_amount = e.suggested_amount]
       ELSE Put(@, e.wallet, [handle |-> e.handle, text |-> e.text,
                              suggested_amount |-> e.suggested_amount,
                              created_slot |-> e.slot])]

\* The snapshot that a Pledged event carries, as a row.
PledgeRow(tx, e) ==
  [started_at |-> e.started_at, expires_at |-> e.expires_at, periods_total |-> e.periods_total,
   contributions |-> e.contributions, show_publicly |-> e.show_publicly,
   last_sig |-> tx.sig, last_slot |-> tx.slot]

\* pledgeUpsert: the snapshot replaces the row, whatever the row held.
PledgeUpsert(index, tx, e) ==
  [index EXCEPT !.pledges = Put(@, <<e.creator, e.supporter>>, PledgeRow(tx, e))]

\* A row of contributions: the first one of a pledge, or a renewal.
ContributionRow(tx, e) ==
  [creator |-> e.creator, supporter |-> e.supporter, slot |-> tx.slot, periods |-> e.periods,
   kind |-> IF e.contributions = 1 THEN "first" ELSE "renewal"]

\* contributionInsert: one row per transaction signature, a second one does nothing.
ContributionInsert(index, tx, e) ==
  [index EXCEPT !.contributions =
     IF tx.sig \in DOMAIN @ THEN @
     ELSE Put(@, tx.sig, ContributionRow(tx, e))]

\* visibilityUpdate: an update, so without a row nothing happens.
VisibilityUpdate(index, e) ==
  IF <<e.creator, e.supporter>> \in DOMAIN index.pledges
    THEN [index EXCEPT !.pledges[<<e.creator, e.supporter>>].show_publicly = e.show_publicly]
    ELSE index

\* The keys of the schema: a new creator's handle is unique, a pledge's creator and a
\* contribution's pledge exist.  (The pledge upsert next to it provides the latter.)  Left out
\* are what depends on values that a row only carries along: the integer columns, half as wide
\* as the program's u32 counters, the length check on the ciphertext, and planWrites' errors
\* when a pledge comes without ciphertext or block time; the latter are the failing handler of
\* Indexer.
Admits(index, e) ==
  CASE e.kind \in {"creatorRegistered", "creatorUpdated"} ->
         \A w \in DOMAIN index.creators : index.creators[w].handle = e.handle => w = e.wallet
    [] e.kind = "pledged" -> e.creator \in DOMAIN index.creators
    [] OTHER -> TRUE

\* planWrites and the switch of createApplier, for one event.
WriteEvent(index, tx, e) ==
  CASE e.kind = "pledged" -> ContributionInsert(PledgeUpsert(index, tx, e), tx, e)
    [] e.kind = "visibilityChanged" -> VisibilityUpdate(index, e)
    [] OTHER -> CreatorUpsert(index, e)

\* createApplier: a failed transaction writes nothing; the events of the others are written
\* in one database transaction, which fails as a whole when one write does.
EventsOf(tx) == IF tx.failed THEN <<>> ELSE tx.events

Outcome(index, tx) ==
  FoldLeft(LAMBDA done, e : [ok |-> done.ok /\ Admits(done.index, e),
                             index |-> IF done.ok /\ Admits(done.index, e)
                                         THEN WriteEvent(done.index, tx, e)
                                         ELSE done.index],
           [ok |-> TRUE, index |-> index], EventsOf(tx))

Accepts(index, tx) == Outcome(index, tx).ok
Apply(index, tx) == Outcome(index, tx).index

\* The index that a history of transactions, applied once each in order, leaves behind.
Replay(history) == FoldLeft(Apply, EmptyIndex, history)
=============================================================================
