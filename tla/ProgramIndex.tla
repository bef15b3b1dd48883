---------------------------- MODULE ProgramIndex ----------------------------
(***************************************************************************)
(* The program, the log of its transactions, and an index filled from that *)
(* log in order: the worker at its best.  The questions here are whether   *)
(* the events carry enough to rebuild the accounts, and whether the        *)
(* readers of the index (the counters, the listed supporters and the       *)
(* monthly series of a creator's page, the pledges of a supporter) say     *)
(* what happened on chain.  Indexer asks what becomes of the order when    *)
(* sockets drop, handlers fail and workers restart.                        *)
(***************************************************************************)
EXTENDS Client, Applier, Events

CONSTANTS MaxLog,       \* bound on the number of transactions
          MaxRolledBack, \* bound on those of them that were rolled back
          MonthLength,  \* seconds in a month of the series
          SeriesMonths, \* SERIES_MONTHS: how many months the series goes back
          PageLimits,   \* page sizes that readers of a list ask for
          Rank,         \* the order of the wallets' addresses as text
          Day,          \* DAY_SECONDS
          SoonDays      \* SOON_DAYS: when a supporter's page urges to renew

ASSUME ProgramIndexAssumption ==
  /\ MaxLog \in Nat /\ MaxRolledBack \in Nat
  /\ MonthLength \in Nat \ {0} /\ SeriesMonths \in Nat \ {0}
  /\ PageLimits \subseteq Nat \ {0}
  /\ \A v, w \in Wallets : Rank[v] \in Nat /\ (v # w => Rank[v] # Rank[w])
  /\ Day \in Nat \ {0} /\ SoonDays \in Nat

VARIABLES log,          \* the program's transactions, oldest first
          applied,      \* how many of them are in the index
          index,        \* the database
          lived         \* history: <<pair, month>> with an instant of active support

allVars == <<vars, log, applied, index, lived>>

Month(t) == t \div MonthLength

\* A pledge that counts as active at some instant of month m within `from`..`to`.
ActiveInMonth(pledge, m, from, to) ==
  \E t \in from..to : Month(t) = m /\ pledge.started_at <= t /\ IsActive(t, pledge.expires_at)

\* One transaction per event: the clients put one instruction of the program in each.
Transaction(e, failed) ==
  [sig |-> Len(log) + 1, slot |-> clock.slot, failed |-> failed, events |-> <<e>>]

\* A transaction as the worker has it: its events are those that parseEvents finds.
Received(tx) == [tx EXCEPT !.events = ParseEvents(LogLines(tx.events))]

ProgramIndexInit ==
  /\ Init
  /\ log = <<>>
  /\ applied = 0
  /\ index = EmptyIndex
  /\ lived = {}

\* An instruction of the program, and the transaction its event is logged in.
Execute ==
  /\ Next
  /\ event' # NoEvent => Len(log) < MaxLog
  /\ log' = IF event' = NoEvent THEN log ELSE Append(log, Transaction(event', FALSE))
  /\ lived' = lived \cup
       {active \in Pairs \X (0..Month(MaxTime)) :
          LET pledge == pledges'[active[1]]
          IN  /\ pledge.contributions > 0
              /\ ActiveInMonth(pledge, active[2], clock.unix_timestamp, clock'.unix_timestamp)}
  /\ UNCHANGED <<applied, index>>

\* A transaction whose instruction ran and emitted e, and whose later instruction failed: the
\* chain rolls it back, its log still holds the event.
RollBack(e) ==
  /\ Len(log) < MaxLog
  /\ Cardinality({i \in DOMAIN log : log[i].failed}) < MaxRolledBack
  /\ log' = Append(log, Transaction(e, TRUE))
  /\ UNCHANGED <<vars, applied, index, lived>>

RollBackVisibility(w, supporter, show) ==
  /\ Pledged(<<w, supporter>>)
  /\ RollBack(VisibilityEvent(supporter, w, show))

RollBackPledge(w, supporter, show, periods, transfers) ==
  /\ MayPledge(supporter, w, periods, show, transfers)
  /\ RollBack(PledgedEvent(supporter, w, periods,
                           Contributed(pledges[<<w, supporter>>], periods, show)))

\* The worker applies the next transaction of the log.
ApplyNext ==
  /\ applied < Len(log)
  /\ Accepts(index, Received(log[applied + 1]))
  /\ index' = Apply(index, Received(log[applied + 1]))
  /\ applied' = applied + 1
  /\ UNCHANGED <<vars, log, lived>>

ProgramIndexNext ==
  \/ Execute
  \/ \E w, supporter \in Wallets, show \in BOOLEAN :
       \/ RollBackVisibility(w, supporter, show)
       \/ \E periods \in 0..MaxPeriods + 1, transfers \in TransferLists :
            RollBackPledge(w, supporter, show, periods, transfers)
  \/ ApplyNext

ProgramIndexSpec == ProgramIndexInit /\ [][ProgramIndexNext]_allVars

-----------------------------------------------------------------------------
(* The readers: queries of packages/db.                                    *)

\* creatorByHandle: the two counters of a creator's page.
TotalSupporters(w) == Cardinality({p \in DOMAIN index.pledges : p[1] = w})
ActiveSupporters(w, now) ==
  Cardinality({p \in DOMAIN index.pledges :
                 p[1] = w /\ IsActive(now, index.pledges[p].expires_at)})

\* ORDER BY started_at, supporter: the first of two rows of a creator.
Precedes(p, q) ==
  \/ index.pledges[p].started_at < index.pledges[q].started_at
  \/ /\ index.pledges[p].started_at = index.pledges[q].started_at
     /\ Rank[p[2]] < Rank[q[2]]
PlaceOf(p, rows) == Cardinality({q \in rows : q = p \/ Precedes(q, p)})

\* The keyset of the listed supporters: a pledge starts once, the address parts ties.
AfterByStart(p, key) == index.pledges[p].started_at > key[1]   \* mutant: ties are skipped
After(p, key) ==
  \/ index.pledges[p].started_at > key[1]
  \/ index.pledges[p].started_at = key[1] /\ Rank[p[2]] > key[2]
KeyOf(p) == <<index.pledges[p].started_at, Rank[p[2]]>>
NoCursor == <<0, 0>>   \* before every key: no pledge starts at 0

\* supportersPage: the public and active pledges of w after the key, at most n of them.
Listed(w, now, key) ==
  {p \in DOMAIN index.pledges :
     /\ p[1] = w /\ index.pledges[p].show_publicly
     /\ IsActive(now, index.pledges[p].expires_at) /\ After(p, key)}
Smaller(m, n) == IF m < n THEN m ELSE n
SupportersPage(w, now, key, n) ==
  LET listed == Listed(w, now, key)
  IN  [i \in 1..Smaller(Cardinality(listed), n) |->
         CHOOSE p \in listed : PlaceOf(p, listed) = i]

\* page, on the supporters' route: one row past the limit tells of a next page.
SupportersAnswer(w, now, key, limit) ==
  LET rows == SupportersPage(w, now, key, limit + 1)
      more == Len(rows) > limit
  IN  [items |-> IF more THEN SubSeq(rows, 1, limit) ELSE rows,
       next |-> IF more THEN KeyOf(rows[limit]) ELSE NoCursor]

\* Listed, of a creator's page: the rows of all pages that getNextPageParam leads to.
ListedSupporters(w, now, limit) ==
  LET walk[n \in 0..Cardinality(Wallets)] ==
        IF n = 0 THEN SupportersAnswer(w, now, NoCursor, limit)
        ELSE LET seen == walk[n - 1]
                 more == SupportersAnswer(w, now, seen.next, limit)
             IN  IF seen.next = NoCursor THEN seen ELSE [more EXCEPT !.items = seen.items \o @]
  IN  walk[Cardinality(Wallets)].items

\* daysLeft and standing: how a supporter's page speaks of a pledge.
DaysLeftDown(now, expiresAt) == Later(0, (expiresAt - now) \div Day)   \* mutant: whole days
DaysLeft(now, expiresAt) == Later(0, -((now - expiresAt) \div Day))
Standing(active, daysLeft) ==
  IF ~active THEN "ended"
  ELSE IF daysLeft = 0 THEN "grace"
  ELSE IF daysLeft <= SoonDays THEN "soon" ELSE "running"

\* supporterPledges: the pledges of supporter s, hidden ones too, joined with their creators.
SupporterPledges(s, now) ==
  {[creator |-> p[1], expiresAt |-> index.pledges[p].expires_at,
    active |-> IsActive(now, index.pledges[p].expires_at),
    contributions |-> index.pledges[p].contributions] :
     p \in {q \in DOMAIN index.pledges : q[2] = s /\ q[1] \in DOMAIN index.creators}}

\* The route's answer, with the standing that the page gives each row.
SupporterPage(s, now) ==
  {[creator |-> row.creator, contributions |-> row.contributions,
    standing |-> Standing(row.active, DaysLeft(now, row.expiresAt))] :
     row \in SupporterPledges(s, now)}

\* The supporters that monthlySeries counts for month m of creator w.
SeriesWholeMonth(w, m) ==   \* mutant: active for the whole month
  {p[2] : p \in {q \in DOMAIN index.pledges :
     /\ q[1] = w
     /\ index.pledges[q].started_at < (m + 1) * MonthLength
     /\ IsActive((m + 1) * MonthLength, index.pledges[q].expires_at)}}
SeriesMonth(w, m) ==
  {p[2] : p \in {q \in DOMAIN index.pledges :
     /\ q[1] = w
     /\ index.pledges[q].started_at < (m + 1) * MonthLength
     /\ IsActive(m * MonthLength, index.pledges[q].expires_at)}}

\* monthlySeries: one entry for each of the last SeriesMonths months, this one included.
MonthlySeries(w, now) ==
  [m \in (Month(now) - (SeriesMonths - 1))..Month(now) |-> SeriesMonth(w, m)]

CaughtUp == applied = Len(log)

-----------------------------------------------------------------------------
\* Tables that say what the accounts say.
CreatorsAreIn(table) ==
  /\ DOMAIN table = {w \in Wallets : Registered(w)}
  /\ \A w \in DOMAIN table :
       /\ table[w].handle = creators[w].handle
       /\ table[w].text = creators[w].text
       /\ table[w].suggested_amount = creators[w].suggested_amount
PledgesAreIn(table) ==
  /\ DOMAIN table = {p \in Pairs : Pledged(p)}
  /\ \A p \in DOMAIN table :
       /\ table[p].started_at = pledges[p].started_at
       /\ table[p].expires_at = pledges[p].expires_at
       /\ table[p].periods_total = pledges[p].periods_total
       /\ table[p].contributions = pledges[p].contributions
       /\ table[p].show_publicly = pledges[p].show_publicly
       /\ table[p].last_slot = pledges[p].last_slot

\* events.rs:3-4, 25-26: the events alone rebuild the accounts, with no account re-read.
IndexIsTheChain == CaughtUp => CreatorsAreIn(index.creators) /\ PledgesAreIn(index.pledges)

\* README "Every counter on a page can be rebuilt from chain state": a creator's page read from
\* a caught-up index counts what the accounts give, and its list, walked at any page size,
\* holds everyone whom the chain has as public and active, once and in the order they came.
CreatorPageIsTrue ==
  CaughtUp =>
    \A w \in {v \in Wallets : Registered(v)} :
      LET now == clock.unix_timestamp
          active == {s \in SupportersOf(w) : IsActive(now, pledges[<<w, s>>].expires_at)}
      IN  /\ TotalSupporters(w) = creators[w].pledges_total
          /\ ActiveSupporters(w, now) = Cardinality(active)
          /\ \A limit \in PageLimits :
               LET rows == ListedSupporters(w, now, limit)
               IN  /\ {rows[i] : i \in DOMAIN rows} =
                        {<<w, s>> : s \in {v \in active : pledges[<<w, v>>].show_publicly}}
                   /\ \A i, j \in DOMAIN rows : i < j =>
                        /\ rows[i] # rows[j]
                        /\ pledges[rows[i]].started_at <= pledges[rows[j]].started_at

\* A supporter's page tells of every pledge, hidden ones too, and says that one is in grace or
\* ended exactly when the chain has it unpaid, or no longer counts it.
SupporterPageIsTrue ==
  CaughtUp =>
    \A s \in Wallets :
      LET rows == SupporterPage(s, clock.unix_timestamp)
          now == clock.unix_timestamp
      IN  /\ {<<r.creator, r.contributions>> : r \in rows} =
               {<<p[1], pledges[p].contributions>> : p \in {q \in Pairs : Pledged(q) /\ q[2] = s}}
          /\ \A r \in rows :
               LET expires == pledges[<<r.creator, s>>].expires_at
               IN  /\ r.standing = "ended" <=> ~IsActive(now, expires)
                   /\ r.standing \in {"ended", "grace"} <=> now >= expires

\* The series counts a supporter for every month it covers with an instant of active support.
SeriesMissesNoActiveMonth ==
  CaughtUp => \A active \in lived :
    LET p == active[1]
        series == MonthlySeries(p[1], clock.unix_timestamp)
    IN  active[2] \in DOMAIN series => p[2] \in series[active[2]]

\* README "Supporters by month ... how many were active each month": a month is counted only
\* for who was active in it.  A renewal after a lapse fills the months in between.
SeriesCountsOnlyActiveMonths ==
  CaughtUp => \A w \in Wallets :
    LET series == MonthlySeries(w, clock.unix_timestamp)
    IN  \A m \in DOMAIN series : \A s \in series[m] : <<<<w, s>>, m>> \in lived
=============================================================================
