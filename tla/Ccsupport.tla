----------------------------- MODULE Ccsupport -----------------------------
(***************************************************************************)
(* The on-chain program: the registry of creators and their handles, and   *)
(* the pledges of supporters.  An action is one instruction that succeeds; *)
(* an instruction whose checks fail changes nothing, since the chain rolls *)
(* its transaction back.  The other instructions of a transaction matter   *)
(* to one handler only: `pledge` looks for a confidential transfer among   *)
(* them, so that action takes the transaction's transfers as a parameter.  *)
(***************************************************************************)
EXTENDS Periods, Sequences, FiniteSets

CONSTANTS Wallets,       \* keys that sign: creators and supporters
          Mints,         \* Token-2022 mints
          Handles,       \* handles an instruction may carry
          ValidHandles,  \* those that is_valid_handle accepts
          Texts,         \* name and description of a profile, as one value
          FittingTexts,  \* those within NAME_MAX_LEN and DESCRIPTION_MAX_LEN
          Amounts,       \* suggested amounts
          TransferLists, \* the confidential transfers a transaction may hold, in order
          MaxU32,        \* the largest u32: counters above it abort (overflow-checks)
          MaxU64,        \* the largest u64
          MaxTime,       \* bound on the clock's unix_timestamp
          MaxSlot,       \* bound on the clock's slot
          NoAccount      \* an address at which no account was created

VARIABLES config,        \* the Config account: [mint, authority]
          creators,      \* Creator account of each wallet
          handles,       \* Handle account of each handle: the creator it points to
          pledges,       \* Pledge account of each <<creator, supporter>>
          clock,         \* the Clock sysvar: [unix_timestamp, slot]
          event,         \* the event the last step emitted
          paid,          \* history: pairs between which a matching transfer ran
          lapsed         \* history: pairs whose term ran out at some instant

accounts == <<config, creators, handles, pledges>>
vars == <<config, creators, handles, pledges, clock, event, paid, lapsed>>

Pairs == Wallets \X Wallets

\* A token account, named by its owner and mint (get_associated_token_address).
Ata(owner, mint) == <<owner, mint>>
TokenAccounts == Wallets \X Mints

\* The accounts of a confidential Transfer that the program reads.
Transfer == [mint : Mints, source : TokenAccounts, destination : TokenAccounts,
             authority : Wallets, signed : BOOLEAN]

Config == [mint : Mints, authority : Wallets]
\* The integers of the accounts.  Times are i64 in the code and naturals here: none is
\* negative, and CcsupportProofs (TermsFit) bounds them far below the largest i64.
U32 == 0..MaxU32
U64 == 0..MaxU64

Creator == [handle : Handles, text : Texts, suggested_amount : Amounts,
            pledges_total : U64, created_at : Nat]
Pledge == [started_at : Nat, expires_at : Nat, periods_total : U32,
           contributions : U32, show_publicly : BOOLEAN, last_slot : U64]

\* A pledge account as init_if_needed creates it: zeroed.  No handler leaves
\* contributions at 0, so a zeroed account is one that does not exist.
ZeroPledge == [started_at |-> 0, expires_at |-> 0, periods_total |-> 0,
               contributions |-> 0, show_publicly |-> FALSE, last_slot |-> 0]

NoEvent == [kind |-> "none"]

ASSUME CcsupportAssumption ==
  /\ ValidHandles \subseteq Handles
  /\ FittingTexts \subseteq Texts
  /\ 0 \in Amounts
  /\ TransferLists \subseteq Seq(Transfer)
  /\ MaxU32 \in Nat /\ MaxU64 \in Nat /\ MaxTime \in Nat \ {0}
  /\ MaxSlot \in U64
  /\ NoAccount \notin Wallets \cup Config \cup Creator
  /\ IsFiniteSet(Wallets)

Registered(w) == creators[w] # NoAccount
Pledged(p) == pledges[p].contributions > 0

-----------------------------------------------------------------------------
Init ==
  /\ config = NoAccount
  /\ creators = [w \in Wallets |-> NoAccount]
  /\ handles = [h \in Handles |-> NoAccount]
  /\ pledges = [p \in Pairs |-> ZeroPledge]
  /\ clock = [unix_timestamp |-> 1, slot |-> 0]
  /\ event = NoEvent
  /\ paid = {}
  /\ lapsed = {}

\* The chain moves to its next slot; several slots share a second, and the
\* clock's timestamp never goes back.
Tick ==
  /\ clock.slot < MaxSlot
  /\ \E t \in clock.unix_timestamp..MaxTime :
        /\ clock' = [unix_timestamp |-> t, slot |-> clock.slot + 1]
        /\ lapsed' = lapsed \cup {p \in Pairs : Pledged(p) /\ pledges[p].expires_at < t}
  /\ event' = NoEvent
  /\ UNCHANGED <<accounts, paid>>

\* init_config: `init` makes the config once; whoever calls first is its authority.
InitConfig(authority, mint) ==
  /\ config = NoAccount
  /\ config' = [mint |-> mint, authority |-> authority]
  /\ event' = NoEvent
  /\ UNCHANGED <<creators, handles, pledges, clock, paid, lapsed>>

\* register_creator: both accounts are `init`, so neither may exist.
VacantWallet(w, handle) == creators[w] = NoAccount   \* mutant: the handle is not `init`
Vacant(w, handle) == creators[w] = NoAccount /\ handles[handle] = NoAccount

RegisterCreator(w, handle, text) ==
  /\ Vacant(w, handle)
  /\ handle \in ValidHandles
  /\ text \in FittingTexts
  /\ creators' = [creators EXCEPT ![w] =
        [handle |-> handle, text |-> text, suggested_amount |-> 0,
         pledges_total |-> 0, created_at |-> clock.unix_timestamp]]
  /\ handles' = [handles EXCEPT ![handle] = w]
  /\ event' = [kind |-> "creatorRegistered", wallet |-> w, handle |-> handle,
               text |-> text, suggested_amount |-> 0, slot |-> clock.slot]
  /\ UNCHANGED <<config, pledges, clock, paid, lapsed>>

\* update_creator: the profile changes, the handle does not.
UpdateCreator(w, text, amount) ==
  /\ Registered(w)
  /\ text \in FittingTexts
  /\ creators' = [creators EXCEPT ![w].text = text, ![w].suggested_amount = amount]
  /\ event' = [kind |-> "creatorUpdated", wallet |-> w, handle |-> creators[w].handle,
               text |-> text, suggested_amount |-> amount, slot |-> clock.slot]
  /\ UNCHANGED <<config, handles, pledges, clock, paid, lapsed>>

-----------------------------------------------------------------------------
\* matches_expected, for the transfer a pledge by `supporter` to `w` has to sit next to.
MatchesAccounts(t, mint, supporter, w) ==   \* mutant: the authority is not looked at
  /\ t.mint = mint
  /\ t.destination = Ata(w, mint)
  /\ t.source = Ata(supporter, mint)
MatchesExpected(t, mint, supporter, w) ==
  /\ t.mint = mint
  /\ t.destination = Ata(w, mint)
  /\ t.source = Ata(supporter, mint)
  /\ t.signed /\ t.authority = supporter

\* find_confidential_transfer succeeds: some transfer of the transaction matches in full.
FindsTransfer(transfers, mint, supporter, w) ==
  \E i \in DOMAIN transfers : MatchesExpected(transfers[i], mint, supporter, w)

\* What the token program did with the transfers of a transaction: who paid whom in
\* `mint`, by the owners of the accounts and the wallet that signed.
PaidBy(transfers, mint) ==
  {<<transfers[i].destination[1], transfers[i].authority>> : i \in
     {j \in DOMAIN transfers :
        /\ transfers[j].signed
        /\ transfers[j].source = <<transfers[j].authority, mint>>
        /\ transfers[j].destination[2] = mint
        /\ transfers[j].mint = mint}}

\* A pledge account that init_if_needed just created.
LapsedOrFresh(old) == old.expires_at < clock.unix_timestamp   \* mutant: a lapsed one counts as new
FirstContribution(old) == old.contributions = 0

\* The periods one contribution may pay for.
ValidPeriods(periods) == periods \in 1..MaxPeriods

\* The counters of a pledge after a contribution: one that left its type aborts it.
FitsInContributions(new) == new.contributions <= MaxU32   \* mutant: the sum of periods wraps
FitsCounters(new) == new.periods_total <= MaxU32 /\ new.contributions <= MaxU32

\* The account that a contribution of `periods` at the current clock leaves behind.
Contributed(old, periods, show) ==
  [started_at |-> IF FirstContribution(old) THEN clock.unix_timestamp ELSE old.started_at,
   expires_at |-> ExtendExpiry(clock.unix_timestamp, old.expires_at, periods),
   periods_total |-> old.periods_total + periods,
   contributions |-> old.contributions + 1,
   show_publicly |-> show,
   last_slot |-> clock.slot]

\* The checks of pledge_handler; an overflowing counter aborts, as any failed check does.
MayPledge(supporter, w, periods, show, transfers) ==
  LET old == pledges[<<w, supporter>>]
  IN  /\ config # NoAccount
      /\ Registered(w)
      /\ ValidPeriods(periods)
      /\ FindsTransfer(transfers, config.mint, supporter, w)
      /\ FirstContribution(old) => creators[w].pledges_total < MaxU64
      /\ MayExtend(periods)
      /\ FitsCounters(Contributed(old, periods, show))

\* The event of a contribution: a snapshot of the account it leaves behind.
PledgedEvent(supporter, w, periods, new) ==
  [kind |-> "pledged", creator |-> w, supporter |-> supporter,
   periods |-> periods, started_at |-> new.started_at,
   expires_at |-> new.expires_at, periods_total |-> new.periods_total,
   contributions |-> new.contributions, show_publicly |-> new.show_publicly,
   slot |-> clock.slot]

\* pledge_handler.
MakePledge(supporter, w, periods, show, transfers) ==
  LET p == <<w, supporter>>
      new == Contributed(pledges[p], periods, show)
  IN  /\ MayPledge(supporter, w, periods, show, transfers)
      /\ pledges' = [pledges EXCEPT ![p] = new]
      /\ creators' = IF FirstContribution(pledges[p])
                       THEN [creators EXCEPT ![w].pledges_total = @ + 1]
                       ELSE creators
      /\ paid' = paid \cup PaidBy(transfers, config.mint)
      /\ event' = PledgedEvent(supporter, w, periods, new)
      /\ UNCHANGED <<config, handles, clock, lapsed>>

\* The event of set_visibility.
VisibilityEvent(supporter, w, show) ==
  [kind |-> "visibilityChanged", creator |-> w, supporter |-> supporter,
   show_publicly |-> show, slot |-> clock.slot]

\* set_visibility: the flag of a pledge that exists; last_slot stays.
SetVisibility(supporter, w, show) ==
  /\ Pledged(<<w, supporter>>)
  /\ pledges' = [pledges EXCEPT ![<<w, supporter>>].show_publicly = show]
  /\ event' = VisibilityEvent(supporter, w, show)
  /\ UNCHANGED <<config, creators, handles, clock, paid, lapsed>>

Next ==
  \/ Tick
  \/ \E w \in Wallets :
       \/ \E mint \in Mints : InitConfig(w, mint)
       \/ \E handle \in Handles, text \in Texts : RegisterCreator(w, handle, text)
       \/ \E text \in Texts, amount \in Amounts : UpdateCreator(w, text, amount)
       \/ \E supporter \in Wallets, show \in BOOLEAN :
            \/ \E periods \in 0..MaxPeriods + 1, transfers \in TransferLists :
                 MakePledge(supporter, w, periods, show, transfers)
            \/ SetVisibility(supporter, w, show)

Spec == Init /\ [][Next]_vars

-----------------------------------------------------------------------------
Event ==
  {NoEvent}
  \cup [kind : {"creatorRegistered", "creatorUpdated"}, wallet : Wallets, handle : Handles,
        text : Texts, suggested_amount : Amounts, slot : U64]
  \cup [kind : {"pledged"}, creator : Wallets, supporter : Wallets, periods : 1..MaxPeriods,
        started_at : Nat, expires_at : Nat, periods_total : U32, contributions : U32,
        show_publicly : BOOLEAN, slot : U64]
  \cup [kind : {"visibilityChanged"}, creator : Wallets, supporter : Wallets,
        show_publicly : BOOLEAN, slot : U64]

\* Every account and event has the shape its Rust type gives it (state/*.rs, events.rs): no
\* counter of a pledge or of a creator ever leaves its u32 or u64, however often one renews.
TypeOK ==
  /\ config \in Config \cup {NoAccount}
  /\ creators \in [Wallets -> Creator \cup {NoAccount}]
  /\ handles \in [Handles -> Wallets \cup {NoAccount}]
  /\ pledges \in [Pairs -> Pledge]
  /\ clock \in [unix_timestamp : Nat, slot : U64]
  /\ event \in Event
  /\ paid \in SUBSET Pairs
  /\ lapsed \in SUBSET Pairs

\* A creator's counter of supporters, bumped by `pledge` when it opens an account, is the
\* number of pledge accounts that name the creator: no renewal counts twice, none is missed.
SupportersOf(w) == {s \in Wallets : Pledged(<<w, s>>)}

PledgesTotalCountsPledges ==
  \A w \in Wallets :
    /\ Registered(w) => creators[w].pledges_total = Cardinality(SupportersOf(w))
    /\ ~Registered(w) => SupportersOf(w) = {}

\* A handle account and the handle in its creator's account always agree, so that a handle
\* resolves to exactly one creator and every creator is found under its handle.
HandlesAndCreatorsAgree ==
  \A h \in Handles, w \in Wallets :
    handles[h] = w <=> Registered(w) /\ creators[w].handle = h

\* The time a supporter paid for is neither lost nor invented by any order of first
\* contributions, renewals, renewals in grace and renewals after a lapse: the term reaches
\* at least all the paid periods counted from the start, at most all of them from now.
PaidTimeIsKept ==
  \A p \in Pairs : Pledged(p) =>
    /\ pledges[p].started_at + pledges[p].periods_total * Period <= pledges[p].expires_at
    /\ pledges[p].expires_at <= clock.unix_timestamp + pledges[p].periods_total * Period

\* README "Renewal without a gap": as long as the term never ran out, every renewal was
\* counted from the expiry date, so the term is exactly the periods paid for.
UnbrokenTermIsExact ==
  \A p \in Pairs : Pledged(p) /\ p \notin lapsed =>
    pledges[p].expires_at = pledges[p].started_at + pledges[p].periods_total * Period

\* README "No transfer, no record": a pledge exists only between wallets of which the
\* supporter did send the creator a confidential transfer in the config's mint.
NoTransferNoRecord ==
  \A w, s \in Wallets : Pledged(<<w, s>>) => <<w, s>> \in paid

\* Each contribution pays for at least one period and at most MaxPeriods.
ContributionsWithinPeriods ==
  \A p \in Pairs :
    /\ pledges[p].contributions <= pledges[p].periods_total
    /\ pledges[p].periods_total <= MaxPeriods * pledges[p].contributions

\* The inductive invariant behind the properties of a term: also, an
\* account without contributions is the zeroed one, and a term that never ran out still runs.
FreshIsZero == \A p \in Pairs : pledges[p].contributions = 0 => pledges[p] = ZeroPledge
UnlapsedTermRuns ==
  \A p \in Pairs : Pledged(p) /\ p \notin lapsed =>
    clock.unix_timestamp <= pledges[p].expires_at

TermInv ==
  /\ FreshIsZero
  /\ ContributionsWithinPeriods
  /\ PaidTimeIsKept
  /\ UnlapsedTermRuns
  /\ UnbrokenTermIsExact

\* No instruction shortens a term, moves the start of a support or drops a contribution,
\* whatever the other instructions around it do.
NeverTakesBack ==
  [][\A p \in Pairs : Pledged(p) =>
       /\ pledges'[p].expires_at >= pledges[p].expires_at
       /\ pledges'[p].started_at = pledges[p].started_at
       /\ pledges'[p].contributions
            \in {pledges[p].contributions, pledges[p].contributions + 1}]_vars
=============================================================================
