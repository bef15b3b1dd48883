-------------------------- MODULE CcsupportProofs --------------------------
(***************************************************************************)
(* Theorems of the on-chain program and of its generated client, for every *)
(* set of wallets, handles, mints and transfers, every Period, Grace and   *)
(* MaxPeriods, and every bound on the clock and the counters.              *)
(***************************************************************************)
EXTENDS Client, FiniteSetTheorems, TLAPS

\* The time a number of periods pays for is a natural and adds up.
LEMMA PaidTimeAddsUp ==
  ASSUME NEW a \in Nat, NEW b \in Nat
  PROVE  /\ a * Period \in Nat
         /\ (a + b) * Period = a * Period + b * Period
BY PeriodsAssumption, SMT

\* extend_expiry returns a time no earlier than either argument, beyond the later of the
\* two by exactly the periods paid for.
LEMMA ExtendExpiryBounds ==
  ASSUME NEW now \in Nat, NEW expiresAt \in Nat, NEW periods \in Nat
  PROVE  /\ ExtendExpiry(now, expiresAt, periods) \in Nat
         /\ ExtendExpiry(now, expiresAt, periods) >= now + periods * Period
         /\ ExtendExpiry(now, expiresAt, periods) >= expiresAt + periods * Period
         /\ expiresAt >= now =>
              ExtendExpiry(now, expiresAt, periods) = expiresAt + periods * Period
         /\ now >= expiresAt =>
              ExtendExpiry(now, expiresAt, periods) = now + periods * Period
<1>1. periods * Period \in Nat
  BY PaidTimeAddsUp
<1> QED
  BY <1>1 DEF ExtendExpiry, Later

-----------------------------------------------------------------------------
(* Type correctness.                                                       *)

\* A contribution leaves a well-formed account with one contribution more.
LEMMA ContributedType ==
  ASSUME TypeOK, NEW p \in Pairs, NEW periods \in 1..MaxPeriods, NEW show \in BOOLEAN,
         FitsCounters(Contributed(pledges[p], periods, show))
  PROVE  /\ Contributed(pledges[p], periods, show) \in Pledge
         /\ Contributed(pledges[p], periods, show).contributions = pledges[p].contributions + 1
<1>1. /\ pledges[p] \in Pledge
      /\ clock.unix_timestamp \in Nat /\ clock.slot \in U64
  BY DEF TypeOK
<1>2. periods \in Nat
  BY PeriodsAssumption
<1>3. ExtendExpiry(clock.unix_timestamp, pledges[p].expires_at, periods) \in Nat
  BY <1>1, <1>2, ExtendExpiryBounds DEF Pledge
<1>4. /\ pledges[p].periods_total + periods \in U32
      /\ pledges[p].contributions + 1 \in U32
  BY <1>1, <1>2, CcsupportAssumption DEF FitsCounters, Contributed, Pledge, U32
<1> QED
  BY <1>1, <1>3, <1>4 DEF Contributed, FirstContribution, Pledge

\* The initial accounts have their types.
LEMMA InitTypeOK == Init => TypeOK
BY CcsupportAssumption DEF Init, TypeOK, Event, ZeroPledge, Pledge, Pairs, U32, U64

\* Every instruction and every slot keeps the types.
LEMMA StepTypeOK == TypeOK /\ [Next]_vars => TypeOK'
<1> SUFFICES ASSUME TypeOK, [Next]_vars PROVE TypeOK'
  OBVIOUS
<1> USE CcsupportAssumption
<1>1. CASE Tick
  <2>1. PICK t \in clock.unix_timestamp..MaxTime :
          /\ clock' = [unix_timestamp |-> t, slot |-> clock.slot + 1]
          /\ lapsed' = lapsed \cup {p \in Pairs : Pledged(p) /\ pledges[p].expires_at < t}
    BY <1>1 DEF Tick
  <2>2. t \in Nat /\ clock.slot + 1 \in U64
    BY <1>1, <2>1 DEF Tick, TypeOK, U64
  <2> QED
    BY <1>1, <2>1, <2>2 DEF Tick, TypeOK, accounts, Event
<1>2. ASSUME NEW w \in Wallets, NEW mint \in Mints, InitConfig(w, mint)
      PROVE  TypeOK'
  BY <1>2 DEF InitConfig, TypeOK, Config, Event
<1>3. ASSUME NEW w \in Wallets, NEW handle \in Handles, NEW text \in Texts,
             RegisterCreator(w, handle, text)
      PROVE  TypeOK'
  <2>1. creators' \in [Wallets -> Creator \cup {NoAccount}]
    BY <1>3 DEF RegisterCreator, Vacant, TypeOK, Creator, U64
  <2>2. handles' \in [Handles -> Wallets \cup {NoAccount}]
    BY <1>3 DEF RegisterCreator, Vacant, TypeOK
  <2>3. event' \in Event
    BY <1>3 DEF RegisterCreator, Vacant, TypeOK, Event
  <2> QED
    BY <1>3, <2>1, <2>2, <2>3 DEF RegisterCreator, Vacant, TypeOK
<1>4. ASSUME NEW w \in Wallets, NEW text \in Texts, NEW amount \in Amounts,
             UpdateCreator(w, text, amount)
      PROVE  TypeOK'
  <2>1. creators[w] \in Creator
    BY <1>4 DEF UpdateCreator, TypeOK, Registered
  <2>2. creators' \in [Wallets -> Creator \cup {NoAccount}]
    BY <1>4, <2>1 DEF UpdateCreator, TypeOK, Creator
  <2>3. event' \in Event
    BY <1>4, <2>1 DEF UpdateCreator, TypeOK, Event, Creator
  <2> QED
    BY <1>4, <2>2, <2>3 DEF UpdateCreator, TypeOK
<1>5. ASSUME NEW w \in Wallets, NEW supporter \in Wallets, NEW show \in BOOLEAN,
             NEW periods \in 0..MaxPeriods + 1, NEW transfers \in TransferLists,
             MakePledge(supporter, w, periods, show, transfers)
      PROVE  TypeOK'
  <2> DEFINE p == <<w, supporter>>
             new == Contributed(pledges[p], periods, show)
  <2>1. p \in Pairs /\ periods \in 1..MaxPeriods /\ FitsCounters(new)
    BY <1>5 DEF MakePledge, MayPledge, PledgedEvent, ValidPeriods, FirstContribution, Pairs
  <2>2. new \in Pledge
    BY <2>1, ContributedType
  <2>3. pledges' \in [Pairs -> Pledge]
    BY <1>5, <2>1, <2>2 DEF MakePledge, MayPledge, PledgedEvent, ValidPeriods,
         FirstContribution, TypeOK
  <2>4. creators' \in [Wallets -> Creator \cup {NoAccount}]
    <3> DEFINE counted == [creators[w] EXCEPT !.pledges_total = @ + 1]
    <3>1. creators \in [Wallets -> Creator \cup {NoAccount}] /\ creators[w] \in Creator
      BY <1>5 DEF MakePledge, MayPledge, PledgedEvent, TypeOK, Registered
    <3>2. CASE FirstContribution(pledges[p])
      <4>1. creators[w].pledges_total + 1 \in U64
        BY <1>5, <3>1, <3>2 DEF MakePledge, MayPledge, PledgedEvent, Creator, U64
      <4>2. counted \in Creator
        BY <3>1, <4>1 DEF Creator
      <4>3. creators' = [creators EXCEPT ![w] = counted]
        BY <1>5, <3>1, <3>2 DEF MakePledge, MayPledge, PledgedEvent
      <4> HIDE DEF counted
      <4> QED
        BY <3>1, <4>2, <4>3
    <3>3. CASE ~FirstContribution(pledges[p])
      BY <1>5, <3>1, <3>3 DEF MakePledge, MayPledge, PledgedEvent
    <3> QED
      BY <3>2, <3>3
  <2>5. PaidBy(transfers, config.mint) \subseteq Pairs
    <3>1. transfers \in Seq(Transfer)
      OBVIOUS
    <3>2. \A i \in DOMAIN transfers : transfers[i] \in Transfer
      BY <3>1
    <3> QED
      BY <3>2 DEF PaidBy, Transfer, Pairs, TokenAccounts
  <2>6. event' \in Event
    BY <1>5, <2>1, <2>2 DEF MakePledge, MayPledge, PledgedEvent, ValidPeriods,
         FirstContribution, TypeOK, Event, Pledge
  <2> QED
    BY <1>5, <2>3, <2>4, <2>5, <2>6 DEF MakePledge, MayPledge, PledgedEvent, ValidPeriods,
         FirstContribution, TypeOK
<1>6. ASSUME NEW w \in Wallets, NEW supporter \in Wallets, NEW show \in BOOLEAN,
             SetVisibility(supporter, w, show)
      PROVE  TypeOK'
  <2> DEFINE p == <<w, supporter>>
  <2>0. p \in Pairs
    BY DEF Pairs
  <2>a. [pledges[p] EXCEPT !.show_publicly = show] \in Pledge
    <3>1. pledges[p] \in Pledge
      BY <2>0 DEF TypeOK
    <3> HIDE DEF p
    <3> QED
      BY <3>1 DEF Pledge
  <2>1. pledges' \in [Pairs -> Pledge]
    BY <1>6, <2>0, <2>a DEF SetVisibility, VisibilityEvent, TypeOK
  <2>2. event' \in Event
    BY <1>6 DEF SetVisibility, VisibilityEvent, TypeOK, Event
  <2> QED
    BY <1>6, <2>1, <2>2 DEF SetVisibility, VisibilityEvent, TypeOK
<1>7. CASE UNCHANGED vars
  BY <1>7 DEF vars, TypeOK
<1> QED
  BY <1>1, <1>2, <1>3, <1>4, <1>5, <1>6, <1>7 DEF Next

\* Every reachable account, event and clock has its type.
THEOREM TypeCorrect == Spec => []TypeOK
BY InitTypeOK, StepTypeOK, PTL DEF Spec
-----------------------------------------------------------------------------
(* The term of a pledge.                                                   *)

SameTerm(p) ==
  /\ pledges'[p].started_at = pledges[p].started_at
  /\ pledges'[p].expires_at = pledges[p].expires_at
  /\ pledges'[p].periods_total = pledges[p].periods_total
  /\ pledges'[p].contributions = pledges[p].contributions

\* What any step does to one pledge and to the clock: the step is a contribution to this
\* pledge, or it leaves the pledge's term alone and may move time on.
LEMMA PledgeStep ==
  ASSUME TypeOK, [Next]_vars, NEW p \in Pairs
  PROVE  \/ /\ \E periods \in 1..MaxPeriods, show \in BOOLEAN :
                 pledges'[p] = Contributed(pledges[p], periods, show)
            /\ clock' = clock /\ lapsed' = lapsed
         \/ /\ SameTerm(p)
            /\ ~Pledged(p) => pledges'[p] = pledges[p]
            /\ clock'.unix_timestamp >= clock.unix_timestamp
            /\ lapsed \subseteq lapsed'
            /\ Pledged(p) /\ p \notin lapsed' =>
                 \/ clock'.unix_timestamp = clock.unix_timestamp
                 \/ clock'.unix_timestamp <= pledges[p].expires_at
<1>0. /\ pledges \in [Pairs -> Pledge]
      /\ clock.unix_timestamp \in Nat
      /\ pledges[p].expires_at \in Nat
      /\ pledges[p].contributions \in Nat
  BY DEF TypeOK, Pledge, U32
<1>a. ASSUME UNCHANGED <<pledges, clock, lapsed>>
      PROVE  /\ SameTerm(p) /\ pledges'[p] = pledges[p]
             /\ clock'.unix_timestamp = clock.unix_timestamp
             /\ lapsed \subseteq lapsed'
  BY <1>a DEF SameTerm
<1>1. CASE Tick
  <2>1. PICK t \in clock.unix_timestamp..MaxTime :
          /\ clock' = [unix_timestamp |-> t, slot |-> clock.slot + 1]
          /\ lapsed' = lapsed \cup {q \in Pairs : Pledged(q) /\ pledges[q].expires_at < t}
    BY <1>1 DEF Tick
  <2>2. SameTerm(p) /\ pledges'[p] = pledges[p]
    BY <1>1 DEF Tick, accounts, SameTerm
  <2>3. t \in Int /\ t >= clock.unix_timestamp /\ clock'.unix_timestamp = t
    BY <2>1, <1>0, CcsupportAssumption
  <2>4. Pledged(p) /\ p \notin lapsed' => t <= pledges[p].expires_at
    BY <2>1, <2>3, <1>0
  <2> QED
    BY <2>1, <2>2, <2>3, <2>4
<1>2. ASSUME NEW w \in Wallets, NEW mint \in Mints, InitConfig(w, mint)
      PROVE  UNCHANGED <<pledges, clock, lapsed>>
  BY <1>2 DEF InitConfig
<1>3. ASSUME NEW w \in Wallets, NEW handle \in Handles, NEW text \in Texts,
             RegisterCreator(w, handle, text)
      PROVE  UNCHANGED <<pledges, clock, lapsed>>
  BY <1>3 DEF RegisterCreator, Vacant
<1>4. ASSUME NEW w \in Wallets, NEW text \in Texts, NEW amount \in Amounts,
             UpdateCreator(w, text, amount)
      PROVE  UNCHANGED <<pledges, clock, lapsed>>
  BY <1>4 DEF UpdateCreator
<1>5. ASSUME NEW w \in Wallets, NEW supporter \in Wallets, NEW show \in BOOLEAN,
             NEW periods \in 0..MaxPeriods + 1, NEW transfers \in TransferLists,
             MakePledge(supporter, w, periods, show, transfers)
      PROVE  /\ clock' = clock /\ lapsed' = lapsed
             /\ \/ /\ periods \in 1..MaxPeriods
                   /\ pledges'[p] = Contributed(pledges[p], periods, show)
                \/ SameTerm(p) /\ pledges'[p] = pledges[p]
  BY <1>5, <1>0 DEF MakePledge, MayPledge, PledgedEvent, ValidPeriods, FirstContribution, SameTerm
<1>6. ASSUME NEW w \in Wallets, NEW supporter \in Wallets, NEW show \in BOOLEAN,
             SetVisibility(supporter, w, show)
      PROVE  /\ clock' = clock /\ lapsed' = lapsed
             /\ SameTerm(p)
             /\ ~Pledged(p) => pledges'[p] = pledges[p]
  <2> DEFINE q == <<w, supporter>>
  <2>1. pledges' = [pledges EXCEPT ![q] = [pledges[q] EXCEPT !.show_publicly = show]]
    BY <1>6 DEF SetVisibility, VisibilityEvent
  <2>2. CASE p = q
    BY <2>1, <2>2, <1>0, <1>6 DEF SetVisibility, VisibilityEvent, SameTerm, Pledge
  <2>3. CASE p # q
    BY <2>1, <2>3, <1>0, <1>6 DEF SetVisibility, VisibilityEvent, SameTerm
  <2> QED
    BY <2>2, <2>3, <1>6 DEF SetVisibility, VisibilityEvent
<1>7. CASE UNCHANGED vars
  BY <1>7, <1>a, <1>0 DEF vars
<1> QED
  BY <1>0, <1>a, <1>1, <1>2, <1>3, <1>4, <1>5, <1>6, <1>7 DEF Next

\* The term invariant holds of the zeroed accounts.
LEMMA InitTermInv == Init => TermInv
<1> SUFFICES ASSUME Init PROVE TermInv
  OBVIOUS
<1>1. \A p \in Pairs : pledges[p] = ZeroPledge /\ ~Pledged(p)
  BY DEF Init, Pledged, ZeroPledge
<1>2. MaxPeriods * 0 = 0
  BY PeriodsAssumption
<1>3. ContributionsWithinPeriods
  BY <1>1, <1>2 DEF ContributionsWithinPeriods, ZeroPledge
<1> QED
  BY <1>1, <1>3 DEF TermInv, FreshIsZero, PaidTimeIsKept, UnlapsedTermRuns, UnbrokenTermIsExact

\* What the term invariant says of one pledge account `a`, at time `now`, when `broken`
\* tells whether its term ever ran out.
TermOK(a, now, broken) ==
  /\ a.contributions = 0 => a = ZeroPledge
  /\ a.contributions <= a.periods_total /\ a.periods_total <= MaxPeriods * a.contributions
  /\ a.contributions > 0 =>
       /\ a.started_at + a.periods_total * Period <= a.expires_at
       /\ a.expires_at <= now + a.periods_total * Period
       /\ ~broken => /\ now <= a.expires_at
                     /\ a.expires_at = a.started_at + a.periods_total * Period

\* The term invariant holds when the term of each account is right.
LEMMA TermInvByAccount ==
  TermInv <=> \A p \in Pairs : TermOK(pledges[p], clock.unix_timestamp, p \in lapsed)
BY DEF TermInv, FreshIsZero, ContributionsWithinPeriods, PaidTimeIsKept, UnlapsedTermRuns,
       UnbrokenTermIsExact, TermOK, Pledged

\* A contribution keeps an account's term right: paid time is added, not lost.
LEMMA ContributionKeepsTerm ==
  ASSUME TypeOK, NEW p \in Pairs, NEW k \in 1..MaxPeriods, NEW show \in BOOLEAN,
         TermOK(pledges[p], clock.unix_timestamp, p \in lapsed)
  PROVE  TermOK(Contributed(pledges[p], k, show), clock.unix_timestamp, p \in lapsed)
<1> DEFINE new == Contributed(pledges[p], k, show)
           now == clock.unix_timestamp
           s == pledges[p].started_at
           e == pledges[p].expires_at
           t == pledges[p].periods_total
           c == pledges[p].contributions
           K == k * Period
           T == t * Period
           C == MaxPeriods * c
<1>1. /\ now \in Nat /\ s \in Nat /\ e \in Nat /\ t \in Nat /\ c \in Nat
      /\ k \in Nat /\ k >= 1 /\ k <= MaxPeriods /\ MaxPeriods \in Nat
  BY PeriodsAssumption DEF TypeOK, Pledge, U32
<1>2. /\ new.contributions = c + 1
      /\ new.periods_total = t + k
      /\ new.expires_at = Later(now, e) + K
      /\ new.started_at = IF c = 0 THEN now ELSE s
  BY DEF Contributed, FirstContribution, ExtendExpiry
<1>3. /\ K \in Nat /\ T \in Nat
      /\ (t + k) * Period = T + K
  BY <1>1, PaidTimeAddsUp
<1>4. C \in Nat /\ MaxPeriods * (c + 1) = C + MaxPeriods
  BY <1>1, SMT
<1>5. c = 0 => e = 0 /\ t = 0 /\ T = 0
  <2>1. 0 * Period = 0
    BY PeriodsAssumption
  <2> QED
    BY <2>1 DEF TermOK, ZeroPledge
<1>6. /\ c <= t /\ t <= C
      /\ c > 0 => /\ s + T <= e /\ e <= now + T
                  /\ p \notin lapsed => now <= e /\ e = s + T
  BY DEF TermOK
<1> HIDE DEF new, now, s, e, t, c, K, T, C
<1>7. /\ new.contributions # 0 /\ new.contributions > 0
      /\ new.contributions <= new.periods_total
      /\ new.periods_total <= MaxPeriods * new.contributions
  BY <1>1, <1>2, <1>4, <1>6
<1>8. /\ new.started_at + (T + K) <= new.expires_at
      /\ new.expires_at <= now + (T + K)
      /\ p \notin lapsed => /\ now <= new.expires_at
                            /\ new.expires_at = new.started_at + (T + K)
  <2>1. CASE c = 0
    <3>1. Later(now, e) = now
      BY <1>1, <1>5, <2>1 DEF Later
    <3> QED
      BY <1>1, <1>2, <1>3, <1>5, <2>1, <3>1
  <2>2. CASE c > 0
    <3>1. /\ Later(now, e) \in Nat /\ Later(now, e) >= now /\ Later(now, e) >= e
          /\ e >= now => Later(now, e) = e
          /\ Later(now, e) = now \/ Later(now, e) = e
      BY <1>1 DEF Later
    <3>2. c # 0
      BY <2>2
    <3>3. new.started_at = s
      BY <1>2, <3>2
    <3> DEFINE L == Later(now, e)
    <3>4. new.expires_at = L + K
      BY <1>2
    <3>5. /\ s + T <= e /\ e <= now + T
          /\ p \notin lapsed => now <= e /\ e = s + T
      BY <1>6, <2>2
    <3> HIDE DEF L
    <3>6. s + (T + K) <= L + K /\ L + K <= now + (T + K)
      BY <1>1, <1>3, <3>1, <3>5 DEF L
    <3>7. p \notin lapsed => now <= L + K /\ L + K = s + (T + K)
      BY <1>1, <1>3, <3>1, <3>5 DEF L
    <3> QED
      BY <3>3, <3>4, <3>6, <3>7
  <2> QED
    BY <1>1, <2>1, <2>2
<1>9. TermOK(new, now, p \in lapsed)
  BY <1>2, <1>3, <1>7, <1>8 DEF TermOK
<1> QED
  BY <1>9 DEF new, now

\* Every step keeps the term invariant.
LEMMA StepTermInv == TypeOK /\ TermInv /\ [Next]_vars => TermInv'
<1> SUFFICES ASSUME TypeOK, TermInv, [Next]_vars, NEW p \in Pairs
             PROVE  TermOK(pledges'[p], clock'.unix_timestamp, p \in lapsed')
  BY TermInvByAccount DEF TermInv, FreshIsZero, ContributionsWithinPeriods, PaidTimeIsKept,
     UnlapsedTermRuns, UnbrokenTermIsExact, TermOK, Pledged
<1>1. TermOK(pledges[p], clock.unix_timestamp, p \in lapsed)
  BY TermInvByAccount
<1>2. CASE /\ \E periods \in 1..MaxPeriods, show \in BOOLEAN :
                pledges'[p] = Contributed(pledges[p], periods, show)
           /\ clock' = clock /\ lapsed' = lapsed
  BY <1>1, <1>2, ContributionKeepsTerm
<1>3. CASE /\ SameTerm(p)
           /\ ~Pledged(p) => pledges'[p] = pledges[p]
           /\ clock'.unix_timestamp >= clock.unix_timestamp
           /\ lapsed \subseteq lapsed'
           /\ Pledged(p) /\ p \notin lapsed' =>
                \/ clock'.unix_timestamp = clock.unix_timestamp
                \/ clock'.unix_timestamp <= pledges[p].expires_at
  <2>1. /\ pledges[p] \in Pledge
        /\ clock.unix_timestamp \in Nat /\ clock'.unix_timestamp \in Nat
    BY StepTypeOK DEF TypeOK
  <2>2. /\ pledges[p].contributions \in Nat /\ pledges[p].periods_total \in Nat
        /\ pledges[p].expires_at \in Nat /\ pledges[p].started_at \in Nat
        /\ pledges[p].periods_total * Period \in Nat
    <3>1. /\ pledges[p].contributions \in Nat /\ pledges[p].periods_total \in Nat
          /\ pledges[p].expires_at \in Nat /\ pledges[p].started_at \in Nat
      BY <2>1 DEF Pledge, U32
    <3> QED
      BY <3>1, PaidTimeAddsUp
  <2>3. CASE ~Pledged(p)
    BY <1>1, <1>3, <2>2, <2>3 DEF TermOK, Pledged
  <2>4. CASE Pledged(p)
    BY <1>1, <1>3, <2>1, <2>2, <2>4 DEF TermOK, Pledged, SameTerm
  <2> QED
    BY <2>3, <2>4
<1> QED
  BY <1>2, <1>3, PledgeStep

\* The term invariant, and the three properties of the term that follow from it.
LEMMA TermInvCorrect == Spec => [](TypeOK /\ TermInv)
BY InitTypeOK, StepTypeOK, InitTermInv, StepTermInv, PTL DEF Spec

\* The clock stays within the time of the model.
LEMMA ClockStaysInTime == Spec => [](clock.unix_timestamp <= MaxTime)
<1>1. Init => clock.unix_timestamp <= MaxTime
  BY CcsupportAssumption DEF Init
<1>2. TypeOK /\ clock.unix_timestamp <= MaxTime /\ [Next]_vars
        => (clock.unix_timestamp <= MaxTime)'
  <2> SUFFICES ASSUME TypeOK, clock.unix_timestamp <= MaxTime, [Next]_vars,
                      clock' # clock
               PROVE  clock'.unix_timestamp <= MaxTime
    OBVIOUS
  <2>1. Tick
    <3>1. ~UNCHANGED vars
      BY DEF vars
    <3>2. ASSUME NEW w \in Wallets,
                 \/ \E mint \in Mints : InitConfig(w, mint)
                 \/ \E handle \in Handles, text \in Texts : RegisterCreator(w, handle, text)
                 \/ \E text \in Texts, amount \in Amounts : UpdateCreator(w, text, amount)
          PROVE  FALSE
      BY <3>2 DEF InitConfig, RegisterCreator, UpdateCreator
    <3>3. ASSUME NEW w \in Wallets, NEW supporter \in Wallets, NEW show \in BOOLEAN,
                 \/ \E periods \in 0..MaxPeriods + 1, transfers \in TransferLists :
                      MakePledge(supporter, w, periods, show, transfers)
                 \/ SetVisibility(supporter, w, show)
          PROVE  FALSE
      BY <3>3 DEF MakePledge, MayPledge, PledgedEvent, SetVisibility, VisibilityEvent
    <3> QED
      BY <3>1, <3>2, <3>3 DEF Next
  <2> QED
    BY <2>1, CcsupportAssumption DEF Tick, TypeOK
<1> QED
  BY <1>1, <1>2, TypeCorrect, PTL DEF Spec

\* The times of a pledge need no more room than the clock and a full count of periods take:
\* with a u32 of periods of 30 days that is below 2^54 seconds, so no i64 overflows.
LEMMA TermsFit ==
  Spec => [](\A p \in Pairs : pledges[p].expires_at <= MaxTime + MaxU32 * Period)
<1>1. TypeOK /\ TermInv /\ clock.unix_timestamp <= MaxTime
        => \A p \in Pairs : pledges[p].expires_at <= MaxTime + MaxU32 * Period
  <2> SUFFICES ASSUME TypeOK, TermInv, clock.unix_timestamp <= MaxTime, NEW p \in Pairs
               PROVE  pledges[p].expires_at <= MaxTime + MaxU32 * Period
    OBVIOUS
  <2> DEFINE t == pledges[p].periods_total
             T == t * Period
             M == MaxU32 * Period
  <2>1. /\ clock.unix_timestamp \in Nat /\ t \in U32 /\ pledges[p].expires_at \in Nat
        /\ pledges[p].contributions \in U32
    BY DEF TypeOK, Pledge
  <2>2. t \in Nat /\ t <= MaxU32 /\ MaxU32 \in Nat /\ MaxTime \in Nat /\ Period \in Nat
    BY <2>1, CcsupportAssumption, PeriodsAssumption DEF U32
  <2>3. T \in Nat /\ M \in Nat /\ T <= M
    BY <2>2, SMT
  <2> HIDE DEF T, M
  <2>4. CASE Pledged(p)
    <3>1. pledges[p].expires_at <= clock.unix_timestamp + T
      BY <2>4 DEF TermInv, PaidTimeIsKept, T
    <3> QED
      BY <2>1, <2>2, <2>3, <3>1 DEF M
  <2>5. CASE ~Pledged(p)
    <3>1. pledges[p].expires_at = 0
      BY <2>1, <2>5 DEF TermInv, FreshIsZero, ZeroPledge, Pledged, U32
    <3> QED
      BY <2>2, <2>3, <3>1 DEF M
  <2> QED
    BY <2>4, <2>5
<1> QED
  BY <1>1, ClockStaysInTime, TermInvCorrect, PTL

\* Paid time is neither lost nor invented, in every order of contributions.
THEOREM PaidTimeCorrect == Spec => []PaidTimeIsKept
<1>1. TermInv => PaidTimeIsKept
  BY DEF TermInv
<1> QED
  BY <1>1, TermInvCorrect, PTL

\* A term that never ran out is exactly the periods paid for, from its start.
THEOREM UnbrokenTermCorrect == Spec => []UnbrokenTermIsExact
<1>1. TermInv => UnbrokenTermIsExact
  BY DEF TermInv
<1> QED
  BY <1>1, TermInvCorrect, PTL

\* Each contribution pays for 1..MaxPeriods periods.
THEOREM ContributionsWithinPeriodsCorrect == Spec => []ContributionsWithinPeriods
<1>1. TermInv => ContributionsWithinPeriods
  BY DEF TermInv
<1> QED
  BY <1>1, TermInvCorrect, PTL

\* No step takes back a support: terms never shorten, starts never move, contributions only
\* count up by one.
THEOREM NeverTakesBackCorrect == Spec => NeverTakesBack
<1>1. TypeOK /\ TermInv /\ [Next]_vars =>
        [\A p \in Pairs : Pledged(p) =>
           /\ pledges'[p].expires_at >= pledges[p].expires_at
           /\ pledges'[p].started_at = pledges[p].started_at
           /\ pledges'[p].contributions \in {pledges[p].contributions,
                                             pledges[p].contributions + 1}]_vars
  <2> SUFFICES ASSUME TypeOK, TermInv, [Next]_vars, NEW p \in Pairs, Pledged(p)
               PROVE  /\ pledges'[p].expires_at >= pledges[p].expires_at
                      /\ pledges'[p].started_at = pledges[p].started_at
                      /\ pledges'[p].contributions \in {pledges[p].contributions,
                                                        pledges[p].contributions + 1}
    OBVIOUS
  <2>1. /\ pledges[p].expires_at \in Nat /\ pledges[p].contributions \in Nat
        /\ clock.unix_timestamp \in Nat
    BY DEF TypeOK, Pledge, U32
  <2>2. CASE SameTerm(p)
    BY <2>1, <2>2 DEF SameTerm
  <2>3. ASSUME NEW k \in 1..MaxPeriods, NEW show \in BOOLEAN,
               pledges'[p] = Contributed(pledges[p], k, show)
        PROVE  /\ pledges'[p].expires_at >= pledges[p].expires_at
               /\ pledges'[p].started_at = pledges[p].started_at
               /\ pledges'[p].contributions = pledges[p].contributions + 1
    <3>1. k \in Nat /\ k * Period \in Nat
      BY PeriodsAssumption, PaidTimeAddsUp
    <3> DEFINE K == k * Period
    <3>2. /\ pledges'[p].expires_at = Later(clock.unix_timestamp, pledges[p].expires_at) + K
          /\ pledges'[p].contributions = pledges[p].contributions + 1
          /\ pledges'[p].started_at = pledges[p].started_at
      BY <2>1, <2>3 DEF Contributed, FirstContribution, ExtendExpiry, Pledged
    <3>3. K \in Nat
      BY <3>1
    <3> HIDE DEF K
    <3> QED
      BY <2>1, <3>2, <3>3 DEF Later
  <2> QED
    BY <2>2, <2>3, PledgeStep
<1> QED
  BY <1>1, TermInvCorrect, PTL DEF Spec, NeverTakesBack

-----------------------------------------------------------------------------
(* Handles.                                                                *)

\* A handle always resolves to the one creator that carries it.
LEMMA StepHandles == TypeOK /\ HandlesAndCreatorsAgree /\ [Next]_vars
                       => HandlesAndCreatorsAgree'
<1> SUFFICES ASSUME TypeOK, HandlesAndCreatorsAgree, [Next]_vars
             PROVE  HandlesAndCreatorsAgree'
  OBVIOUS
<1>0. /\ NoAccount \notin Wallets /\ NoAccount \notin Creator
      /\ creators \in [Wallets -> Creator \cup {NoAccount}]
      /\ handles \in [Handles -> Wallets \cup {NoAccount}]
  BY CcsupportAssumption DEF TypeOK
<1>a. ASSUME handles' = handles,
             \A w \in Wallets : /\ Registered(w)' <=> Registered(w)
                                /\ Registered(w) => creators'[w].handle = creators[w].handle
      PROVE  HandlesAndCreatorsAgree'
  BY <1>a DEF HandlesAndCreatorsAgree
<1>1. CASE Tick
  BY <1>1, <1>a DEF Tick, accounts, Registered
<1>2. ASSUME NEW w \in Wallets, NEW mint \in Mints, InitConfig(w, mint)
      PROVE  HandlesAndCreatorsAgree'
  BY <1>2, <1>a DEF InitConfig, Registered
<1>3. ASSUME NEW w \in Wallets, NEW handle \in Handles, NEW text \in Texts,
             RegisterCreator(w, handle, text)
      PROVE  HandlesAndCreatorsAgree'
  <2>1. /\ creators'[w] # NoAccount /\ creators'[w].handle = handle
        /\ \A v \in Wallets : v # w => creators'[v] = creators[v]
        /\ handles'[handle] = w
        /\ \A h \in Handles : h # handle => handles'[h] = handles[h]
        /\ creators[w] = NoAccount /\ handles[handle] = NoAccount
    <3>1. creators'[w] \in Creator
      BY <1>3, <1>0, CcsupportAssumption DEF RegisterCreator, Vacant, TypeOK, Creator, U64
    <3> QED
      BY <1>3, <1>0, <3>1 DEF RegisterCreator, Vacant
  <2> QED
    BY <2>1, <1>0 DEF HandlesAndCreatorsAgree, Registered
<1>4. ASSUME NEW w \in Wallets, NEW text \in Texts, NEW amount \in Amounts,
             UpdateCreator(w, text, amount)
      PROVE  HandlesAndCreatorsAgree'
  <2>1. creators[w] \in Creator
    BY <1>4, <1>0 DEF UpdateCreator, Registered
  <2>2. creators'[w] \in Creator /\ creators'[w].handle = creators[w].handle
    BY <1>4, <1>0, <2>1 DEF UpdateCreator, Creator
  <2>3. \A v \in Wallets : v # w => creators'[v] = creators[v]
    BY <1>4, <1>0 DEF UpdateCreator
  <2> QED
    BY <1>4, <1>0, <1>a, <2>1, <2>2, <2>3 DEF UpdateCreator, Registered
<1>5. ASSUME NEW w \in Wallets, NEW supporter \in Wallets, NEW show \in BOOLEAN,
             NEW periods \in 0..MaxPeriods + 1, NEW transfers \in TransferLists,
             MakePledge(supporter, w, periods, show, transfers)
      PROVE  HandlesAndCreatorsAgree'
  <2>1. creators[w] \in Creator
    BY <1>5, <1>0 DEF MakePledge, MayPledge, PledgedEvent, ValidPeriods, FirstContribution,
         Registered
  <2>2. FirstContribution(pledges[<<w, supporter>>])
          => [creators[w] EXCEPT !.pledges_total = @ + 1] \in Creator
    <3>1. /\ FirstContribution(pledges[<<w, supporter>>]) => creators[w].pledges_total < MaxU64
          /\ creators[w].pledges_total \in Nat
      BY <1>5, <2>1 DEF MakePledge, MayPledge, PledgedEvent, Creator, U64
    <3>2. FirstContribution(pledges[<<w, supporter>>]) => creators[w].pledges_total + 1 \in U64
      BY <3>1, CcsupportAssumption DEF U64
    <3> QED
      BY <2>1, <3>2 DEF Creator
  <2>3. creators'[w] \in Creator /\ creators'[w].handle = creators[w].handle
    BY <1>5, <1>0, <2>1, <2>2 DEF MakePledge, MayPledge, PledgedEvent, ValidPeriods,
         FirstContribution, Creator
  <2>4. \A v \in Wallets : v # w => creators'[v] = creators[v]
    BY <1>5, <1>0 DEF MakePledge, MayPledge, PledgedEvent, ValidPeriods, FirstContribution
  <2> QED
    BY <1>5, <1>0, <1>a, <2>1, <2>3, <2>4 DEF MakePledge, MayPledge, PledgedEvent,
         ValidPeriods, FirstContribution, Registered
<1>6. ASSUME NEW w \in Wallets, NEW supporter \in Wallets, NEW show \in BOOLEAN,
             SetVisibility(supporter, w, show)
      PROVE  HandlesAndCreatorsAgree'
  BY <1>6, <1>a DEF SetVisibility, VisibilityEvent, Registered
<1>7. CASE UNCHANGED vars
  BY <1>7, <1>a DEF vars, Registered
<1> QED
  BY <1>1, <1>2, <1>3, <1>4, <1>5, <1>6, <1>7 DEF Next

\* Handle accounts and creator accounts agree in every reachable state.
THEOREM HandlesCorrect == Spec => []HandlesAndCreatorsAgree
<1>1. Init => HandlesAndCreatorsAgree
  BY CcsupportAssumption DEF Init, HandlesAndCreatorsAgree, Registered
<1> QED
  BY <1>1, InitTypeOK, StepTypeOK, StepHandles, PTL DEF Spec

-----------------------------------------------------------------------------
(* The counter of supporters and the proof of payment.                     *)

\* What a step does to the pledges: the set of a creator's supporters stays, unless the
\* step is somebody's first contribution, which adds that supporter.
LEMMA SupportersAfterPledge ==
  ASSUME TypeOK, NEW w \in Wallets, NEW supporter \in Wallets, NEW show \in BOOLEAN,
         NEW periods \in 0..MaxPeriods + 1, NEW transfers \in TransferLists,
         MakePledge(supporter, w, periods, show, transfers)
  PROVE  /\ SupportersOf(w)' = SupportersOf(w) \cup {supporter}
         /\ \A v \in Wallets : v # w => SupportersOf(v)' = SupportersOf(v)
         /\ supporter \in SupportersOf(w) <=> pledges[<<w, supporter>>].contributions # 0
<1> DEFINE p == <<w, supporter>>
<1>1. /\ p \in Pairs /\ pledges \in [Pairs -> Pledge] /\ periods \in 1..MaxPeriods
      /\ \A q \in Pairs : pledges[q].contributions \in Nat
  BY DEF TypeOK, Pairs, Pledge, MakePledge, MayPledge, PledgedEvent, ValidPeriods,
       FirstContribution, U32
<1>2. /\ pledges'[p].contributions = pledges[p].contributions + 1
      /\ \A q \in Pairs : q # p => pledges'[q] = pledges[q]
  BY <1>1, ContributedType DEF MakePledge, MayPledge, PledgedEvent, ValidPeriods,
       FirstContribution
<1>3. /\ Pledged(p)'
      /\ \A q \in Pairs : q # p => (Pledged(q)' <=> Pledged(q))
      /\ Pledged(p) <=> pledges[p].contributions # 0
  BY <1>1, <1>2 DEF Pledged
<1>4. \A v, s \in Wallets : <<v, s>> \in Pairs /\ (<<v, s>> = p <=> v = w /\ s = supporter)
  BY DEF Pairs
<1> QED
  BY <1>3, <1>4 DEF SupportersOf

\* The counter keeps up with every instruction.
LEMMA StepPledgesTotal == TypeOK /\ PledgesTotalCountsPledges /\ [Next]_vars
                            => PledgesTotalCountsPledges'
<1> SUFFICES ASSUME TypeOK, PledgesTotalCountsPledges, [Next]_vars
             PROVE  PledgesTotalCountsPledges'
  OBVIOUS
<1>0. /\ NoAccount \notin Creator
      /\ creators \in [Wallets -> Creator \cup {NoAccount}]
      /\ \A w \in Wallets : IsFiniteSet(SupportersOf(w))
  <2>1. \A w \in Wallets : SupportersOf(w) \in SUBSET Wallets
    BY DEF SupportersOf
  <2> QED
    BY <2>1, CcsupportAssumption, FS_Subset DEF TypeOK
<1>a. ASSUME \A w \in Wallets :
               /\ SupportersOf(w)' = SupportersOf(w)
               /\ Registered(w)' <=> Registered(w)
               /\ Registered(w) => creators'[w].pledges_total = creators[w].pledges_total
      PROVE  PledgesTotalCountsPledges'
  BY <1>a DEF PledgesTotalCountsPledges
<1>b. ASSUME pledges' = pledges
      PROVE  \A w \in Wallets : SupportersOf(w)' = SupportersOf(w)
  BY <1>b DEF SupportersOf, Pledged
<1>1. CASE Tick
  BY <1>1, <1>a, <1>b DEF Tick, accounts, Registered
<1>2. ASSUME NEW w \in Wallets, NEW mint \in Mints, InitConfig(w, mint)
      PROVE  PledgesTotalCountsPledges'
  BY <1>2, <1>a, <1>b DEF InitConfig, Registered
<1>3. ASSUME NEW w \in Wallets, NEW handle \in Handles, NEW text \in Texts,
             RegisterCreator(w, handle, text)
      PROVE  PledgesTotalCountsPledges'
  <2>1. /\ creators'[w] # NoAccount /\ creators'[w].pledges_total = 0
        /\ \A v \in Wallets : v # w => creators'[v] = creators[v]
    <3>1. creators'[w] \in Creator
      BY <1>3, <1>0, CcsupportAssumption DEF RegisterCreator, Vacant, TypeOK, Creator, U64
    <3> QED
      BY <1>3, <1>0, <3>1 DEF RegisterCreator, Vacant
  <2>2. \A v \in Wallets : SupportersOf(v)' = SupportersOf(v)
    BY <1>3, <1>b DEF RegisterCreator, Vacant
  <2>3. SupportersOf(w) = {}
    BY <1>3 DEF RegisterCreator, Vacant, PledgesTotalCountsPledges, Registered
  <2> QED
    BY <2>1, <2>2, <2>3, FS_EmptySet DEF PledgesTotalCountsPledges, Registered
<1>4. ASSUME NEW w \in Wallets, NEW text \in Texts, NEW amount \in Amounts,
             UpdateCreator(w, text, amount)
      PROVE  PledgesTotalCountsPledges'
  <2>1. creators[w] \in Creator
    BY <1>4, <1>0 DEF UpdateCreator, Registered
  <2>2. /\ creators'[w] \in Creator
        /\ creators'[w].pledges_total = creators[w].pledges_total
        /\ \A v \in Wallets : v # w => creators'[v] = creators[v]
    BY <1>4, <1>0, <2>1 DEF UpdateCreator, Creator
  <2> QED
    BY <1>4, <1>0, <1>a, <1>b, <2>1, <2>2 DEF UpdateCreator, Registered
<1>5. ASSUME NEW w \in Wallets, NEW supporter \in Wallets, NEW show \in BOOLEAN,
             NEW periods \in 0..MaxPeriods + 1, NEW transfers \in TransferLists,
             MakePledge(supporter, w, periods, show, transfers)
      PROVE  PledgesTotalCountsPledges'
  <2>1. creators[w] \in Creator
    BY <1>5, <1>0 DEF MakePledge, MayPledge, PledgedEvent, ValidPeriods, FirstContribution,
         Registered
  <2>2. /\ SupportersOf(w)' = SupportersOf(w) \cup {supporter}
        /\ \A v \in Wallets : v # w => SupportersOf(v)' = SupportersOf(v)
        /\ supporter \in SupportersOf(w) <=> pledges[<<w, supporter>>].contributions # 0
    BY <1>5, SupportersAfterPledge
  <2>3. /\ creators[w].pledges_total \in Nat
        /\ creators[w].pledges_total = Cardinality(SupportersOf(w))
        /\ Registered(w)
    BY <1>5, <2>1 DEF PledgesTotalCountsPledges, MakePledge, MayPledge, PledgedEvent,
         ValidPeriods, FirstContribution, Creator, U64
  <2>4. CASE supporter \in SupportersOf(w)
    <3>1. creators' = creators
      BY <1>5, <2>2, <2>4 DEF MakePledge, MayPledge, PledgedEvent, ValidPeriods, FirstContribution
    <3>2. \A v \in Wallets : SupportersOf(v)' = SupportersOf(v)
      BY <2>2, <2>4
    <3> QED
      BY <1>a, <3>1, <3>2 DEF Registered
  <2>5. CASE supporter \notin SupportersOf(w)
    <3>1. /\ creators'[w] = [creators[w] EXCEPT !.pledges_total = @ + 1]
          /\ \A v \in Wallets : v # w => creators'[v] = creators[v]
      BY <1>5, <1>0, <2>2, <2>5 DEF MakePledge, MayPledge, PledgedEvent, ValidPeriods,
           FirstContribution
    <3>a. creators[w].pledges_total + 1 \in U64
      <4>1. creators[w].pledges_total < MaxU64
        BY <1>5, <2>2, <2>5, <1>0 DEF MakePledge, MayPledge, PledgedEvent, FirstContribution,
             TypeOK, Pledge, Pairs, U32
      <4> QED
        BY <2>3, <4>1, CcsupportAssumption DEF U64
    <3>2. creators'[w] \in Creator
          /\ creators'[w].pledges_total = creators[w].pledges_total + 1
      BY <2>1, <3>1, <3>a DEF Creator
    <3>3. Cardinality(SupportersOf(w)') = Cardinality(SupportersOf(w)) + 1
      BY <1>0, <2>2, <2>5, FS_AddElement
    <3> QED
      BY <1>0, <2>2, <2>3, <3>1, <3>2, <3>3 DEF PledgesTotalCountsPledges, Registered
  <2> QED
    BY <2>4, <2>5
<1>6. ASSUME NEW w \in Wallets, NEW supporter \in Wallets, NEW show \in BOOLEAN,
             SetVisibility(supporter, w, show)
      PROVE  PledgesTotalCountsPledges'
  <2>1. \A q \in Pairs : Pledged(q)' <=> Pledged(q)
    BY <1>6 DEF SetVisibility, VisibilityEvent, Pledged, TypeOK, Pledge
  <2>2. \A v \in Wallets : SupportersOf(v)' = SupportersOf(v)
    BY <2>1 DEF SupportersOf, Pairs
  <2> QED
    BY <1>6, <1>a, <2>2 DEF SetVisibility, VisibilityEvent, Registered
<1>7. CASE UNCHANGED vars
  BY <1>7, <1>a, <1>b DEF vars, Registered
<1> QED
  BY <1>1, <1>2, <1>3, <1>4, <1>5, <1>6, <1>7 DEF Next

\* A creator's pledges_total is the number of wallets that ever pledged to the creator.
THEOREM PledgesTotalCorrect == Spec => []PledgesTotalCountsPledges
<1>1. Init => PledgesTotalCountsPledges
  BY DEF Init, PledgesTotalCountsPledges, Registered, SupportersOf, Pledged, ZeroPledge, Pairs
<1> QED
  BY <1>1, InitTypeOK, StepTypeOK, StepPledgesTotal, PTL DEF Spec

\* A pledge exists only where a matching transfer ran: nothing but `pledge` opens one, and
\* the transfer it found is a payment by the supporter to the creator.
LEMMA StepPaid == TypeOK /\ NoTransferNoRecord /\ [Next]_vars => NoTransferNoRecord'
<1> SUFFICES ASSUME TypeOK, NoTransferNoRecord, [Next]_vars
             PROVE  NoTransferNoRecord'
  OBVIOUS
<1>a. ASSUME pledges' = pledges, paid \subseteq paid'
      PROVE  NoTransferNoRecord'
  BY <1>a DEF NoTransferNoRecord, Pledged
<1>1. CASE Tick
  BY <1>1, <1>a DEF Tick, accounts
<1>2. ASSUME NEW w \in Wallets, NEW mint \in Mints, InitConfig(w, mint)
      PROVE  NoTransferNoRecord'
  BY <1>2, <1>a DEF InitConfig
<1>3. ASSUME NEW w \in Wallets, NEW handle \in Handles, NEW text \in Texts,
             RegisterCreator(w, handle, text)
      PROVE  NoTransferNoRecord'
  BY <1>3, <1>a DEF RegisterCreator, Vacant
<1>4. ASSUME NEW w \in Wallets, NEW text \in Texts, NEW amount \in Amounts,
             UpdateCreator(w, text, amount)
      PROVE  NoTransferNoRecord'
  BY <1>4, <1>a DEF UpdateCreator
<1>5. ASSUME NEW w \in Wallets, NEW supporter \in Wallets, NEW show \in BOOLEAN,
             NEW periods \in 0..MaxPeriods + 1, NEW transfers \in TransferLists,
             MakePledge(supporter, w, periods, show, transfers)
      PROVE  NoTransferNoRecord'
  <2>1. PICK i \in DOMAIN transfers :
          MatchesExpected(transfers[i], config.mint, supporter, w)
    BY <1>5 DEF MakePledge, MayPledge, PledgedEvent, ValidPeriods, FirstContribution,
         FindsTransfer
  <2>2. /\ transfers[i].signed /\ transfers[i].mint = config.mint
        /\ transfers[i].authority = supporter
        /\ transfers[i].source = <<supporter, config.mint>>
        /\ transfers[i].destination = <<w, config.mint>>
    BY <2>1 DEF MatchesExpected, Ata
  <2>3. <<w, supporter>> \in PaidBy(transfers, config.mint)
    BY <2>2 DEF PaidBy
  <2>4. paid \subseteq paid' /\ <<w, supporter>> \in paid'
    BY <1>5, <2>3 DEF MakePledge, MayPledge, PledgedEvent, ValidPeriods, FirstContribution
  <2>5. \A q \in Pairs : q # <<w, supporter>> => pledges'[q] = pledges[q]
    BY <1>5 DEF MakePledge, MayPledge, PledgedEvent, ValidPeriods, FirstContribution, TypeOK
  <2> QED
    BY <2>4, <2>5 DEF NoTransferNoRecord, Pledged, Pairs
<1>6. ASSUME NEW w \in Wallets, NEW supporter \in Wallets, NEW show \in BOOLEAN,
             SetVisibility(supporter, w, show)
      PROVE  NoTransferNoRecord'
  <2>1. \A q \in Pairs : Pledged(q)' <=> Pledged(q)
    BY <1>6 DEF SetVisibility, VisibilityEvent, Pledged, TypeOK, Pledge
  <2> QED
    BY <1>6, <2>1 DEF SetVisibility, VisibilityEvent, NoTransferNoRecord, Pairs
<1>7. CASE UNCHANGED vars
  BY <1>7, <1>a DEF vars
<1> QED
  BY <1>1, <1>2, <1>3, <1>4, <1>5, <1>6, <1>7 DEF Next

\* No transfer, no record.
THEOREM NoTransferNoRecordCorrect == Spec => []NoTransferNoRecord
<1>1. Init => NoTransferNoRecord
  BY DEF Init, NoTransferNoRecord, Pledged, ZeroPledge, Pairs
<1> QED
  BY <1>1, InitTypeOK, StepTypeOK, StepPaid, PTL DEF Spec

-----------------------------------------------------------------------------
(* The client.  What it builds is what was asked, for any wallets, mints,  *)
(* handles and bounds: one lemma per instruction, no invariant, because    *)
(* the claim is about every pair of states.  What it reads is what the     *)
(* program has there, which rests on the types of the accounts and on the  *)
(* agreement of handles and creators.                                      *)

\* SpeaksForItsCaller, of one ask.
SpeaksFor(ask) ==
  LET built == Built(ask)
  IN  /\ Asked(ask) <=> ~Refused(ask) /\ Runs(built)
      /\ Asked(ask) => ParsesAs(built[Len(built)], event')

\* A transaction of one instruction runs as that instruction does.
LEMMA RunsOfOne ==
  ASSUME NEW ix, ix.program = "ccsupport"
  PROVE  Runs(<<ix>>) <=> Dispatch(ix, TransfersOf(<<ix>>))
BY DEF Runs

LEMMA InitConfigSpeaks ==
  ASSUME NEW ask \in [op : {"initConfig"}, wallet : Wallets, mint : Mints]
  PROVE  SpeaksFor(ask)
<1> DEFINE metas == <<Writable(FindConfigPda), WritableSigner(ask.wallet), Readonly(ask.mint),
                      Readonly(SystemProgram)>>
           ix == Instruction(metas, <<"init_config">>)
<1>1. ask.op = "initConfig" /\ ask.wallet \in Wallets /\ ask.mint \in Mints
  OBVIOUS
<1>2. Built(ask) = <<ix>>
  BY <1>1 DEF Built, InitConfigAsync, InitConfigInstruction, InitConfigAccounts, InitConfigData
<1>3. ix.program = "ccsupport" /\ ix.accounts = metas /\ ix.data = <<"init_config">>
  BY DEF Instruction
<1>4. /\ Len(metas) = 4
      /\ metas[1] = [address |-> <<"config">>, signer |-> FALSE, writable |-> TRUE]
      /\ metas[2] = [address |-> ask.wallet, signer |-> TRUE, writable |-> TRUE]
      /\ metas[3] = [address |-> ask.mint, signer |-> FALSE, writable |-> FALSE]
      /\ metas[4] = [address |-> SystemProgram, signer |-> FALSE, writable |-> FALSE]
  BY DEF Meta, Writable, WritableSigner, Readonly, FindConfigPda
<1> HIDE DEF metas, ix
<1>5. Runs(Built(ask)) <=> RunsInitConfig(metas)
  <2>1. ix.data[1] = "init_config"
    BY <1>3
  <2> QED
    BY <1>2, <1>3, <2>1, RunsOfOne DEF Dispatch
<1>6. RunsInitConfig(metas) <=> InitConfig(ask.wallet, ask.mint)
  BY <1>1, <1>4 DEF RunsInitConfig, SeededMut, Seeded, Payer, IsSigner
<1>7. ~Refused(ask) /\ (Asked(ask) <=> InitConfig(ask.wallet, ask.mint))
  BY <1>1 DEF Refused, Asked
<1>8. ASSUME InitConfig(ask.wallet, ask.mint) PROVE ParsesAs(ix, event')
  BY <1>3, <1>4, <1>8 DEF ParsesAs, IdentifyInstruction, ParseInitConfig, InitConfig
<1> QED
  BY <1>2, <1>5, <1>6, <1>7, <1>8 DEF SpeaksFor

LEMMA RegisterCreatorSpeaks ==
  ASSUME NEW ask \in [op : {"registerCreator"}, wallet : Wallets, handle : Handles, text : Texts]
  PROVE  SpeaksFor(ask)
<1> DEFINE metas == <<WritableSigner(ask.wallet), Writable(FindCreatorPda(ask.wallet)),
                      Writable(HandlePda(ask.handle)), Readonly(SystemProgram)>>
           ix == Instruction(metas, <<"register_creator", ask.handle, ask.text>>)
<1>1. ask.op = "registerCreator" /\ ask.wallet \in Wallets
  OBVIOUS
<1>2. Built(ask) = <<ix>>
  BY <1>1 DEF Built, RegistrationInstruction, RegisterCreatorAsync, RegisterCreatorInstruction,
              RegisterCreatorAccounts, RegisterCreatorData
<1>3. /\ ix.program = "ccsupport" /\ ix.accounts = metas
      /\ ix.data = <<"register_creator", ask.handle, ask.text>>
  BY DEF Instruction
<1>4. /\ Len(metas) = 4
      /\ metas[1] = [address |-> ask.wallet, signer |-> TRUE, writable |-> TRUE]
      /\ metas[2] = [address |-> <<"creator", ask.wallet>>, signer |-> FALSE, writable |-> TRUE]
      /\ metas[3] = [address |-> <<"handle", ask.handle>>, signer |-> FALSE, writable |-> TRUE]
      /\ metas[4] = [address |-> SystemProgram, signer |-> FALSE, writable |-> FALSE]
  BY DEF Meta, Writable, WritableSigner, Readonly, FindCreatorPda, HandlePda
<1> HIDE DEF metas, ix
<1>5. ix.data[1] = "register_creator" /\ ix.data[2] = ask.handle /\ ix.data[3] = ask.text
  BY <1>3
<1>6. Runs(Built(ask)) <=> RunsRegisterCreator(metas, ask.handle, ask.text)
  BY <1>2, <1>3, <1>5, RunsOfOne DEF Dispatch
<1>7. RunsRegisterCreator(metas, ask.handle, ask.text)
        <=> RegisterCreator(ask.wallet, ask.handle, ask.text)
  BY <1>1, <1>4 DEF RunsRegisterCreator, SeededMut, Seeded, Payer, IsSigner
<1>8. /\ Asked(ask) <=> RegisterCreator(ask.wallet, ask.handle, ask.text)
      /\ Refused(ask) <=> ask.handle \notin ValidHandles
      /\ RegisterCreator(ask.wallet, ask.handle, ask.text) => ask.handle \in ValidHandles
  BY <1>1 DEF Refused, Asked, RegisterCreator
<1>9. ASSUME RegisterCreator(ask.wallet, ask.handle, ask.text) PROVE ParsesAs(ix, event')
  BY <1>3, <1>4, <1>5, <1>9 DEF ParsesAs, IdentifyInstruction, ParseRegisterCreator,
       RegisterCreator
<1> QED
  BY <1>2, <1>6, <1>7, <1>8, <1>9 DEF SpeaksFor

LEMMA UpdateCreatorSpeaks ==
  ASSUME NEW ask \in [op : {"updateCreator"}, wallet : Wallets, text : Texts,
                      suggestedAmount : Amounts]
  PROVE  SpeaksFor(ask)
<1> DEFINE metas == <<ReadonlySigner(ask.wallet), Writable(FindCreatorPda(ask.wallet))>>
           ix == Instruction(metas, <<"update_creator", ask.text, ask.suggestedAmount>>)
<1>1. ask.op = "updateCreator" /\ ask.wallet \in Wallets
  OBVIOUS
<1>2. Built(ask) = <<ix>>
  BY <1>1 DEF Built, UpdateCreatorAsync, UpdateCreatorInstruction, UpdateCreatorAccounts,
              UpdateCreatorData
<1>3. /\ ix.program = "ccsupport" /\ ix.accounts = metas
      /\ ix.data = <<"update_creator", ask.text, ask.suggestedAmount>>
  BY DEF Instruction
<1>4. /\ Len(metas) = 2
      /\ metas[1] = [address |-> ask.wallet, signer |-> TRUE, writable |-> FALSE]
      /\ metas[2] = [address |-> <<"creator", ask.wallet>>, signer |-> FALSE, writable |-> TRUE]
  BY DEF Meta, Writable, ReadonlySigner, FindCreatorPda
<1> HIDE DEF metas, ix
<1>5. ix.data[1] = "update_creator" /\ ix.data[2] = ask.text /\ ix.data[3] = ask.suggestedAmount
  BY <1>3
<1>6. Runs(Built(ask)) <=> RunsUpdateCreator(metas, ask.text, ask.suggestedAmount)
  BY <1>2, <1>3, <1>5, RunsOfOne DEF Dispatch
<1>7. RunsUpdateCreator(metas, ask.text, ask.suggestedAmount)
        <=> UpdateCreator(ask.wallet, ask.text, ask.suggestedAmount)
  BY <1>1, <1>4 DEF RunsUpdateCreator, SeededMut, Seeded, IsSigner
<1>8. ~Refused(ask) /\ (Asked(ask) <=> UpdateCreator(ask.wallet, ask.text, ask.suggestedAmount))
  BY <1>1 DEF Refused, Asked
<1>9. ASSUME UpdateCreator(ask.wallet, ask.text, ask.suggestedAmount) PROVE ParsesAs(ix, event')
  BY <1>3, <1>4, <1>5, <1>9 DEF ParsesAs, IdentifyInstruction, ParseUpdateCreator, UpdateCreator
<1> QED
  BY <1>2, <1>6, <1>7, <1>8, <1>9 DEF SpeaksFor

LEMMA SetVisibilitySpeaks ==
  ASSUME NEW ask \in [op : {"setVisibility"}, supporter : Wallets, creatorWallet : Wallets,
                      showPublicly : BOOLEAN]
  PROVE  SpeaksFor(ask)
<1> DEFINE metas == <<ReadonlySigner(ask.supporter),
                      Writable(PledgePda(ask.creatorWallet, ask.supporter))>>
           ix == Instruction(metas, <<"set_visibility", ask.showPublicly>>)
<1>1. ask.op = "setVisibility" /\ ask.supporter \in Wallets /\ ask.creatorWallet \in Wallets
  OBVIOUS
<1>2. Built(ask) = <<ix>>
  BY <1>1 DEF Built, SetVisibilityInstruction, SetVisibilityAccounts, SetVisibilityData
<1>3. /\ ix.program = "ccsupport" /\ ix.accounts = metas
      /\ ix.data = <<"set_visibility", ask.showPublicly>>
  BY DEF Instruction
<1>4. /\ Len(metas) = 2
      /\ metas[1] = [address |-> ask.supporter, signer |-> TRUE, writable |-> FALSE]
      /\ metas[2] = [address |-> <<"pledge", ask.creatorWallet, ask.supporter>>,
                     signer |-> FALSE, writable |-> TRUE]
  BY DEF Meta, Writable, ReadonlySigner, PledgePda
<1> HIDE DEF metas, ix
<1>5. ix.data[1] = "set_visibility" /\ ix.data[2] = ask.showPublicly
  BY <1>3
<1>6. Runs(Built(ask)) <=> RunsSetVisibility(metas, ask.showPublicly)
  BY <1>2, <1>3, <1>5, RunsOfOne DEF Dispatch
<1>7. RunsSetVisibility(metas, ask.showPublicly)
        <=> SetVisibility(ask.supporter, ask.creatorWallet, ask.showPublicly)
  <2>1. \A w : SeededMut(metas[2], <<"pledge", w, metas[1].address>>) <=> w = ask.creatorWallet
    BY <1>4 DEF SeededMut, Seeded
  <2>2. Len(metas) >= 2 /\ IsSigner(metas[1]) /\ metas[1].address = ask.supporter
    BY <1>1, <1>4 DEF IsSigner
  <2>3. ASSUME SetVisibility(ask.supporter, ask.creatorWallet, ask.showPublicly)
        PROVE  RunsSetVisibility(metas, ask.showPublicly)
    BY <1>1, <2>1, <2>2, <2>3 DEF RunsSetVisibility
  <2>4. ASSUME RunsSetVisibility(metas, ask.showPublicly)
        PROVE  SetVisibility(ask.supporter, ask.creatorWallet, ask.showPublicly)
    <3>1. PICK w \in Wallets : /\ SeededMut(metas[2], <<"pledge", w, metas[1].address>>)
                               /\ SetVisibility(metas[1].address, w, ask.showPublicly)
      BY <2>4 DEF RunsSetVisibility
    <3> QED
      BY <2>1, <2>2, <3>1
  <2> QED
    BY <2>3, <2>4
<1>8. /\ ~Refused(ask)
      /\ Asked(ask) <=> SetVisibility(ask.supporter, ask.creatorWallet, ask.showPublicly)
  BY <1>1 DEF Refused, Asked
<1>9. ASSUME SetVisibility(ask.supporter, ask.creatorWallet, ask.showPublicly)
      PROVE  ParsesAs(ix, event')
  BY <1>3, <1>4, <1>5, <1>9 DEF ParsesAs, IdentifyInstruction, ParseSetVisibility,
       SetVisibility, VisibilityEvent,
                                PledgePda
<1> QED
  BY <1>2, <1>6, <1>7, <1>8, <1>9 DEF SpeaksFor

-----------------------------------------------------------------------------
(* A contribution is two instructions: the transfer and the pledge that    *)
(* looks for it.                                                           *)

\* What the program sees of a transfer that the supporter signs.
Booked(supporter, creatorWallet, mint) ==
  [mint |-> mint, source |-> Ata(supporter, mint), destination |-> Ata(creatorWallet, mint),
   authority |-> supporter, signed |-> TRUE]

LEMMA TransfersOfAContribution ==
  ASSUME NEW supporter, NEW w, NEW mint, NEW ix, ix.program = "ccsupport",
         NEW transfers,
         transfers = TransfersOf(<<TransferInstruction(supporter, w, mint), ix>>)
  PROVE  /\ DOMAIN transfers = {1, 2}
         /\ transfers[1] = Booked(supporter, w, mint) /\ transfers[2] = NoTransfer
<1> DEFINE tix == TransferInstruction(supporter, w, mint)
           both == <<tix, ix>>
           m == <<Writable(Ata(supporter, mint)), Readonly(mint), Writable(Ata(w, mint)),
                  Readonly(<<"equality">>), Readonly(<<"validity">>), Readonly(<<"range">>),
                  ReadonlySigner(supporter)>>
<1>1. tix.program = "token2022" /\ tix.data = <<27, 7>> /\ tix.accounts = m
  BY DEF TransferInstruction
<1>2. /\ Len(m) = 7 /\ m[1].address = Ata(supporter, mint) /\ m[2].address = mint
      /\ m[3].address = Ata(w, mint) /\ m[7].address = supporter /\ m[7].signer = TRUE
  BY DEF Writable, Readonly, ReadonlySigner, Meta
<1> HIDE DEF tix, m
<1>3. IsConfidentialTransfer(tix) /\ ~IsConfidentialTransfer(ix)
  BY <1>1, <1>2 DEF IsConfidentialTransfer
<1>4. DOMAIN both = {1, 2} /\ both[1] = tix /\ both[2] = ix
  OBVIOUS
<1>5. transfers = TransfersOf(both)
  BY DEF tix
<1> HIDE DEF both
<1>6. DOMAIN transfers = {1, 2} /\ transfers[2] = NoTransfer
  BY <1>3, <1>4, <1>5 DEF TransfersOf
<1>7. transfers[1] = [mint |-> m[2].address, source |-> m[1].address,
     destination |-> m[3].address,
                      authority |-> TransferSigner(m).address,
                           signed |-> TransferSigner(m).signer]
  BY <1>1, <1>3, <1>4, <1>5 DEF TransfersOf
<1>8. TransferSigner(m) = m[7]
  BY <1>2 DEF TransferSigner
<1> QED
  BY <1>2, <1>6, <1>7, <1>8 DEF Booked

\* An instruction that is no transfer makes no difference to a pledge.
LEMMA NoTransferIsNothing ==
  ASSUME NEW supporter, NEW w, NEW periods, NEW show, NEW booked, NEW transfers,
         DOMAIN transfers = {1, 2}, transfers[1] = booked, transfers[2] = NoTransfer
  PROVE  MakePledge(supporter, w, periods, show, transfers)
           <=> MakePledge(supporter, w, periods, show, <<booked>>)
<1>1. DOMAIN <<booked>> = {1} /\ <<booked>>[1] = booked
  OBVIOUS
<1>2. ~NoTransfer.signed
  BY DEF NoTransfer
<1>3. \A mint : FindsTransfer(transfers, mint, supporter, w)
                  <=> FindsTransfer(<<booked>>, mint, supporter, w)
  BY <1>1, <1>2 DEF FindsTransfer, MatchesExpected
<1>4. \A mint : PaidBy(transfers, mint) = PaidBy(<<booked>>, mint)
  BY <1>1, <1>2 DEF PaidBy
<1> QED
  BY <1>3, <1>4 DEF MakePledge, MayPledge, PledgedEvent

LEMMA ContributeSpeaks ==
  ASSUME NEW ask \in [op : {"contribute"}, supporter : Wallets, creatorWallet : Wallets,
                      mint : Mints, periods : 0..MaxPeriods + 1, showPublicly : BOOLEAN]
  PROVE  SpeaksFor(ask)
<1> DEFINE metas == <<WritableSigner(ask.supporter), Readonly(FindConfigPda),
                      Writable(FindCreatorPda(ask.creatorWallet)),
                      Writable(PledgePda(ask.creatorWallet, ask.supporter)),
                      Readonly(InstructionsSysvar), Readonly(SystemProgram)>>
           ix == Instruction(metas, <<"pledge", ask.periods, ask.showPublicly>>)
           tix == TransferInstruction(ask.supporter, ask.creatorWallet, ask.mint)
           transfers == TransfersOf(<<tix, ix>>)
           booked == Booked(ask.supporter, ask.creatorWallet, ask.mint)
           Pledges(list) ==
             MakePledge(ask.supporter, ask.creatorWallet, ask.periods, ask.showPublicly, list)
<1>1. ask.op = "contribute" /\ ask.supporter \in Wallets /\ ask.creatorWallet \in Wallets
  OBVIOUS
<1>2. Built(ask) = <<tix, ix>>
  BY <1>1 DEF Built, PledgeInstruction, MakePledgeAsync, MakePledgeInstruction,
       MakePledgeAccounts,
              MakePledgeData
<1>3. /\ ix.program = "ccsupport" /\ ix.accounts = metas
      /\ ix.data = <<"pledge", ask.periods, ask.showPublicly>>
      /\ tix.program = "token2022"
  BY DEF Instruction, TransferInstruction
<1>4. /\ Len(metas) = 6
      /\ metas[1] = [address |-> ask.supporter, signer |-> TRUE, writable |-> TRUE]
      /\ metas[2] = [address |-> <<"config">>, signer |-> FALSE, writable |-> FALSE]
      /\ metas[3] = [address |-> <<"creator", ask.creatorWallet>>,
                     signer |-> FALSE, writable |-> TRUE]
      /\ metas[4] = [address |-> <<"pledge", ask.creatorWallet, ask.supporter>>,
                     signer |-> FALSE, writable |-> TRUE]
      /\ metas[5] = [address |-> InstructionsSysvar, signer |-> FALSE, writable |-> FALSE]
      /\ metas[6] = [address |-> SystemProgram, signer |-> FALSE, writable |-> FALSE]
  BY DEF Meta, Writable, WritableSigner, Readonly, FindConfigPda, FindCreatorPda, PledgePda
<1>5. Pledges(transfers) <=> Pledges(<<booked>>)
  <2>1. /\ DOMAIN transfers = {1, 2} /\ transfers[1] = booked /\ transfers[2] = NoTransfer
    BY <1>3, TransfersOfAContribution
  <2> HIDE DEF transfers, booked
  <2> QED
    BY <2>1, NoTransferIsNothing
<1> HIDE DEF metas, ix, tix, transfers
<1>6. ix.data[1] = "pledge" /\ ix.data[2] = ask.periods /\ ix.data[3] = ask.showPublicly
  BY <1>3
<1>7. Runs(Built(ask)) <=> RunsMakePledge(metas, ask.periods, ask.showPublicly, transfers)
  <2>1. Runs(<<tix, ix>>) <=> Dispatch(ix, transfers)
    BY <1>3 DEF Runs, transfers
  <2>2. Dispatch(ix, transfers)
          <=> RunsMakePledge(metas, ask.periods, ask.showPublicly, transfers)
    BY <1>3, <1>6 DEF Dispatch
  <2> QED
    BY <1>2, <2>1, <2>2
<1>8. RunsMakePledge(metas, ask.periods, ask.showPublicly, transfers) <=> Pledges(transfers)
  <2>1. \A w : /\ SeededMut(metas[3], <<"creator", w>>)
               /\ SeededMut(metas[4], <<"pledge", w, metas[1].address>>)
               <=> w = ask.creatorWallet
    BY <1>4 DEF SeededMut, Seeded
  <2>2. /\ Len(metas) >= 6 /\ Payer(metas[1]) /\ metas[1].address = ask.supporter
        /\ Seeded(metas[2], <<"config">>) /\ Seeded(metas[5], InstructionsSysvar)
        /\ Seeded(metas[6], SystemProgram)
    BY <1>1, <1>4 DEF Payer, IsSigner, Seeded
  <2>3. ASSUME Pledges(transfers)
        PROVE  RunsMakePledge(metas, ask.periods, ask.showPublicly, transfers)
    BY <1>1, <2>1, <2>2, <2>3 DEF RunsMakePledge
  <2>4. ASSUME RunsMakePledge(metas, ask.periods, ask.showPublicly, transfers)
        PROVE  Pledges(transfers)
    <3>1. PICK w \in Wallets :
            /\ SeededMut(metas[3], <<"creator", w>>)
            /\ SeededMut(metas[4], <<"pledge", w, metas[1].address>>)
            /\ MakePledge(metas[1].address, w, ask.periods, ask.showPublicly, transfers)
      BY <2>4 DEF RunsMakePledge
    <3> QED
      BY <2>1, <2>2, <3>1
  <2> QED
    BY <2>3, <2>4
<1>9. /\ Asked(ask) <=> Pledges(<<booked>>)
      /\ Refused(ask) <=> ask.periods \notin 1..MaxPeriods
      /\ Pledges(<<booked>>) => ask.periods \in 1..MaxPeriods
  BY <1>1 DEF Refused, Asked, Booked, MakePledge, MayPledge, PledgedEvent, ValidPeriods
<1>10. ASSUME Pledges(<<booked>>) PROVE ParsesAs(ix, event')
  <2>0. Contributed(pledges[<<ask.creatorWallet, ask.supporter>>], ask.periods,
                    ask.showPublicly).show_publicly = ask.showPublicly
    BY DEF Contributed
  <2> QED
    BY <2>0, <1>3, <1>4, <1>6, <1>10 DEF ParsesAs, IdentifyInstruction, ParseMakePledge,
       MakePledge, MayPledge, PledgedEvent,
                                 FindCreatorPda, PledgePda
<1>11. Built(ask)[Len(Built(ask))] = ix
  BY <1>2
<1> HIDE DEF Pledges
<1> QED
  BY <1>5, <1>7, <1>8, <1>9, <1>10, <1>11 DEF SpeaksFor

-----------------------------------------------------------------------------
\* builders.test.ts and introspect.rs, for every ask and every state: a client's transaction is
\* accepted exactly when the program allows what was asked, and then does that.
THEOREM SpeaksForItsCallerCorrect == Spec => SpeaksForItsCaller
<1>1. \A ask \in Asks : SpeaksFor(ask)
  BY InitConfigSpeaks, RegisterCreatorSpeaks, UpdateCreatorSpeaks, ContributeSpeaks,
     SetVisibilitySpeaks DEF Asks
<1>2. [\A ask \in Asks : SpeaksFor(ask)]_vars =>
        [vars' # vars => \A ask \in Asks :
           LET built == Built(ask)
           IN  /\ Asked(ask) <=> ~Refused(ask) /\ Runs(built)
               /\ Asked(ask) => ParsesAs(built[Len(built)], event')]_vars
  BY DEF SpeaksFor
<1> QED
  BY <1>1, <1>2, PTL DEF SpeaksForItsCaller

-----------------------------------------------------------------------------
(* What the client reads, one lemma per account.                           *)

\* At each address are the bytes of the account that was derived to be there.
LEMMA AccountsAt ==
  /\ AccountAt(FindConfigPda) = IF config = NoAccount THEN <<>> ELSE ConfigBytes(config)
  /\ \A w : AccountAt(FindCreatorPda(w)) =
               IF Registered(w) THEN CreatorBytes(w, creators[w]) ELSE <<>>
  /\ \A h : AccountAt(HandlePda(h)) =
               IF handles[h] = NoAccount THEN <<>> ELSE HandleBytes(<<"creator", handles[h]>>)
  /\ \A w, s : AccountAt(PledgePda(w, s)) =
               IF Pledged(<<w, s>>) THEN PledgeBytes(w, s, pledges[<<w, s>>]) ELSE <<>>
<1>1. AccountAt(FindConfigPda) = IF config = NoAccount THEN <<>> ELSE ConfigBytes(config)
  <2> DEFINE address == FindConfigPda
  <2>1. address = FindConfigPda /\ address[1] = "config"
    BY DEF FindConfigPda
  <2> HIDE DEF address
  <2>2. AccountAt(address) = IF config = NoAccount THEN <<>> ELSE ConfigBytes(config)
    BY <2>1 DEF AccountAt
  <2> QED
    BY <2>1, <2>2
<1>2. ASSUME NEW w
      PROVE  AccountAt(FindCreatorPda(w)) =
               IF Registered(w) THEN CreatorBytes(w, creators[w]) ELSE <<>>
  <2> DEFINE address == FindCreatorPda(w)
  <2>1. address # FindConfigPda /\ address[1] = "creator" /\ address[2] = w
    BY DEF FindCreatorPda, FindConfigPda
  <2> HIDE DEF address
  <2> QED
    BY <2>1 DEF AccountAt, address
<1>3. ASSUME NEW h
      PROVE  AccountAt(HandlePda(h)) =
               IF handles[h] = NoAccount THEN <<>> ELSE HandleBytes(<<"creator", handles[h]>>)
  <2> DEFINE address == HandlePda(h)
  <2>1. address # FindConfigPda /\ address[1] = "handle" /\ address[2] = h
    BY DEF HandlePda, FindConfigPda
  <2> HIDE DEF address
  <2> QED
    BY <2>1 DEF AccountAt, address
<1>4. ASSUME NEW w, NEW s
      PROVE  AccountAt(PledgePda(w, s)) =
               IF Pledged(<<w, s>>) THEN PledgeBytes(w, s, pledges[<<w, s>>]) ELSE <<>>
  <2> DEFINE address == PledgePda(w, s)
  <2>1. /\ address # FindConfigPda /\ address[1] = "pledge"
        /\ address[2] = w /\ address[3] = s
    BY DEF PledgePda, FindConfigPda
  <2> HIDE DEF address
  <2> QED
    BY <2>1 DEF AccountAt, address
<1> QED
  BY <1>1, <1>2, <1>3, <1>4

\* The config is decoded to what the program has.
LEMMA ConfigIsRead ==
  ASSUME TypeOK
  PROVE  FetchMaybeConfig = config
<1> DEFINE bytes == ConfigBytes(config)
<1>1. /\ bytes # <<>> /\ bytes[2] = config.mint /\ bytes[3] = config.authority
  BY DEF ConfigBytes
<1> HIDE DEF bytes
<1>2. CASE config = NoAccount
  BY <1>2, AccountsAt DEF FetchMaybeConfig
<1>3. CASE config # NoAccount
  <2>1. config = [mint |-> config.mint, authority |-> config.authority]
    BY <1>3 DEF TypeOK, Config
  <2> QED
    BY <1>1, <1>3, <2>1, AccountsAt DEF FetchMaybeConfig, DecodeConfig, bytes
<1> QED
  BY <1>2, <1>3

\* A registered wallet's account is decoded to its profile.
LEMMA CreatorIsRead ==
  ASSUME TypeOK, NEW w \in Wallets
  PROVE  LET read == FetchMaybeCreator(FindCreatorPda(w))
         IN  /\ ~Registered(w) => read = NoAccount
             /\ Registered(w) =>
                  /\ read # NoAccount /\ read.handle = creators[w].handle
                  /\ read.text = creators[w].text
                  /\ read.suggestedAmount = creators[w].suggested_amount
                  /\ IdentifyAccount(AccountAt(FindCreatorPda(w))) = "Creator"
<1> DEFINE bytes == CreatorBytes(w, creators[w])
           read == FetchMaybeCreator(FindCreatorPda(w))
<1>1. ~Registered(w) => read = NoAccount
  BY AccountsAt DEF FetchMaybeCreator
<1>2. ASSUME Registered(w)
      PROVE  /\ read # NoAccount /\ read.handle = creators[w].handle
             /\ read.text = creators[w].text
             /\ read.suggestedAmount = creators[w].suggested_amount
             /\ IdentifyAccount(AccountAt(FindCreatorPda(w))) = "Creator"
  <2>1. /\ creators[w].handle \in Handles /\ creators[w].text \in Texts
        /\ creators[w].suggested_amount \in Amounts
        /\ creators[w].pledges_total \in Nat /\ creators[w].created_at \in Nat
    BY <1>2 DEF TypeOK, Creator, Registered, U64
  <2>2. /\ bytes # <<>> /\ bytes[1] = "Creator" /\ bytes[2] = w
        /\ bytes[3] = creators[w].handle /\ bytes[4] = creators[w].text
        /\ bytes[5] = creators[w].suggested_amount
        /\ bytes[6] = creators[w].pledges_total /\ bytes[7] = creators[w].created_at
    BY DEF CreatorBytes
  <2>3. AccountAt(FindCreatorPda(w)) = bytes
    BY <1>2, AccountsAt
  <2> HIDE DEF bytes
  <2>4. read = DecodeCreator(bytes)
    BY <2>2, <2>3 DEF FetchMaybeCreator
  <2>5. /\ read.handle = creators[w].handle /\ read.text = creators[w].text
        /\ read.suggestedAmount = creators[w].suggested_amount
        /\ read \in [wallet : Wallets, handle : Handles, text : Texts,
                     suggestedAmount : Amounts, pledgesTotal : Nat, createdAt : Nat]
    BY <2>1, <2>2, <2>4 DEF DecodeCreator
  <2>6. read # NoAccount
    BY <2>5, ClientAssumption
  <2> QED
    BY <2>2, <2>3, <2>5, <2>6 DEF IdentifyAccount
<1> QED
  BY <1>1, <1>2

\* A pledge's account is decoded to the term and the flag that the program has.
LEMMA PledgeIsRead ==
  ASSUME TypeOK, NEW w \in Wallets, NEW s \in Wallets
  PROVE  LET read == FetchMaybePledge(PledgePda(w, s))
         IN  /\ ~Pledged(<<w, s>>) => read = NoAccount
             /\ Pledged(<<w, s>>) =>
                  /\ read # NoAccount /\ read.expiresAt = pledges[<<w, s>>].expires_at
                  /\ read.showPublicly = pledges[<<w, s>>].show_publicly
                  /\ IdentifyAccount(AccountAt(PledgePda(w, s))) = "Pledge"
<1> DEFINE pledge == pledges[<<w, s>>]
           bytes == PledgeBytes(w, s, pledge)
           read == FetchMaybePledge(PledgePda(w, s))
<1>1. ~Pledged(<<w, s>>) => read = NoAccount
  BY AccountsAt DEF FetchMaybePledge
<1>2. ASSUME Pledged(<<w, s>>)
      PROVE  /\ read # NoAccount /\ read.expiresAt = pledge.expires_at
             /\ read.showPublicly = pledge.show_publicly
             /\ IdentifyAccount(AccountAt(PledgePda(w, s))) = "Pledge"
  <2>1. pledge \in Pledge
    BY DEF TypeOK, Pairs
  <2>2. AccountAt(PledgePda(w, s)) = bytes
    BY <1>2, AccountsAt
  <2> HIDE DEF pledge
  <2>3. /\ bytes # <<>> /\ bytes[1] = "Pledge" /\ bytes[2] = w /\ bytes[3] = s
        /\ bytes[4] = pledge.started_at /\ bytes[5] = pledge.expires_at
        /\ bytes[6] = pledge.periods_total /\ bytes[7] = pledge.contributions
        /\ bytes[8] = pledge.show_publicly /\ bytes[9] = pledge.last_slot
    BY DEF PledgeBytes
  <2> HIDE DEF bytes
  <2>4. read = DecodePledge(bytes)
    BY <2>2, <2>3 DEF FetchMaybePledge
  <2>5. /\ read.expiresAt = pledge.expires_at /\ read.showPublicly = pledge.show_publicly
        /\ read \in [creator : Wallets, supporter : Wallets, startedAt : Nat, expiresAt : Nat,
                     periodsTotal : Nat, contributions : Nat, showPublicly : BOOLEAN,
                     lastSlot : Nat]
    BY <2>1, <2>3, <2>4 DEF DecodePledge, Pledge, U32, U64
  <2>6. read # NoAccount
    BY <2>5, ClientAssumption
  <2> QED
    BY <2>2, <2>3, <2>5, <2>6 DEF IdentifyAccount
<1> QED
  BY <1>1, <1>2

\* The account of a creator's handle leads back to the creator.
LEMMA HandleIsRead ==
  ASSUME TypeOK, HandlesAndCreatorsAgree, NEW w \in Wallets, Registered(w)
  PROVE  FetchMaybeHandle(HandlePda(creators[w].handle)).creator = FindCreatorPda(w)
<1> DEFINE h == creators[w].handle
           bytes == HandleBytes(<<"creator", w>>)
<1>1. h \in Handles /\ handles[h] = w
  BY DEF HandlesAndCreatorsAgree, TypeOK, Creator, Registered
<1>2. w # NoAccount
  BY CcsupportAssumption
<1> HIDE DEF h
<1>3. AccountAt(HandlePda(h)) = bytes
  BY <1>1, <1>2, AccountsAt
<1>4. bytes # <<>> /\ bytes[2] = <<"creator", w>>
  BY DEF HandleBytes
<1> HIDE DEF bytes
<1>5. FetchMaybeHandle(HandlePda(h)).creator = FindCreatorPda(w)
  BY <1>3, <1>4 DEF FetchMaybeHandle, DecodeHandle, FindCreatorPda
<1> QED
  BY <1>5 DEF h

\* Support.tsx:111-112, visibility.ts:6-7, Register.tsx: in every reachable state of the program
\* the screens show what it will overwrite next, whoever looks.
THEOREM ReadsAreTrueCorrect == Spec => []ReadsAreTrue
<1>1. TypeOK /\ HandlesAndCreatorsAgree => ReadsAreTrue
  <2> SUFFICES ASSUME TypeOK, HandlesAndCreatorsAgree PROVE ReadsAreTrue
    OBVIOUS
  <2>1. ASSUME NEW w \in Wallets
        PROVE  LET page == WithAccount(w)
               IN  /\ page.form = "edit" <=> Registered(w)
                   /\ Registered(w) =>
                        /\ page.handle = creators[w].handle /\ page.text = creators[w].text
                        /\ page.suggested = creators[w].suggested_amount
                        /\ FetchMaybeHandle(HandlePda(page.handle)).creator = FindCreatorPda(w)
                        /\ IdentifyAccount(AccountAt(FindCreatorPda(w))) = "Creator"
    <3> DEFINE read == FetchMaybeCreator(FindCreatorPda(w))
               page == WithAccount(w)
    <3>1. CASE Registered(w)
      <4>1. /\ read # NoAccount /\ read.handle = creators[w].handle
            /\ read.text = creators[w].text
            /\ read.suggestedAmount = creators[w].suggested_amount
            /\ IdentifyAccount(AccountAt(FindCreatorPda(w))) = "Creator"
        BY <3>1, CreatorIsRead
      <4>2. page = [form |-> "edit", handle |-> read.handle, text |-> read.text,
                    suggested |-> read.suggestedAmount]
        BY <4>1 DEF WithAccount
      <4> HIDE DEF page, read
      <4>3. /\ page.form = "edit" /\ page.handle = creators[w].handle
            /\ page.text = creators[w].text
            /\ page.suggested = creators[w].suggested_amount
        BY <4>1, <4>2
      <4>4. FetchMaybeHandle(HandlePda(page.handle)).creator = FindCreatorPda(w)
        BY <3>1, <4>3, HandleIsRead
      <4> QED
        BY <3>1, <4>1, <4>3, <4>4 DEF page
    <3>2. CASE ~Registered(w)
      <4>1. page = [form |-> "register"]
        BY <3>2, CreatorIsRead DEF WithAccount
      <4>2. page.form # "edit"
        BY <4>1
      <4> QED
        BY <3>2, <4>2
    <3> QED
      BY <3>1, <3>2
  <2>2. ASSUME NEW w \in Wallets, NEW s \in Wallets
        PROVE  LET form == RenewalForm(w, s)
                   pledge == pledges[<<w, s>>]
               IN  IF Pledged(<<w, s>>)
                   THEN /\ form = [expiresAt |-> pledge.expires_at,
                                   showPublicly |-> pledge.show_publicly]
                        /\ ReadVisibility(s, {w})[w] = pledge.show_publicly
                        /\ IdentifyAccount(AccountAt(PledgePda(w, s))) = "Pledge"
                   ELSE form = NoAccount /\ ReadVisibility(s, {w})[w] = NoAccount
    BY PledgeIsRead DEF RenewalForm, ReadVisibility
  <2>3. FetchMaybeConfig = config
    BY ConfigIsRead
  <2> QED
    BY <2>1, <2>2, <2>3 DEF ReadsAreTrue
<1> QED
  BY <1>1, TypeCorrect, HandlesCorrect, PTL
=============================================================================
