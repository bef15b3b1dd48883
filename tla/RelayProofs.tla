----------------------------- MODULE RelayProofs -----------------------------
(***************************************************************************)
(* The relay and its limiter, for any limits, windows, requests and        *)
(* batches: no window of time holds more hits than the limit, a refused    *)
(* client that waits as long as it is told finds room, and a batch reaches *)
(* the network in its order.                                               *)
(***************************************************************************)
EXTENDS Relay, FiniteSetTheorems, TLAPS

-----------------------------------------------------------------------------
(* The limiter, as an operator on its state.                               *)

Fields == {"limit", "windowMs", "windows", "sinceSweep"}

\* The window of a key, empty while the limiter does not know it.
WindowOf(windows, key) == IF key \in DOMAIN windows THEN windows[key] ELSE <<>>

\* The hits of a window that came after a time.
After(s, t) == {i \in 1..Len(s) : s[i] > t}

\* A window that is no longer than another and misses none of its hits after a threshold.
Covers(p, s, threshold) ==
  /\ p \in Seq(Int) /\ Len(p) <= Len(s)
  /\ \A t \in Int : t >= threshold => Cardinality(After(s, t)) <= Cardinality(After(p, t))

LEMMA NatMin ==
  ASSUME NEW T, T \subseteq Nat, T # {}
  PROVE  \E x \in T : \A y \in T : x <= y
<1> DEFINE R == OpToRel(<, Nat)
<1>1. IsWellFoundedOn(R, Nat)
  BY NatLessThanWellFounded
<1>2. \A x, y \in Nat : y < x => <<y, x>> \in R
  BY DEF OpToRel
<1> HIDE DEF R
<1>3. PICK x \in T : \A y \in T : <<y, x>> \notin R
  BY <1>1, WFMin
<1>4. \A y \in T : x <= y
  <2> TAKE y \in T
  <2>1. x \in Nat /\ y \in Nat
    OBVIOUS
  <2>2. ~(y < x)
    BY <1>2, <1>3, <2>1
  <2> QED
    BY <2>1, <2>2
<1> QED
  BY <1>3, <1>4

LEMMA MinIsLeast ==
  ASSUME NEW T, T \subseteq Nat, T # {}
  PROVE  Min(T) \in T /\ \A y \in T : Min(T) <= y
<1>1. \E x \in T : \A y \in T : x <= y
  BY NatMin
<1> QED
  BY <1>1 DEF Min

LEMMA AfterIsFinite ==
  ASSUME NEW s \in Seq(Int), NEW t \in Int
  PROVE  /\ IsFiniteSet(After(s, t)) /\ Cardinality(After(s, t)) \in Nat
         /\ Cardinality(After(s, t)) <= Len(s)
<1>1. Len(s) \in Nat /\ IsFiniteSet(1..Len(s)) /\ Cardinality(1..Len(s)) = Len(s)
  <2>1. Len(s) \in Nat
    OBVIOUS
  <2>2. \A n \in Nat : IsFiniteSet(1..n) /\ Cardinality(1..n) = n
    BY FS_Interval
  <2> QED
    BY <2>1, <2>2
<1>2. After(s, t) \in SUBSET (1..Len(s))
  BY DEF After
<1>3. IsFiniteSet(After(s, t)) /\ Cardinality(After(s, t)) <= Len(s)
  BY <1>1, <1>2, FS_Subset
<1> QED
  BY <1>3, FS_CardinalityType

LEMMA CoversItself ==
  ASSUME NEW s \in Seq(Int), NEW threshold
  PROVE  Covers(s, s, threshold)
<1>1. \A t \in Int : Cardinality(After(s, t)) \in Nat
  BY AfterIsFinite
<1>2. \A t \in Int : Cardinality(After(s, t)) <= Cardinality(After(s, t))
  BY <1>1
<1>3. Len(s) <= Len(s)
  OBVIOUS
<1> QED
  BY <1>2, <1>3 DEF Covers

LEMMA CoversChain ==
  ASSUME NEW s \in Seq(Int), NEW p, NEW q, NEW threshold,
         Covers(p, s, threshold), Covers(q, p, threshold)
  PROVE  Covers(q, s, threshold)
<1>1. p \in Seq(Int) /\ q \in Seq(Int) /\ Len(q) <= Len(p) /\ Len(p) <= Len(s)
  BY DEF Covers
<1>2. Len(q) <= Len(s)
  BY <1>1
<1>3. ASSUME NEW t \in Int, t >= threshold
      PROVE  Cardinality(After(s, t)) <= Cardinality(After(q, t))
  <2>1. /\ Cardinality(After(s, t)) \in Nat /\ Cardinality(After(p, t)) \in Nat
        /\ Cardinality(After(q, t)) \in Nat
    BY <1>1, AfterIsFinite
  <2>2. /\ Cardinality(After(s, t)) <= Cardinality(After(p, t))
        /\ Cardinality(After(p, t)) <= Cardinality(After(q, t))
    BY <1>3 DEF Covers
  <2> QED
    BY <2>1, <2>2
<1> QED
  BY <1>1, <1>2, <1>3 DEF Covers

\* prune keeps every hit after its threshold, and only such, at the front.
LEMMA PruneCovers ==
  ASSUME NEW s \in Seq(Int), NEW threshold \in Int
  PROVE  Covers(Prune(s, threshold), s, threshold)
         /\ (Prune(s, threshold) # <<>> => Prune(s, threshold)[1] > threshold)
<1> DEFINE alive == {i \in DOMAIN s : s[i] > threshold}
           p == Prune(s, threshold)
<1>1. Len(s) \in Nat /\ DOMAIN s = 1..Len(s)
  OBVIOUS
<1>2. CASE alive = {}
  <2>1. p = <<>> /\ p \in Seq(Int) /\ Len(p) = 0
    BY <1>2 DEF Prune
  <2>2. ASSUME NEW t \in Int, t >= threshold
        PROVE  Cardinality(After(s, t)) <= Cardinality(After(p, t))
    <3>1. After(s, t) \subseteq alive
      BY <1>1, <2>2 DEF After
    <3>2. After(s, t) = {} /\ After(p, t) = {}
      BY <1>2, <2>1, <3>1 DEF After
    <3>3. Cardinality(After(s, t)) = 0 /\ Cardinality(After(p, t)) = 0
      BY <3>2, FS_EmptySet
    <3> QED
      BY <3>3
  <2> QED
    BY <1>1, <2>1, <2>2 DEF Covers
<1>3. CASE alive # {}
  <2> DEFINE m == Min(alive)
  <2>1. m \in alive /\ \A i \in alive : m <= i
    <3>1. alive \subseteq Nat
      BY <1>1
    <3> HIDE DEF alive
    <3> QED
      BY <1>3, <3>1, MinIsLeast
  <2>2. m \in 1..Len(s) /\ s[m] > threshold
    BY <1>1, <2>1
  <2>3. p = SubSeq(s, m, Len(s))
    BY <1>3 DEF Prune
  <2> HIDE DEF m, p
  <2>4. /\ p \in Seq(Int) /\ Len(p) = (Len(s) - m) + 1
        /\ \A i \in 1..Len(p) : p[i] = s[(m + i) - 1]
    BY <1>1, <2>2, <2>3
  <2>5. ASSUME NEW t \in Int, t >= threshold
        PROVE  Cardinality(After(s, t)) <= Cardinality(After(p, t))
    <3> DEFINE f == [j \in After(s, t) |-> (j - m) + 1]
    <3>1. ASSUME NEW j \in After(s, t) PROVE (j - m) + 1 \in After(p, t)
      <4>1. j \in 1..Len(s) /\ s[j] > t /\ s[j] \in Int
        BY DEF After
      <4>2. j \in alive
        BY <1>1, <2>5, <4>1
      <4>3. m <= j
        BY <2>1, <4>2
      <4>4. (j - m) + 1 \in 1..Len(p) /\ (m + ((j - m) + 1)) - 1 = j
        BY <1>1, <2>2, <2>4, <4>1, <4>3
      <4>5. p[(j - m) + 1] = s[j]
        BY <2>4, <4>4
      <4> QED
        BY <4>1, <4>4, <4>5 DEF After
    <3>2. \A i, j \in After(s, t) : f[i] = f[j] => i = j
      BY <1>1, <2>2 DEF After
    <3>3. f \in Injection(After(s, t), After(p, t))
      BY <3>1, <3>2 DEF Injection, IsInjective
    <3>4. IsFiniteSet(After(p, t))
      BY <2>4, AfterIsFinite
    <3> QED
      BY <3>3, <3>4, FS_Injection
  <2>6. Len(p) <= Len(s) /\ p[1] = s[m]
    <3>1. m \in Nat /\ Len(s) \in Nat /\ 1 <= m /\ m <= Len(s) /\ Len(p) = (Len(s) - m) + 1
      BY <1>1, <2>2, <2>4
    <3>2. 1 \in 1..Len(p) /\ (m + 1) - 1 = m /\ Len(p) <= Len(s)
      BY <3>1
    <3>3. p[1] = s[(m + 1) - 1]
      BY <2>4, <3>2
    <3> QED
      BY <3>2, <3>3
  <2> QED
    BY <2>2, <2>4, <2>5, <2>6 DEF Covers, p
<1> QED
  BY <1>2, <1>3

\* What stays of a key's window in a hit, swept or not.
Kept(limiter, at) ==
  IF limiter.sinceSweep + 1 >= SweepEvery
    THEN Sweep(limiter.windows, at - limiter.windowMs) ELSE limiter.windows
Pruned(limiter, key, at) ==
  IF key \in DOMAIN Kept(limiter, at)
    THEN Prune(Kept(limiter, at)[key], at - limiter.windowMs) ELSE <<>>

LEMMA SweepCovers ==
  ASSUME NEW windows, NEW key, NEW threshold \in Int, WindowOf(windows, key) \in Seq(Int)
  PROVE  Covers(WindowOf(Sweep(windows, threshold), key), WindowOf(windows, key), threshold)
<1> DEFINE s == WindowOf(windows, key)
           p == Prune(s, threshold)
<1>1. Covers(p, s, threshold) /\ Covers(s, s, threshold)
  BY PruneCovers, CoversItself
<1>2. CASE key \notin DOMAIN windows
  <2>1. s = <<>> /\ WindowOf(Sweep(windows, threshold), key) = <<>>
    BY <1>2 DEF Sweep, WindowOf
  <2> QED
    BY <1>1, <2>1
<1>3. CASE key \in DOMAIN windows
  <2>1. s = windows[key]
    BY <1>3 DEF WindowOf
  <2>2. CASE p = <<>>
    <3>1. WindowOf(Sweep(windows, threshold), key) = <<>>
      BY <2>1, <2>2 DEF Sweep, WindowOf
    <3> QED
      BY <1>1, <2>2, <3>1
  <2>3. CASE p # <<>>
    <3>1. WindowOf(Sweep(windows, threshold), key) = p
      BY <1>3, <2>1, <2>3 DEF Sweep, WindowOf
    <3> QED
      BY <1>1, <3>1
  <2> QED
    BY <2>2, <2>3
<1> QED
  BY <1>2, <1>3

LEMMA KeptCovers ==
  ASSUME NEW limiter, NEW key, NEW at \in Int, limiter.windowMs \in Int,
         WindowOf(limiter.windows, key) \in Seq(Int)
  PROVE  Covers(WindowOf(Kept(limiter, at), key), WindowOf(limiter.windows, key),
                at - limiter.windowMs)
<1>1. at - limiter.windowMs \in Int
  OBVIOUS
<1> QED
  BY <1>1, SweepCovers, CoversItself DEF Kept

LEMMA PrunedCovers ==
  ASSUME NEW limiter, NEW key, NEW at \in Int, limiter.windowMs \in Int,
         WindowOf(limiter.windows, key) \in Seq(Int)
  PROVE  /\ Covers(Pruned(limiter, key, at), WindowOf(limiter.windows, key),
                   at - limiter.windowMs)
         /\ Pruned(limiter, key, at) # <<>>
              => Pruned(limiter, key, at)[1] > at - limiter.windowMs
<1> DEFINE threshold == at - limiter.windowMs
           k == WindowOf(Kept(limiter, at), key)
           s == WindowOf(limiter.windows, key)
<1>1. threshold \in Int
  OBVIOUS
<1>2. Covers(k, s, threshold)
  BY KeptCovers
<1>3. k \in Seq(Int)
  BY <1>2 DEF Covers
<1>4. CASE key \in DOMAIN Kept(limiter, at)
  <2>1. k = Kept(limiter, at)[key] /\ Pruned(limiter, key, at) = Prune(k, threshold)
    BY <1>4 DEF WindowOf, Pruned
  <2> HIDE DEF threshold, k, s
  <2>2. Covers(Prune(k, threshold), k, threshold)
        /\ (Prune(k, threshold) # <<>> => Prune(k, threshold)[1] > threshold)
    BY <1>1, <1>3, PruneCovers
  <2>3. s \in Seq(Int)
    BY DEF s
  <2>4. Covers(Prune(k, threshold), s, threshold)
    BY <1>2, <2>2, <2>3, CoversChain
  <2> QED
    BY <2>1, <2>2, <2>4 DEF threshold, s
<1>5. CASE key \notin DOMAIN Kept(limiter, at)
  <2>1. k = <<>> /\ Pruned(limiter, key, at) = <<>>
    BY <1>5 DEF WindowOf, Pruned
  <2> QED
    BY <1>2, <2>1
<1> QED
  BY <1>4, <1>5

\* hit, in the terms of the window it pruned.
LEMMA HitIs ==
  ASSUME NEW limiter, DOMAIN limiter = Fields, limiter.sinceSweep \in Nat, NEW key, NEW at \in Int
  PROVE  LET hit == Hit(limiter, key, at)
             p == Pruned(limiter, key, at)
         IN  /\ DOMAIN hit.limiter = Fields
             /\ hit.limiter.limit = limiter.limit /\ hit.limiter.windowMs = limiter.windowMs
             /\ hit.limiter.sinceSweep \in Nat
             /\ hit.allowed = (Len(p) < limiter.limit)
             /\ WindowOf(hit.limiter.windows, key) = IF hit.allowed THEN Append(p, at) ELSE p
             /\ \A k : k # key => WindowOf(hit.limiter.windows, k) = WindowOf(Kept(limiter, at), k)
             /\ ~hit.allowed =>
                  LET reset == p[1] + limiter.windowMs - at
                  IN  hit.resetSeconds = IF reset > 1 THEN reset ELSE 1
<1> DEFINE p == Pruned(limiter, key, at)
           kept == Kept(limiter, at)
           ok == Len(p) < limiter.limit
           windows == [k \in DOMAIN kept \cup {key} |->
                         IF k # key THEN kept[k] ELSE IF ok THEN Append(p, at) ELSE p]
           since == IF limiter.sinceSweep + 1 >= SweepEvery THEN 0 ELSE limiter.sinceSweep + 1
           next == [limiter EXCEPT !.windows = windows, !.sinceSweep = since]
           reset == IF ok THEN 0 ELSE p[1] + limiter.windowMs - at
<1>1. Hit(limiter, key, at) =
        [limiter |-> next, allowed |-> ok,
         resetSeconds |-> IF ok \/ reset > 1 THEN reset ELSE 1]
  BY DEF Hit, Kept, Pruned, UnderLimit, ResetAfter
<1> HIDE DEF p, kept
<1>2. /\ WindowOf(windows, key) = IF ok THEN Append(p, at) ELSE p
      /\ \A k : k # key => WindowOf(windows, k) = WindowOf(kept, k)
  BY DEF WindowOf
<1> HIDE DEF windows
<1>3. since \in Nat
  OBVIOUS
<1> HIDE DEF since
<1>4. /\ DOMAIN next = Fields /\ next.limit = limiter.limit /\ next.windowMs = limiter.windowMs
      /\ next.windows = windows /\ next.sinceSweep = since
  BY DEF Fields
<1> HIDE DEF next, ok
<1>5. /\ Hit(limiter, key, at).limiter = next /\ Hit(limiter, key, at).allowed = ok
      /\ ~ok => Hit(limiter, key, at).resetSeconds
                  = IF p[1] + limiter.windowMs - at > 1 THEN p[1] + limiter.windowMs - at ELSE 1
  BY <1>1
<1>6. ok = (Len(p) < limiter.limit)
  BY DEF ok
<1> QED
  BY <1>2, <1>3, <1>4, <1>5, <1>6 DEF p, kept

-----------------------------------------------------------------------------
(* The two limiters of the api.                                            *)

By == {"relay", "faucet"}
Keys == {Client[r] : r \in Requests}
LimitOf(by) == IF by = "relay" THEN Limit ELSE FaucetLimit
LengthOf(by) == IF by = "relay" THEN WindowMs ELSE FaucetWindow

Window(by, key) == WindowOf(limiters[by].windows, key)
HitsAfter(by, key, t) == {h \in allowed : h.by = by /\ h.key = key /\ h.at > t}

LimiterTypes ==
  /\ clock \in Nat /\ DOMAIN limiters = By
  /\ \A by \in By :
       /\ DOMAIN limiters[by] = Fields /\ limiters[by].sinceSweep \in Nat
       /\ limiters[by].limit = LimitOf(by) /\ limiters[by].windowMs = LengthOf(by)
  /\ IsFiniteSet(allowed)
  /\ \A h \in allowed : h.by \in By /\ h.key \in Keys /\ h.at \in Nat /\ h.at <= clock
  /\ \A no \in refused :
       no.by \in By /\ no.key \in Keys /\ no.at \in Nat /\ no.at <= clock /\ no.reset \in Int

\* A window never outgrows the limit, and for as long as a hit counts it is in the window.
WindowsFit ==
  \A by \in By, key \in Keys : Window(by, key) \in Seq(Int) /\ Len(Window(by, key)) <= LimitOf(by)
WindowsMissNoHit ==
  \A by \in By, key \in Keys, t \in Int :
    t >= clock - LengthOf(by) =>
      Cardinality(HitsAfter(by, key, t)) <= Cardinality(After(Window(by, key), t))
\* Where a hit was just refused, the window is full, and stays so until the clock moves.
RefusedAreFull ==
  \A no \in refused :
    no.at = clock => /\ LimitOf(no.by) <= Len(Window(no.by, no.key))
                     /\ Window(no.by, no.key)[1] > clock - LengthOf(no.by)

LimiterInv ==
  /\ LimiterTypes /\ WindowsFit /\ WindowsMissNoHit /\ RefusedAreFull
  /\ LimitInEveryWindow /\ RetryAfterIsEnough

LEMMA LimitsAre ==
  \A by \in By : LimitOf(by) \in Nat /\ LimitOf(by) >= 1
                 /\ LengthOf(by) \in Nat /\ LengthOf(by) >= 1
<1>1. /\ Limit \in Nat \ {0} /\ WindowMs \in Nat \ {0}
      /\ FaucetLimit \in Nat \ {0} /\ FaucetWindow \in Nat \ {0}
  BY RelayAssumption
<1>2. \A by \in By : LimitOf(by) \in Nat \ {0} /\ LengthOf(by) \in Nat \ {0}
  BY <1>1 DEF By, LimitOf, LengthOf
<1>3. \A n \in Nat \ {0} : n \in Nat /\ n >= 1
  OBVIOUS
<1> QED
  BY <1>2, <1>3

\* What the two properties say of one hit, of all the hits allowed.
LimitHolds(hits, hit) ==
  Cardinality({h \in hits : /\ h.by = hit.by /\ h.key = hit.key
                            /\ hit.at - LengthOf(hit.by) < h.at /\ h.at <= hit.at})
    <= LimitOf(hit.by)
RetryHolds(hits, no) ==
  Cardinality({h \in hits : /\ h.by = no.by /\ h.key = no.key /\ h.at <= no.at
                            /\ h.at > no.at + no.reset - LengthOf(no.by)})
    < LimitOf(no.by)

LEMMA PropertiesAre ==
  ASSUME LimiterTypes
  PROVE  /\ LimitInEveryWindow <=> \A hit \in allowed : LimitHolds(allowed, hit)
         /\ RetryAfterIsEnough <=> \A no \in refused : RetryHolds(allowed, no)
<1>1. \A hit \in allowed :
        limiters[hit.by].limit = LimitOf(hit.by) /\ limiters[hit.by].windowMs = LengthOf(hit.by)
  BY DEF LimiterTypes
<1>2. \A no \in refused :
        limiters[no.by].limit = LimitOf(no.by) /\ limiters[no.by].windowMs = LengthOf(no.by)
  BY DEF LimiterTypes
<1>3. LimitInEveryWindow <=> \A hit \in allowed : LimitHolds(allowed, hit)
  BY <1>1 DEF LimitInEveryWindow, LimitHolds
<1>4. RetryAfterIsEnough <=> \A no \in refused : RetryHolds(allowed, no)
  BY <1>2 DEF RetryAfterIsEnough, RetryHolds
<1> QED
  BY <1>3, <1>4

LEMMA PropertiesAreNext ==
  ASSUME LimiterTypes'
  PROVE  /\ LimitInEveryWindow' <=> \A hit \in allowed' : LimitHolds(allowed', hit)
         /\ RetryAfterIsEnough' <=> \A no \in refused' : RetryHolds(allowed', no)
<1>1. \A hit \in allowed' :
        limiters'[hit.by].limit = LimitOf(hit.by) /\ limiters'[hit.by].windowMs = LengthOf(hit.by)
  BY DEF LimiterTypes
<1>2. \A no \in refused' :
        limiters'[no.by].limit = LimitOf(no.by) /\ limiters'[no.by].windowMs = LengthOf(no.by)
  BY DEF LimiterTypes
<1>3. LimitInEveryWindow' <=> \A hit \in allowed' : LimitHolds(allowed', hit)
  BY <1>1 DEF LimitInEveryWindow, LimitHolds
<1>4. RetryAfterIsEnough' <=> \A no \in refused' : RetryHolds(allowed', no)
  BY <1>2 DEF RetryAfterIsEnough, RetryHolds
<1> QED
  BY <1>3, <1>4

LEMMA HitsAreFinite ==
  ASSUME LimiterTypes, NEW by, NEW key, NEW t
  PROVE  /\ IsFiniteSet(HitsAfter(by, key, t))
         /\ Cardinality(HitsAfter(by, key, t)) \in Nat
<1>1. HitsAfter(by, key, t) \in SUBSET allowed
  BY DEF HitsAfter
<1>2. IsFiniteSet(HitsAfter(by, key, t))
  BY <1>1, FS_Subset DEF LimiterTypes
<1> QED
  BY <1>2, FS_CardinalityType

LEMMA InitLimiter == Init => LimiterInv
<1> SUFFICES ASSUME Init PROVE LimiterInv
  OBVIOUS
<1>1. /\ clock = 0 /\ allowed = {} /\ refused = {}
      /\ limiters = [relay |-> NewLimiter(Limit, WindowMs),
                     faucet |-> NewLimiter(FaucetLimit, FaucetWindow)]
  BY DEF Init
<1>2. limiters["relay"] = NewLimiter(Limit, WindowMs)
      /\ limiters["faucet"] = NewLimiter(FaucetLimit, FaucetWindow)
      /\ DOMAIN limiters = By
  BY <1>1 DEF By
<1>3. \A by \in By : limiters[by] = NewLimiter(LimitOf(by), LengthOf(by))
  BY <1>2 DEF By, LimitOf, LengthOf
<1>4. \A by \in By : /\ DOMAIN limiters[by] = Fields /\ limiters[by].sinceSweep = 0
                     /\ limiters[by].limit = LimitOf(by) /\ limiters[by].windowMs = LengthOf(by)
                     /\ limiters[by].windows = <<>>
  <2>1. \A limit, windowMs :
          LET new == NewLimiter(limit, windowMs)
          IN  /\ DOMAIN new = Fields /\ new.sinceSweep = 0 /\ new.limit = limit
              /\ new.windowMs = windowMs /\ new.windows = <<>>
    BY DEF NewLimiter, Fields
  <2> QED
    BY <1>3, <2>1
<1>5. LimiterTypes
  BY <1>1, <1>2, <1>4, FS_EmptySet DEF LimiterTypes
<1>6. \A by \in By, key \in Keys : Window(by, key) = <<>>
  BY <1>4 DEF Window, WindowOf
<1>7. WindowsFit
  <2>1. <<>> \in Seq(Int) /\ Len(<<>>) = 0
    OBVIOUS
  <2>2. \A by \in By : 0 <= LimitOf(by)
    BY LimitsAre
  <2> QED
    BY <1>6, <2>1, <2>2 DEF WindowsFit
<1>8. WindowsMissNoHit
  <2>1. ASSUME NEW by \in By, NEW key \in Keys, NEW t \in Int
        PROVE  Cardinality(HitsAfter(by, key, t)) <= Cardinality(After(Window(by, key), t))
    <3>1. HitsAfter(by, key, t) = {} /\ After(Window(by, key), t) = {}
      BY <1>1, <1>6 DEF HitsAfter, After
    <3> QED
      BY <3>1, FS_EmptySet
  <2> QED
    BY <2>1 DEF WindowsMissNoHit
<1>9. RefusedAreFull /\ LimitInEveryWindow /\ RetryAfterIsEnough
  BY <1>1 DEF RefusedAreFull, LimitInEveryWindow, RetryAfterIsEnough
<1> QED
  BY <1>5, <1>7, <1>8, <1>9 DEF LimiterInv

\* Time passes: what a window must not miss gets less.
LEMMA TickKeepsLimiter == LimiterInv /\ Tick => LimiterInv'
<1> SUFFICES ASSUME LimiterInv, Tick PROVE LimiterInv'
  OBVIOUS
<1>1. /\ clock' = clock + 1 /\ clock \in Nat /\ clock' \in Nat
      /\ limiters' = limiters /\ allowed' = allowed /\ refused' = refused
  BY DEF Tick, LimiterInv, LimiterTypes
<1>2. LimiterTypes'
  <2>1. \A n \in Nat : n <= clock => n <= clock + 1
    BY <1>1
  <2> QED
    BY <1>1, <2>1 DEF LimiterInv, LimiterTypes
<1>3. WindowsFit'
  BY <1>1 DEF LimiterInv, WindowsFit, Window
<1>4. WindowsMissNoHit'
  <2>1. ASSUME NEW by \in By, NEW key \in Keys, NEW t \in Int
        PROVE  HitsAfter(by, key, t)' = HitsAfter(by, key, t) /\ Window(by, key)' = Window(by, key)
    BY <1>1 DEF HitsAfter, Window
  <2>2. ASSUME NEW by \in By, NEW key \in Keys, NEW t \in Int, t >= clock' - LengthOf(by)
        PROVE  Cardinality(HitsAfter(by, key, t)) <= Cardinality(After(Window(by, key), t))
    <3>1. t >= clock - LengthOf(by)
      <4>1. LengthOf(by) \in Nat /\ clock \in Nat /\ clock' = clock + 1
        BY <1>1, LimitsAre
      <4>2. t >= (clock + 1) - LengthOf(by)
        BY <2>2, <4>1
      <4> QED
        BY <4>1, <4>2
    <3> QED
      BY <3>1 DEF LimiterInv, WindowsMissNoHit
  <2>3. \A by \in By, key \in Keys, t \in Int :
          t >= clock' - LengthOf(by) =>
            Cardinality(HitsAfter(by, key, t)') <= Cardinality(After(Window(by, key)', t))
    BY <2>1, <2>2
  <2> QED
    BY <2>3 DEF WindowsMissNoHit, HitsAfter, Window, After
<1>5. RefusedAreFull'
  <2>1. \A no \in refused : no.at # clock + 1
    BY <1>1 DEF LimiterInv, LimiterTypes
  <2> QED
    BY <1>1, <2>1 DEF RefusedAreFull
<1>6. LimitInEveryWindow' /\ RetryAfterIsEnough'
  BY <1>1 DEF LimiterInv, LimitInEveryWindow, RetryAfterIsEnough
<1> QED
  BY <1>2, <1>3, <1>4, <1>5, <1>6 DEF LimiterInv

LEMMA LimiterStays ==
  LimiterInv /\ UNCHANGED <<clock, limiters, allowed, refused>> => LimiterInv'
BY DEF LimiterInv, LimiterTypes, WindowsFit, WindowsMissNoHit, RefusedAreFull,
       LimitInEveryWindow, RetryAfterIsEnough, Window, HitsAfter

LEMMA AppendAfter ==
  ASSUME NEW s \in Seq(Int), NEW at \in Int, NEW t \in Int
  PROVE  /\ Append(s, at) \in Seq(Int) /\ Len(Append(s, at)) = Len(s) + 1
         /\ Cardinality(After(Append(s, at), t))
              = IF at > t THEN Cardinality(After(s, t)) + 1 ELSE Cardinality(After(s, t))
<1> DEFINE longer == Append(s, at)
           new == Len(s) + 1
<1>1. /\ longer \in Seq(Int) /\ Len(longer) = new /\ Len(s) \in Nat
      /\ \A i \in 1..Len(s) : longer[i] = s[i]
      /\ longer[new] = at
  OBVIOUS
<1> HIDE DEF longer
<1>2. new \in Nat /\ \A i \in 1..new : i \in 1..Len(s) \/ i = new
  BY <1>1
<1>3. new \notin After(s, t) /\ 1..Len(s) \subseteq 1..new /\ new \in 1..new
  BY <1>1 DEF After
<1>4. After(longer, t) = IF at > t THEN After(s, t) \cup {new} ELSE After(s, t)
  <2>1. ASSUME NEW i \in After(longer, t)
        PROVE  i \in After(s, t) \/ (at > t /\ i = new)
    BY <1>1, <1>2, <2>1 DEF After
  <2>2. ASSUME NEW i \in After(s, t) PROVE i \in After(longer, t)
    BY <1>1, <1>3, <2>2 DEF After
  <2>3. at > t => new \in After(longer, t)
    BY <1>1, <1>3 DEF After
  <2> HIDE DEF new
  <2> QED
    BY <2>1, <2>2, <2>3
<1>5. IsFiniteSet(After(s, t))
  BY AfterIsFinite
<1>6. Cardinality(After(s, t) \cup {new}) = Cardinality(After(s, t)) + 1
  BY <1>3, <1>5, FS_AddElement
<1> QED
  BY <1>1, <1>4, <1>6 DEF longer

\* A window whose first hit still counts is not touched by pruning.
LEMMA FreshStays ==
  ASSUME NEW limiter, NEW key, NEW at \in Int, limiter.windowMs \in Int,
         NEW s \in Seq(Int), s = WindowOf(limiter.windows, key), Len(s) > 0,
         s[1] > at - limiter.windowMs
  PROVE  WindowOf(Kept(limiter, at), key) = s /\ Pruned(limiter, key, at) = s
<1> DEFINE threshold == at - limiter.windowMs
           alive == {i \in DOMAIN s : s[i] > threshold}
<1>1. Len(s) \in Nat /\ DOMAIN s = 1..Len(s) /\ threshold \in Int /\ s # <<>>
  OBVIOUS
<1>2. 1 \in alive /\ alive \subseteq Nat /\ alive # {} /\ \A i \in alive : 1 <= i
  BY <1>1
<1>3. Min(alive) = 1
  <2> HIDE DEF alive
  <2>1. Min(alive) \in alive /\ Min(alive) <= 1
    BY <1>2, MinIsLeast
  <2>2. Min(alive) \in Nat /\ 1 <= Min(alive)
    BY <1>2, <2>1
  <2> QED
    BY <2>1, <2>2
<1>4. Prune(s, threshold) = s
  <2>1. Prune(s, threshold) = SubSeq(s, 1, Len(s))
    BY <1>2, <1>3 DEF Prune
  <2> QED
    BY <2>1
<1>5. key \in DOMAIN limiter.windows /\ s = limiter.windows[key]
  BY <1>1 DEF WindowOf
<1> HIDE DEF threshold
<1>6. /\ key \in DOMAIN Sweep(limiter.windows, threshold)
      /\ Sweep(limiter.windows, threshold)[key] = s
  BY <1>1, <1>4, <1>5 DEF Sweep
<1>7. key \in DOMAIN Kept(limiter, at) /\ Kept(limiter, at)[key] = s
  BY <1>5, <1>6 DEF Kept, threshold
<1> QED
  BY <1>4, <1>7 DEF WindowOf, Pruned, threshold

\* A request arrives: its limiter counts one hit of its key, if there is room.
LEMMA ArriveIs ==
  ASSUME LimiterInv, NEW r \in Requests, Arrive(r)
  PROVE  LET by == Limiter(r)
             key == Client[r]
             p == Pruned(limiters[by], key, clock)
             room == Len(p) < LimitOf(by)
         IN  /\ by \in By /\ key \in Keys
             /\ \A b \in By, k \in Keys :
                  Window(b, k)' = IF b # by THEN Window(b, k)
                                  ELSE IF k # key THEN WindowOf(Kept(limiters[by], clock), k)
                                  ELSE IF room THEN Append(p, clock) ELSE p
             /\ IF room
                  THEN /\ allowed' = allowed \cup {[by |-> by, key |-> key, at |-> clock,
                                                    request |-> r]}
                       /\ refused' = refused
                  ELSE /\ allowed' = allowed
                       /\ \E reset \in Int :
                            /\ refused' = refused \cup {[by |-> by, key |-> key, at |-> clock,
                                                         reset |-> reset]}
                            /\ LET until == p[1] + LengthOf(by) - clock
                               IN  reset = IF until > 1 THEN until ELSE 1
             /\ clock' = clock
             /\ DOMAIN limiters' = By
             /\ \A b \in By :
                  /\ DOMAIN limiters'[b] = Fields /\ limiters'[b].sinceSweep \in Nat
                  /\ limiters'[b].limit = LimitOf(b) /\ limiters'[b].windowMs = LengthOf(b)
<1> DEFINE by == Limiter(r)
           key == Client[r]
           limiter == limiters[by]
           p == Pruned(limiter, key, clock)
           hit == Hit(limiter, key, clock)
           room == Len(p) < LimitOf(by)
<1>1. by \in By /\ key \in Keys
  BY DEF Limiter, By, Keys
<1>2. /\ clock \in Nat /\ clock \in Int /\ DOMAIN limiters = By
      /\ DOMAIN limiter = Fields /\ limiter.sinceSweep \in Nat
      /\ limiter.limit = LimitOf(by) /\ limiter.windowMs = LengthOf(by)
  BY <1>1 DEF LimiterInv, LimiterTypes
<1>3. /\ limiters' = [limiters EXCEPT ![by] = hit.limiter] /\ clock' = clock
      /\ \/ /\ ~hit.allowed /\ allowed' = allowed
            /\ refused' = refused \cup {[by |-> by, key |-> key, at |-> clock,
                                         reset |-> hit.resetSeconds]}
         \/ /\ hit.allowed /\ refused' = refused
            /\ allowed' = allowed \cup {[by |-> by, key |-> key, at |-> clock, request |-> r]}
  BY DEF Arrive, Verdict
<1> HIDE DEF by, key, limiter
<1>4. /\ DOMAIN hit.limiter = Fields
      /\ hit.limiter.limit = limiter.limit /\ hit.limiter.windowMs = limiter.windowMs
      /\ hit.limiter.sinceSweep \in Nat
      /\ hit.allowed = (Len(p) < limiter.limit)
      /\ WindowOf(hit.limiter.windows, key) = IF hit.allowed THEN Append(p, clock) ELSE p
      /\ \A k : k # key => WindowOf(hit.limiter.windows, k) = WindowOf(Kept(limiter, clock), k)
      /\ ~hit.allowed =>
           hit.resetSeconds = IF p[1] + limiter.windowMs - clock > 1
                                THEN p[1] + limiter.windowMs - clock ELSE 1
  BY <1>2, HitIs
<1> HIDE DEF hit, p
<1>5. hit.allowed = room
  BY <1>2, <1>4
<1>6. /\ DOMAIN limiters' = By /\ limiters'[by] = hit.limiter
      /\ \A b \in By : b # by => limiters'[b] = limiters[b]
  BY <1>1, <1>2, <1>3
<1>7. \A b \in By :
        /\ DOMAIN limiters'[b] = Fields /\ limiters'[b].sinceSweep \in Nat
        /\ limiters'[b].limit = LimitOf(b) /\ limiters'[b].windowMs = LengthOf(b)
  BY <1>2, <1>4, <1>6 DEF LimiterInv, LimiterTypes
<1>8. ASSUME NEW b \in By, NEW k \in Keys
      PROVE  Window(b, k)' = IF b # by THEN Window(b, k)
                             ELSE IF k # key THEN WindowOf(Kept(limiter, clock), k)
                             ELSE IF room THEN Append(p, clock) ELSE p
  BY <1>4, <1>5, <1>6 DEF Window
<1>9. ASSUME ~room
      PROVE  /\ hit.resetSeconds \in Int
             /\ hit.resetSeconds = IF p[1] + LengthOf(by) - clock > 1
                                     THEN p[1] + LengthOf(by) - clock ELSE 1
  <2>1. p \in Seq(Int) /\ Len(p) >= 1
    <3>1. WindowOf(limiter.windows, key) \in Seq(Int) /\ LengthOf(by) \in Int /\ LimitOf(by) \in Nat
          /\ LimitOf(by) >= 1
      BY <1>1, LimitsAre DEF LimiterInv, WindowsFit, Window, limiter
    <3>2. p \in Seq(Int)
      BY <1>2, <3>1, PrunedCovers DEF Covers, p
    <3>3. Len(p) \in Nat
      BY <3>2
    <3> QED
      BY <1>9, <3>1, <3>2, <3>3
  <2>2. p[1] \in Int /\ LengthOf(by) \in Nat
    BY <1>1, <2>1, LimitsAre
  <2>3. p[1] + LengthOf(by) - clock \in Int
    BY <1>2, <2>2
  <2>4. hit.resetSeconds = IF p[1] + LengthOf(by) - clock > 1
                             THEN p[1] + LengthOf(by) - clock ELSE 1
    <3>1. ~hit.allowed
      BY <1>5, <1>9
    <3>2. hit.resetSeconds = IF p[1] + limiter.windowMs - clock > 1
                               THEN p[1] + limiter.windowMs - clock ELSE 1
      BY <1>4, <3>1
    <3>3. limiter.windowMs = LengthOf(by)
      BY <1>2
    <3> QED
      BY <3>2, <3>3
  <2> QED
    BY <2>3, <2>4
<1>10. IF room
         THEN /\ allowed' = allowed \cup {[by |-> by, key |-> key, at |-> clock, request |-> r]}
              /\ refused' = refused
         ELSE /\ allowed' = allowed
              /\ \E reset \in Int :
                   /\ refused' = refused \cup {[by |-> by, key |-> key, at |-> clock,
                                                reset |-> reset]}
                   /\ LET until == p[1] + LengthOf(by) - clock
                      IN  reset = IF until > 1 THEN until ELSE 1
  BY <1>3, <1>5, <1>9
<1> QED
  BY <1>1, <1>3, <1>6, <1>7, <1>8, <1>10 DEF by, key, limiter, p

LEMMA ArriveKeepsLimiter ==
  ASSUME LimiterInv, NEW r \in Requests, Arrive(r)
  PROVE  LimiterInv'
<1> DEFINE by == Limiter(r)
           key == Client[r]
           p == Pruned(limiters[by], key, clock)
           room == Len(p) < LimitOf(by)
           mark == [by |-> by, key |-> key, at |-> clock, request |-> r]
           from(b) == clock - LengthOf(b)
           kept(b, k) == IF b # by THEN Window(b, k)
                         ELSE IF k # key THEN WindowOf(Kept(limiters[by], clock), k) ELSE p
<1>1. /\ by \in By /\ key \in Keys /\ clock \in Nat /\ clock' = clock
      /\ \A b \in By : LimitOf(b) \in Nat /\ LimitOf(b) >= 1
                       /\ LengthOf(b) \in Nat /\ LengthOf(b) >= 1 /\ from(b) \in Int
  <2>1. by \in By /\ key \in Keys /\ clock' = clock
    BY ArriveIs
  <2>2. clock \in Nat
    BY DEF LimiterInv, LimiterTypes
  <2> QED
    BY <2>1, <2>2, LimitsAre
<1>2. \A b \in By, k \in Keys :
        Window(b, k)' = IF b = by /\ k = key /\ room THEN Append(kept(b, k), clock) ELSE kept(b, k)
  <2>1. \A b \in By, k \in Keys :
          Window(b, k)' = IF b # by THEN Window(b, k)
                          ELSE IF k # key THEN WindowOf(Kept(limiters[by], clock), k)
                          ELSE IF room THEN Append(p, clock) ELSE p
    BY ArriveIs
  <2> HIDE DEF by, key, p, room
  <2> QED
    BY <2>1
<1>3. IF room
        THEN allowed' = allowed \cup {mark} /\ refused' = refused
        ELSE /\ allowed' = allowed
             /\ \E reset \in Int :
                  /\ refused' = refused \cup {[by |-> by, key |-> key, at |-> clock,
                                               reset |-> reset]}
                  /\ reset = IF p[1] + LengthOf(by) - clock > 1
                               THEN p[1] + LengthOf(by) - clock ELSE 1
  BY ArriveIs
<1>4. /\ DOMAIN limiters' = By
      /\ \A b \in By :
           /\ DOMAIN limiters'[b] = Fields /\ limiters'[b].sinceSweep \in Nat
           /\ limiters'[b].limit = LimitOf(b) /\ limiters'[b].windowMs = LengthOf(b)
  BY ArriveIs
<1>5. \A b \in By, k \in Keys :
        Window(b, k) \in Seq(Int) /\ Len(Window(b, k)) \in Nat /\ Len(Window(b, k)) <= LimitOf(b)
  <2>1. \A b \in By, k \in Keys :
          Window(b, k) \in Seq(Int) /\ Len(Window(b, k)) <= LimitOf(b)
    BY DEF LimiterInv, WindowsFit
  <2>2. \A s \in Seq(Int) : Len(s) \in Nat
    OBVIOUS
  <2> QED
    BY <2>1, <2>2
<1>6. /\ \A b \in By, k \in Keys : Covers(kept(b, k), Window(b, k), from(b))
      /\ p # <<>> => p[1] > from(by)
  <2>1. limiters[by].windowMs = LengthOf(by) /\ LengthOf(by) \in Int
    BY <1>1 DEF LimiterInv, LimiterTypes
  <2> DEFINE limiter == limiters[by]
  <2>2. ASSUME NEW k \in Keys
        PROVE  WindowOf(limiter.windows, k) = Window(by, k) /\ Window(by, k) \in Seq(Int)
    BY <1>1, <1>5 DEF Window
  <2> HIDE DEF by, key, limiter
  <2>3. \A k \in Keys : Covers(WindowOf(Kept(limiter, clock), k), Window(by, k), from(by))
    <3> TAKE k \in Keys
    <3>1. limiter.windowMs = LengthOf(by) /\ clock \in Int
      BY <1>1, <2>1 DEF limiter
    <3> QED
      BY <2>1, <2>2, <3>1, KeptCovers
  <2>4. Covers(p, Window(by, key), from(by)) /\ (p # <<>> => p[1] > from(by))
    <3>1. limiter.windowMs = LengthOf(by) /\ clock \in Int /\ p = Pruned(limiter, key, clock)
      BY <1>1, <2>1 DEF limiter
    <3> HIDE DEF p
    <3> QED
      BY <1>1, <2>1, <2>2, <3>1, PrunedCovers
  <2>5. \A b \in By, k \in Keys : Covers(Window(b, k), Window(b, k), from(b))
    BY <1>5, CoversItself
  <2> HIDE DEF p, from
  <2> QED
    BY <2>3, <2>4, <2>5 DEF limiter
<1> HIDE DEF by, key, p, kept
<1>7. \A b \in By, k \in Keys :
        /\ kept(b, k) \in Seq(Int) /\ Len(kept(b, k)) \in Nat /\ Len(kept(b, k)) <= LimitOf(b)
        /\ \A t \in Int : t >= from(b) =>
             Cardinality(After(Window(b, k), t)) <= Cardinality(After(kept(b, k), t))
  <2> TAKE b \in By, k \in Keys
  <2>1. /\ kept(b, k) \in Seq(Int) /\ Len(kept(b, k)) <= Len(Window(b, k))
        /\ \A t \in Int : t >= from(b) =>
             Cardinality(After(Window(b, k), t)) <= Cardinality(After(kept(b, k), t))
    BY <1>6 DEF Covers
  <2>2. Len(kept(b, k)) \in Nat
    BY <2>1
  <2> QED
    BY <1>1, <1>5, <2>1, <2>2
<1>8. kept(by, key) = p
  BY DEF kept
<1>9. p \in Seq(Int) /\ Len(p) \in Nat /\ Len(p) <= LimitOf(by)
  BY <1>1, <1>7, <1>8
<1>10. mark.by = by /\ mark.key = key /\ mark.at = clock
  OBVIOUS
\* Where a hit was just refused, nothing changes, and there is no room.
<1>11. ASSUME NEW no \in refused, no.at = clock
       PROVE  /\ kept(no.by, no.key) = Window(no.by, no.key)
              /\ LimitOf(no.by) <= Len(Window(no.by, no.key))
              /\ Window(no.by, no.key)[1] > from(no.by)
              /\ room => ~(no.by = by /\ no.key = key)
  <2> DEFINE s == Window(no.by, no.key)
  <2>1. no.by \in By /\ no.key \in Keys
    BY DEF LimiterInv, LimiterTypes
  <2>2. LimitOf(no.by) <= Len(s) /\ s[1] > from(no.by)
    BY <1>11 DEF LimiterInv, RefusedAreFull
  <2>3. s \in Seq(Int) /\ Len(s) \in Nat /\ Len(s) > 0
    BY <1>1, <1>5, <2>1, <2>2
  <2>4. CASE no.by = by
    <3>1. /\ limiters[by].windowMs = LengthOf(by) /\ limiters[by].windowMs \in Int
          /\ clock \in Int
      BY <1>1 DEF LimiterInv, LimiterTypes
    <3>2. s = WindowOf(limiters[by].windows, no.key)
      BY <2>4 DEF Window
    <3>3. s[1] > clock - limiters[by].windowMs
      BY <2>2, <2>4, <3>1
    <3> HIDE DEF s
    <3>4. WindowOf(Kept(limiters[by], clock), no.key) = s
          /\ Pruned(limiters[by], no.key, clock) = s
      BY <2>3, <3>1, <3>2, <3>3, FreshStays
    <3>5. kept(no.by, no.key) = s
      BY <2>4, <3>4 DEF kept, p
    <3>6. no.key = key => ~room
      <4>1. no.key = key => p = s /\ LimitOf(by) <= Len(s)
        BY <2>2, <2>4, <3>4 DEF p, s
      <4>2. LimitOf(by) <= Len(s) => ~(Len(s) < LimitOf(by))
        BY <1>1, <2>3
      <4> QED
        BY <4>1, <4>2 DEF room
    <3> QED
      BY <2>2, <3>5, <3>6 DEF s
  <2>5. CASE no.by # by
    BY <2>2, <2>5 DEF kept
  <2> QED
    BY <2>4, <2>5
<1>12. room => Len(p) + 1 <= LimitOf(by)
  BY <1>1, <1>9
<1>13. ~room => Len(p) = LimitOf(by) /\ Len(p) >= 1 /\ p # <<>>
  <2>1. ~room => Len(p) = LimitOf(by) /\ Len(p) >= 1
    BY <1>1, <1>9
  <2> QED
    BY <2>1
<1> HIDE DEF room, mark
<1>14. LimiterTypes'
  <2>1. CASE room
    <3>1. IsFiniteSet(allowed')
      BY <1>3, <2>1, FS_AddElement DEF LimiterInv, LimiterTypes
    <3>2. clock <= clock
      BY <1>1
    <3>3. \A h \in allowed' : h.by \in By /\ h.key \in Keys /\ h.at \in Nat /\ h.at <= clock
      BY <1>1, <1>3, <1>10, <2>1, <3>2 DEF LimiterInv, LimiterTypes
    <3> QED
      BY <1>1, <1>3, <1>4, <2>1, <3>1, <3>3 DEF LimiterInv, LimiterTypes
  <2>2. CASE ~room
    <3>1. PICK reset \in Int :
            refused' = refused \cup {[by |-> by, key |-> key, at |-> clock, reset |-> reset]}
      BY <1>3, <2>2
    <3>2. clock <= clock
      BY <1>1
    <3>3. \A no \in refused' : /\ no.by \in By /\ no.key \in Keys /\ no.at \in Nat
                               /\ no.at <= clock /\ no.reset \in Int
      BY <1>1, <3>1, <3>2 DEF LimiterInv, LimiterTypes
    <3> QED
      BY <1>1, <1>3, <1>4, <2>2, <3>3 DEF LimiterInv, LimiterTypes
  <2> QED
    BY <2>1, <2>2
<1>15. \A b \in By, k \in Keys : Window(b, k)' \in Seq(Int) /\ Len(Window(b, k)') <= LimitOf(b)
  <2> TAKE b \in By, k \in Keys
  <2>1. CASE b = by /\ k = key /\ room
    <3>1. Window(b, k)' = Append(p, clock) /\ clock \in Int
      BY <1>1, <1>2, <1>8, <2>1
    <3> QED
      BY <1>9, <1>12, <2>1, <3>1, AppendAfter
  <2>2. CASE ~(b = by /\ k = key /\ room)
    BY <1>2, <1>7, <2>2
  <2> QED
    BY <2>1, <2>2
<1>16. WindowsFit'
  BY <1>15 DEF WindowsFit
\* The hits that count and the window grow by the same hit.
<1>17. ASSUME NEW b \in By, NEW k \in Keys, NEW t \in Int, t >= from(b)
       PROVE  Cardinality(HitsAfter(b, k, t)') <= Cardinality(After(Window(b, k)', t))
  <2>1. /\ Cardinality(HitsAfter(b, k, t)) <= Cardinality(After(Window(b, k), t))
        /\ Cardinality(After(Window(b, k), t)) <= Cardinality(After(kept(b, k), t))
    BY <1>7, <1>17 DEF LimiterInv, WindowsMissNoHit, from
  <2>2. /\ IsFiniteSet(HitsAfter(b, k, t)) /\ Cardinality(HitsAfter(b, k, t)) \in Nat
        /\ Cardinality(After(Window(b, k), t)) \in Nat /\ Cardinality(After(kept(b, k), t)) \in Nat
    BY <1>5, <1>7, HitsAreFinite, AfterIsFinite DEF LimiterInv
  <2>3. CASE b = by /\ k = key /\ room /\ clock > t
    <3>1. HitsAfter(b, k, t)' = HitsAfter(b, k, t) \cup {mark}
      BY <1>3, <1>10, <2>3 DEF HitsAfter
    <3>2. Cardinality(HitsAfter(b, k, t)') <= Cardinality(HitsAfter(b, k, t)) + 1
      <4>1. Cardinality(HitsAfter(b, k, t) \cup {mark})
              = IF mark \in HitsAfter(b, k, t) THEN Cardinality(HitsAfter(b, k, t))
                                               ELSE Cardinality(HitsAfter(b, k, t)) + 1
        BY <2>2, FS_AddElement
      <4> QED
        BY <2>2, <3>1, <4>1
    <3>3. Cardinality(After(Window(b, k)', t)) = Cardinality(After(kept(b, k), t)) + 1
      <4>1. Window(b, k)' = Append(p, clock) /\ kept(b, k) = p /\ clock \in Int
        BY <1>1, <1>2, <1>8, <2>3
      <4> QED
        BY <1>9, <2>3, <4>1, AppendAfter
    <3>4. Cardinality(HitsAfter(b, k, t)') \in Nat
      <4>1. Cardinality(HitsAfter(b, k, t) \cup {mark})
              = IF mark \in HitsAfter(b, k, t) THEN Cardinality(HitsAfter(b, k, t))
                                               ELSE Cardinality(HitsAfter(b, k, t)) + 1
        BY <2>2, FS_AddElement
      <4> QED
        BY <2>2, <3>1, <4>1
    <3> QED
      BY <2>1, <2>2, <3>2, <3>3, <3>4
  <2>4. CASE ~(b = by /\ k = key /\ room /\ clock > t)
    <3>1. HitsAfter(b, k, t)' = HitsAfter(b, k, t)
      BY <1>3, <1>10, <2>4 DEF HitsAfter
    <3>2. Cardinality(After(Window(b, k)', t)) = Cardinality(After(kept(b, k), t))
      <4>1. CASE b = by /\ k = key /\ room
        <5>1. Window(b, k)' = Append(p, clock) /\ kept(b, k) = p /\ clock \in Int /\ ~(clock > t)
          BY <1>1, <1>2, <1>8, <2>4, <4>1
        <5> QED
          BY <1>9, <5>1, AppendAfter
      <4>2. CASE ~(b = by /\ k = key /\ room)
        BY <1>2, <4>2
      <4> QED
        BY <4>1, <4>2
    <3> QED
      BY <2>1, <2>2, <3>1, <3>2
  <2> QED
    BY <2>3, <2>4
<1>counted. ASSUME NEW b \in By, NEW k \in Keys, NEW t \in Int, t >= from(b)
            PROVE  Cardinality({h \in allowed' : h.by = b /\ h.key = k /\ h.at > t})
                     <= Cardinality(After(Window(b, k)', t))
  BY <1>17, <1>counted DEF HitsAfter
<1>18. WindowsMissNoHit'
  BY <1>1, <1>17 DEF WindowsMissNoHit, HitsAfter, Window, After, from
<1>19. ASSUME NEW no \in refused', no.at = clock
       PROVE  /\ LimitOf(no.by) <= Len(Window(no.by, no.key)')
              /\ Window(no.by, no.key)'[1] > from(no.by)
  <2>1. CASE no \in refused
    <3>1. no.by \in By /\ no.key \in Keys
      BY <2>1 DEF LimiterInv, LimiterTypes
    <3>2. Window(no.by, no.key)' = kept(no.by, no.key)
      BY <1>2, <1>11, <1>19, <2>1, <3>1
    <3> QED
      BY <1>11, <1>19, <2>1, <3>2
  <2>2. CASE no \notin refused
    <3>1. ~room /\ no.by = by /\ no.key = key
      BY <1>3, <2>2
    <3>2. Window(by, key)' = p
      BY <1>1, <1>2, <1>8, <3>1
    <3> QED
      BY <1>1, <1>6, <1>13, <3>1, <3>2
  <2> QED
    BY <2>1, <2>2
<1>20. RefusedAreFull'
  BY <1>1, <1>19 DEF RefusedAreFull, Window, from
\* A hit of now counts as many as its window holds; the earlier ones see nothing of the step.
<1>21. ASSUME NEW hit \in allowed'
       PROVE  LimitHolds(allowed', hit)
  <2>1. hit.by \in By /\ hit.key \in Keys /\ hit.at \in Nat /\ hit.at <= clock
    BY <1>1, <1>14 DEF LimiterTypes
  <2>2. CASE hit.at = clock
    <3> DEFINE now == {h \in allowed' : /\ h.by = hit.by /\ h.key = hit.key
                                        /\ hit.at - LengthOf(hit.by) < h.at /\ h.at <= hit.at}
               hits == {h \in allowed' : h.by = hit.by /\ h.key = hit.key /\ h.at > from(hit.by)}
               window == Window(hit.by, hit.key)'
    <3>1. from(hit.by) \in Int /\ from(hit.by) = hit.at - LengthOf(hit.by)
      BY <1>1, <2>1, <2>2 DEF from
    <3>2. from(hit.by) >= from(hit.by)
      BY <3>1
    <3>3. Cardinality(hits) <= Cardinality(After(window, from(hit.by)))
      BY <1>counted, <2>1, <3>1, <3>2
    <3>4. /\ Cardinality(After(window, from(hit.by))) <= LimitOf(hit.by)
          /\ Cardinality(After(window, from(hit.by))) \in Nat
      <4>1. window \in Seq(Int) /\ Len(window) <= LimitOf(hit.by)
        BY <1>15, <2>1
      <4>2. /\ Cardinality(After(window, from(hit.by))) \in Nat
            /\ Cardinality(After(window, from(hit.by))) <= Len(window)
        BY <3>1, <4>1, AfterIsFinite
      <4>3. Len(window) \in Nat /\ LimitOf(hit.by) \in Nat
        BY <1>1, <2>1, <4>1
      <4> QED
        BY <4>1, <4>2, <4>3
    <3>5. now \subseteq hits /\ hits \subseteq allowed'
      <4>1. \A h \in allowed' : h.at \in Nat
        BY <1>14 DEF LimiterTypes
      <4>2. \A h \in allowed' :
              hit.at - LengthOf(hit.by) < h.at => h.at > from(hit.by)
        BY <3>1, <4>1
      <4> QED
        BY <4>2
    <3>6. IsFiniteSet(hits) /\ Cardinality(now) <= Cardinality(hits)
          /\ Cardinality(now) \in Nat /\ Cardinality(hits) \in Nat
      <4> HIDE DEF now, hits
      <4>1. IsFiniteSet(allowed')
        BY <1>14 DEF LimiterTypes
      <4>2. IsFiniteSet(hits)
        BY <3>5, <4>1, FS_Subset
      <4>3. IsFiniteSet(now) /\ Cardinality(now) <= Cardinality(hits)
        BY <3>5, <4>2, FS_Subset
      <4> QED
        BY <4>2, <4>3, FS_CardinalityType
    <3>7. Cardinality(now) <= LimitOf(hit.by)
      <4> HIDE DEF now, hits, window, from
      <4> QED
        BY <1>1, <2>1, <3>3, <3>4, <3>6
    <3> QED
      BY <3>7 DEF LimitHolds
  <2>3. CASE hit.at # clock
    <3>1. hit.at < clock
      BY <1>1, <2>1, <2>3
    <3>2. hit \in allowed
      BY <1>3, <1>10, <2>3
    <3>3. LimitHolds(allowed, hit)
      BY <3>2, PropertiesAre DEF LimiterInv
    <3>4. {h \in allowed' : /\ h.by = hit.by /\ h.key = hit.key
                            /\ hit.at - LengthOf(hit.by) < h.at /\ h.at <= hit.at}
            = {h \in allowed : /\ h.by = hit.by /\ h.key = hit.key
                               /\ hit.at - LengthOf(hit.by) < h.at /\ h.at <= hit.at}
      <4>1. ~(mark.at <= hit.at)
        BY <1>1, <1>10, <2>1, <3>1
      <4>2. allowed' = allowed \/ allowed' = allowed \cup {mark}
        BY <1>3
      <4> QED
        BY <4>1, <4>2
    <3> QED
      BY <3>3, <3>4 DEF LimitHolds
  <2> QED
    BY <2>2, <2>3
<1>22. LimitInEveryWindow'
  BY <1>14, <1>21, PropertiesAreNext
\* A refusal of now is told to wait until the first hit of a full window leaves it; those told
\* before wait for hits that nothing was added to.
<1>23. ASSUME NEW no \in refused'
       PROVE  RetryHolds(allowed', no)
  <2>1. /\ no.by \in By /\ no.key \in Keys /\ no.at \in Nat /\ no.at <= clock
        /\ no.reset \in Int
    BY <1>1, <1>14 DEF LimiterTypes
  <2>2. CASE no \in refused
    <3>1. RetryHolds(allowed, no)
      BY <2>2, PropertiesAre DEF LimiterInv
    <3>2. {h \in allowed' : /\ h.by = no.by /\ h.key = no.key /\ h.at <= no.at
                            /\ h.at > no.at + no.reset - LengthOf(no.by)}
            = {h \in allowed : /\ h.by = no.by /\ h.key = no.key /\ h.at <= no.at
                               /\ h.at > no.at + no.reset - LengthOf(no.by)}
      <4>1. allowed' = allowed \/ (room /\ allowed' = allowed \cup {mark})
        BY <1>3
      <4>2. room => ~(mark.by = no.by /\ mark.key = no.key /\ mark.at <= no.at)
        <5>1. CASE no.at = clock
          BY <1>10, <1>11, <2>2, <5>1
        <5>2. CASE no.at # clock
          BY <1>1, <1>10, <2>1, <5>2
        <5> QED
          BY <5>1, <5>2
      <4> QED
        BY <4>1, <4>2
    <3> QED
      BY <3>1, <3>2 DEF RetryHolds
  <2>3. CASE no \notin refused
    <3> DEFINE left == {h \in allowed' : /\ h.by = no.by /\ h.key = no.key /\ h.at <= no.at
                                         /\ h.at > no.at + no.reset - LengthOf(no.by)}
               hits == {h \in allowed' : h.by = by /\ h.key = key /\ h.at > p[1]}
    <3>1. /\ ~room /\ no.by = by /\ no.key = key /\ no.at = clock
          /\ no.reset = IF p[1] + LengthOf(by) - clock > 1 THEN p[1] + LengthOf(by) - clock ELSE 1
      BY <1>3, <2>3
    <3>2. p[1] \in Int /\ p[1] > from(by) /\ p[1] >= from(by) /\ 1 \in 1..Len(p)
      <4>1. Len(p) >= 1 /\ p # <<>>
        BY <1>13, <3>1
      <4>2. 1 \in 1..Len(p) /\ p[1] \in Int
        BY <1>9, <4>1
      <4>3. p[1] > from(by) /\ from(by) \in Int
        BY <1>1, <1>6, <4>1
      <4> QED
        BY <4>2, <4>3
    <3>3. no.reset = p[1] + LengthOf(by) - clock
      <4>1. p[1] + LengthOf(by) - clock >= 1 /\ p[1] + LengthOf(by) - clock \in Int
        BY <1>1, <3>2 DEF from
      <4> QED
        BY <3>1, <4>1
    <3>4. no.at + no.reset - LengthOf(no.by) = p[1]
      BY <1>1, <3>1, <3>2, <3>3
    <3>5. left \subseteq hits /\ hits \subseteq allowed'
      BY <3>1, <3>4
    <3>6. Cardinality(hits) <= Cardinality(After(p, p[1]))
      <4>1. Window(by, key)' = p
        BY <1>1, <1>2, <1>8, <3>1
      <4> QED
        BY <1>1, <1>counted, <3>2, <4>1
    <3>7. Cardinality(After(p, p[1])) \in Nat /\ Cardinality(After(p, p[1])) <= Len(p) - 1
      <4>1. Len(p) \in Nat /\ Len(p) >= 1
        BY <1>9, <1>13, <3>1
      <4>2. After(p, p[1]) \subseteq 2..Len(p)
        <5> SUFFICES ASSUME NEW i \in After(p, p[1]) PROVE i \in 2..Len(p)
          OBVIOUS
        <5>1. i \in 1..Len(p) /\ p[i] > p[1]
          BY DEF After
        <5>2. i # 1
          BY <3>2, <5>1
        <5> QED
          BY <4>1, <5>1, <5>2
      <4>3. IsFiniteSet(2..Len(p)) /\ Cardinality(2..Len(p)) = Len(p) - 1
        <5>1. IsFiniteSet(2..Len(p))
              /\ Cardinality(2..Len(p)) = IF 2 > Len(p) THEN 0 ELSE Len(p) - 2 + 1
          BY <4>1, FS_Interval
        <5> QED
          BY <4>1, <5>1
      <4>4. IsFiniteSet(After(p, p[1])) /\ Cardinality(After(p, p[1])) <= Len(p) - 1
        BY <4>2, <4>3, FS_Subset
      <4> QED
        BY <4>4, FS_CardinalityType
    <3>8. Cardinality(left) <= Cardinality(hits) /\ Cardinality(left) \in Nat
          /\ Cardinality(hits) \in Nat
      <4> HIDE DEF left, hits
      <4>1. IsFiniteSet(allowed')
        BY <1>14 DEF LimiterTypes
      <4>2. IsFiniteSet(hits)
        BY <3>5, <4>1, FS_Subset
      <4>3. IsFiniteSet(left) /\ Cardinality(left) <= Cardinality(hits)
        BY <3>5, <4>2, FS_Subset
      <4> QED
        BY <4>2, <4>3, FS_CardinalityType
    <3>9. Cardinality(left) < LimitOf(no.by)
      <4>1. LimitOf(by) \in Nat /\ Len(p) = LimitOf(by)
        BY <1>1, <1>13, <3>1
      <4> HIDE DEF left, hits
      <4> QED
        BY <3>1, <3>6, <3>7, <3>8, <4>1
    <3> QED
      BY <3>9 DEF RetryHolds
  <2> QED
    BY <2>2, <2>3
<1>24. RetryAfterIsEnough'
  BY <1>14, <1>23, PropertiesAreNext
<1> QED
  BY <1>14, <1>16, <1>18, <1>20, <1>22, <1>24 DEF LimiterInv

LEMMA NextKeepsLimiter == LimiterInv /\ [Next]_vars => LimiterInv'
<1> SUFFICES ASSUME LimiterInv, [Next]_vars PROVE LimiterInv'
  OBVIOUS
<1>1. CASE Tick
  BY <1>1, TickKeepsLimiter
<1>2. ASSUME NEW r \in Requests, Arrive(r) PROVE LimiterInv'
  BY <1>2, ArriveKeepsLimiter
<1>3. ASSUME NEW r \in Requests, Handler(r) \/ Land(r) PROVE LimiterInv'
  <2>1. UNCHANGED <<clock, limiters, allowed, refused>>
    BY <1>3 DEF Handler, Answered, Build, Send, Poll, CheckHash, SendFails, RpcThrows, Land
  <2> QED
    BY <2>1, LimiterStays
<1>4. CASE UNCHANGED vars
  BY <1>4, LimiterStays DEF vars
<1> QED
  BY <1>1, <1>2, <1>3, <1>4 DEF Next

\* For every limit, window, sweep interval and interleaving of requests: no window of time
\* holds more allowed hits of a key than its limit (rate-limit.ts:42-43).
THEOREM LimitInEveryWindowCorrect == Spec => []LimitInEveryWindow
<1>1. Init => LimiterInv
  BY InitLimiter
<1>2. LimiterInv /\ [Next]_vars => LimiterInv'
  BY NextKeepsLimiter
<1>3. LimiterInv => LimitInEveryWindow
  BY DEF LimiterInv
<1> QED
  BY <1>1, <1>2, <1>3, PTL DEF Spec

\* rate-limit.ts, Retry-After: a client that waits as long as its refusal said finds room in
\* the window.
THEOREM RetryAfterIsEnoughCorrect == Spec => []RetryAfterIsEnough
<1>1. Init => LimiterInv
  BY InitLimiter
<1>2. LimiterInv /\ [Next]_vars => LimiterInv'
  BY NextKeepsLimiter
<1>3. LimiterInv => RetryAfterIsEnough
  BY DEF LimiterInv
<1> QED
  BY <1>1, <1>2, <1>3, PTL DEF Spec

-----------------------------------------------------------------------------
(* A batch on its way.                                                     *)

Members(r) == 1..Len(Batch[r])
OnItsWay == {"sending", "polling", "checking"}
LandsInOrder(r) ==
  \A i \in Members(r) : net[r][i] # "unsent" => \A j \in 1..i - 1 : net[r][j] = "confirmed"

\* A handler is at the one transaction of its batch that may be under way: before it all are
\* confirmed, after it none was sent.
BatchInv(r) ==
  /\ DOMAIN net[r] = Members(r) /\ DOMAIN job[r] = {"at", "deadline", "born"}
  /\ job[r].at \in Members(r)
  /\ phase[r] \in {"new", "building"} =>
       job[r].at = 1 /\ \A i \in Members(r) : net[r][i] = "unsent"
  /\ phase[r] \in OnItsWay =>
       \A i \in Members(r) : /\ i < job[r].at => net[r][i] = "confirmed"
                             /\ i > job[r].at => net[r][i] = "unsent"
  /\ phase[r] = "sending" => net[r][job[r].at] = "unsent"
  /\ LandsInOrder(r)
  /\ answer[r] = "ok" => phase[r] = "done" /\ \A i \in Members(r) : net[r][i] = "confirmed"
BatchesInv ==
  /\ DOMAIN phase = Requests /\ DOMAIN job = Requests
  /\ DOMAIN answer = Requests /\ DOMAIN net = Requests
  /\ \A r \in Requests : BatchInv(r)

LEMMA BatchesAre ==
  ASSUME NEW r \in Requests
  PROVE  /\ Len(Batch[r]) \in Nat /\ Len(Batch[r]) > 0 /\ 1 \in Members(r)
         /\ DOMAIN Batch[r] = Members(r)
<1>1. Batch[r] \in Seq([kind : STRING, complete : BOOLEAN]) /\ Len(Batch[r]) > 0
  BY RelayAssumption
<1> QED
  BY <1>1 DEF Members

LEMMA InitBatches == Init => BatchesInv
<1> SUFFICES ASSUME Init, NEW r \in Requests PROVE BatchInv(r)
  BY DEF Init, BatchesInv
<1>1. /\ phase[r] = "new" /\ job[r] = NoJob /\ answer[r] = "none"
      /\ net[r] = [i \in Members(r) |-> "unsent"]
  BY BatchesAre DEF Init
<1> QED
  BY <1>1, BatchesAre DEF BatchInv, LandsInOrder, NoJob, OnItsWay

\* A step of one request's handler, or of the network for it, leaves the others alone.
LEMMA OneBatchMoves ==
  ASSUME BatchesInv, NEW r \in Requests,
         DOMAIN phase' = Requests, DOMAIN job' = Requests,
         DOMAIN answer' = Requests, DOMAIN net' = Requests,
         \A q \in Requests : q # r =>
           phase'[q] = phase[q] /\ job'[q] = job[q] /\ answer'[q] = answer[q] /\ net'[q] = net[q],
         BatchInv(r)'
  PROVE  BatchesInv'
<1>1. ASSUME NEW q \in Requests, q # r PROVE BatchInv(q)'
  BY <1>1 DEF BatchesInv, BatchInv, LandsInOrder
<1> QED
  BY <1>1 DEF BatchesInv

LEMMA UnmovedBatches == BatchesInv /\ UNCHANGED <<phase, job, answer, net>> => BatchesInv'
BY DEF BatchesInv, BatchInv, LandsInOrder

\* The handler is done, with nothing new under way.
LEMMA AnswerKeepsBatches ==
  ASSUME BatchesInv, NEW r \in Requests, NEW what, Answer(r, what), UNCHANGED net,
         what = "ok" => \A i \in Members(r) : net[r][i] = "confirmed"
  PROVE  BatchesInv'
<1>1. /\ DOMAIN phase' = Requests /\ DOMAIN job' = Requests
      /\ DOMAIN answer' = Requests /\ DOMAIN net' = Requests
      /\ \A q \in Requests : q # r =>
           phase'[q] = phase[q] /\ job'[q] = job[q] /\ answer'[q] = answer[q] /\ net'[q] = net[q]
      /\ phase'[r] = "done" /\ job'[r] = NoJob /\ answer'[r] = what /\ net'[r] = net[r]
  BY DEF Answer, BatchesInv
<1>2. NoJob.at = 1 /\ DOMAIN NoJob = {"at", "deadline", "born"}
  BY DEF NoJob
<1>3. BatchInv(r)'
  BY <1>1, <1>2, BatchesAre DEF BatchesInv, BatchInv, LandsInOrder, OnItsWay
<1> QED
  BY <1>1, <1>3, OneBatchMoves

\* The handler goes on with the same transaction.
LEMMA MoveKeepsBatches ==
  ASSUME BatchesInv, NEW r \in Requests, NEW where, NEW local, Move(r, where, local), UNCHANGED net,
         phase[r] # "done", DOMAIN local = {"at", "deadline", "born"}, local.at = job[r].at,
         \/ where = "building" /\ phase[r] = "new"
         \/ where = "sending" /\ phase[r] \in {"new", "building"}
         \/ where \in {"polling", "checking"} /\ phase[r] \in {"polling", "checking"}
  PROVE  BatchesInv'
<1>1. /\ DOMAIN phase' = Requests /\ DOMAIN job' = Requests
      /\ DOMAIN answer' = Requests /\ DOMAIN net' = Requests
      /\ \A q \in Requests : q # r =>
           phase'[q] = phase[q] /\ job'[q] = job[q] /\ answer'[q] = answer[q] /\ net'[q] = net[q]
      /\ phase'[r] = where /\ job'[r] = local /\ answer'[r] = answer[r] /\ net'[r] = net[r]
  BY DEF Move, BatchesInv
<1>2. BatchInv(r)'
  <2>1. BatchInv(r)
    BY DEF BatchesInv
  <2>2. answer[r] # "ok" /\ LandsInOrder(r)'
    BY <1>1, <2>1 DEF BatchInv, LandsInOrder
  <2>3. CASE phase[r] \in {"new", "building"}
    <3>1. /\ local.at = 1 /\ 1 \in Members(r)
          /\ \A i \in Members(r) : net[r][i] = "unsent" /\ ~(i < 1)
      BY <2>1, <2>3, BatchesAre DEF BatchInv, Members
    <3> QED
      BY <1>1, <2>1, <2>2, <2>3, <3>1 DEF BatchInv, OnItsWay
  <2>4. CASE phase[r] \in {"polling", "checking"}
    BY <1>1, <2>1, <2>2, <2>4 DEF BatchInv, OnItsWay
  <2> QED
    BY <2>3, <2>4
<1> QED
  BY <1>1, <1>2, OneBatchMoves

LEMMA ArriveKeepsBatches ==
  ASSUME BatchesInv, NEW r \in Requests, Arrive(r)
  PROVE  BatchesInv'
<1>1. /\ phase[r] = "new" /\ UNCHANGED net
      /\ \/ \E what \in {"limited", "invalid"} : Answer(r, what)
         \/ Move(r, "building", NoJob)
         \/ Move(r, "sending", [NoJob EXCEPT !.born = clock])
  BY DEF Arrive
<1>2. /\ NoJob.at = 1 /\ DOMAIN NoJob = {"at", "deadline", "born"}
      /\ [NoJob EXCEPT !.born = clock].at = 1
      /\ DOMAIN [NoJob EXCEPT !.born = clock] = {"at", "deadline", "born"}
  BY DEF NoJob
<1>3. job[r].at = 1
  BY <1>1 DEF BatchesInv, BatchInv
<1>4. CASE \E what \in {"limited", "invalid"} : Answer(r, what)
  BY <1>1, <1>4, AnswerKeepsBatches
<1>5. CASE Move(r, "building", NoJob)
  BY <1>1, <1>2, <1>3, <1>5, MoveKeepsBatches
<1>6. CASE Move(r, "sending", [NoJob EXCEPT !.born = clock])
  BY <1>1, <1>2, <1>3, <1>6, MoveKeepsBatches
<1> QED
  BY <1>1, <1>4, <1>5, <1>6

LEMMA BuildKeepsBatches ==
  ASSUME BatchesInv, NEW r \in Requests, Build(r)
  PROVE  BatchesInv'
<1>1. phase[r] = "building" /\ UNCHANGED net /\ Move(r, "sending", [NoJob EXCEPT !.born = clock])
  BY DEF Build
<1>2. /\ [NoJob EXCEPT !.born = clock].at = 1
      /\ DOMAIN [NoJob EXCEPT !.born = clock] = {"at", "deadline", "born"}
  BY DEF NoJob
<1>3. job[r].at = 1
  BY <1>1 DEF BatchesInv, BatchInv
<1> QED
  BY <1>1, <1>2, <1>3, MoveKeepsBatches

\* The transaction a handler is at reaches the network, or may have: all before it are confirmed.
LEMMA SentKeepsBatches ==
  ASSUME BatchesInv, NEW r \in Requests, phase[r] = "sending", NEW what, what # "ok",
         net' \in {net, [net EXCEPT ![r][job[r].at] = "pending"]},
         \/ Answer(r, what)
         \/ Move(r, "polling", [job[r] EXCEPT !.deadline = clock + Timeout])
  PROVE  BatchesInv'
<1> DEFINE at == job[r].at
           local == [job[r] EXCEPT !.deadline = clock + Timeout]
<1>1. /\ BatchInv(r) /\ at \in Members(r) /\ DOMAIN job[r] = {"at", "deadline", "born"}
      /\ DOMAIN net[r] = Members(r) /\ LandsInOrder(r)
      /\ \A i \in Members(r) : /\ i < at => net[r][i] = "confirmed"
                               /\ i > at => net[r][i] = "unsent"
      /\ net[r][at] = "unsent" /\ answer[r] # "ok"
  BY DEF BatchesInv, BatchInv, OnItsWay
<1>2. /\ DOMAIN net' = Requests /\ DOMAIN net'[r] = Members(r)
      /\ \A q \in Requests : q # r => net'[q] = net[q]
      /\ \A i \in Members(r) : i # at => net'[r][i] = net[r][i]
  BY <1>1 DEF BatchesInv
<1>3. LandsInOrder(r)'
  <2>1. ASSUME NEW i \in Members(r), net'[r][i] # "unsent", NEW j \in 1..i - 1
        PROVE  net'[r][j] = "confirmed"
    <3>1. Len(Batch[r]) \in Nat
      BY BatchesAre
    <3>2. i <= at /\ j < at /\ j \in Members(r)
      BY <1>1, <1>2, <2>1, <3>1 DEF Members
    <3> QED
      BY <1>1, <1>2, <3>2, <3>1 DEF Members
  <2> QED
    BY <2>1 DEF LandsInOrder
<1>4. NoJob.at = 1 /\ DOMAIN NoJob = {"at", "deadline", "born"}
  BY DEF NoJob
<1>5. local.at = at /\ DOMAIN local = {"at", "deadline", "born"}
  BY <1>1
<1> HIDE DEF local
<1>6. CASE Answer(r, what)
  <2>1. /\ DOMAIN phase' = Requests /\ DOMAIN job' = Requests /\ DOMAIN answer' = Requests
        /\ \A q \in Requests : q # r =>
             phase'[q] = phase[q] /\ job'[q] = job[q] /\ answer'[q] = answer[q]
        /\ phase'[r] = "done" /\ job'[r] = NoJob /\ answer'[r] = what
    BY <1>6 DEF Answer, BatchesInv
  <2>2. BatchInv(r)'
    BY <1>2, <1>3, <1>4, <2>1, BatchesAre DEF BatchInv, OnItsWay
  <2> QED
    BY <1>2, <2>1, <2>2, OneBatchMoves
<1>7. CASE Move(r, "polling", local)
  <2>1. /\ DOMAIN phase' = Requests /\ DOMAIN job' = Requests /\ DOMAIN answer' = Requests
        /\ \A q \in Requests : q # r =>
             phase'[q] = phase[q] /\ job'[q] = job[q] /\ answer'[q] = answer[q]
        /\ phase'[r] = "polling" /\ job'[r] = local /\ answer'[r] = answer[r]
    BY <1>7 DEF Move, BatchesInv
  <2>2. \A i \in Members(r) : /\ i < at => net'[r][i] = "confirmed"
                              /\ i > at => net'[r][i] = "unsent"
    <3>1. Len(Batch[r]) \in Nat
      BY BatchesAre
    <3>2. \A i \in Members(r) : i < at \/ i > at => i # at
      BY <1>1, <3>1 DEF Members
    <3> QED
      BY <1>1, <1>2, <3>2
  <2>3. BatchInv(r)'
    BY <1>1, <1>2, <1>3, <1>5, <2>1, <2>2 DEF BatchInv, OnItsWay
  <2> QED
    BY <1>2, <2>1, <2>3, OneBatchMoves
<1> QED
  BY <1>6, <1>7 DEF local

\* The transaction a handler is at is confirmed, and the handler turns to the next one.
LEMMA NextMemberKeepsBatches ==
  ASSUME BatchesInv, NEW r \in Requests, phase[r] = "polling", UNCHANGED net,
         net[r][job[r].at] = "confirmed", job[r].at # Len(Batch[r]),
         Move(r, "sending", [job[r] EXCEPT !.at = @ + 1])
  PROVE  BatchesInv'
<1> DEFINE at == job[r].at
           local == [job[r] EXCEPT !.at = @ + 1]
<1>1. /\ BatchInv(r) /\ at \in Members(r) /\ DOMAIN job[r] = {"at", "deadline", "born"}
      /\ \A i \in Members(r) : /\ i < at => net[r][i] = "confirmed"
                               /\ i > at => net[r][i] = "unsent"
  BY DEF BatchesInv, BatchInv, OnItsWay
<1>2. local.at = at + 1 /\ DOMAIN local = {"at", "deadline", "born"}
  BY <1>1
<1>3. /\ DOMAIN phase' = Requests /\ DOMAIN job' = Requests
      /\ DOMAIN answer' = Requests /\ DOMAIN net' = Requests
      /\ \A q \in Requests : q # r =>
           phase'[q] = phase[q] /\ job'[q] = job[q] /\ answer'[q] = answer[q] /\ net'[q] = net[q]
      /\ phase'[r] = "sending" /\ job'[r] = local /\ answer'[r] = answer[r] /\ net'[r] = net[r]
  BY DEF Move, BatchesInv
<1> HIDE DEF local
<1>4. Len(Batch[r]) \in Nat /\ at \in Nat /\ at + 1 \in Members(r)
  BY <1>1, BatchesAre DEF Members
<1>5. /\ \A i \in Members(r) : /\ i < at + 1 => net[r][i] = "confirmed"
                               /\ i > at + 1 => net[r][i] = "unsent"
      /\ net[r][at + 1] = "unsent"
  <2>1. \A i \in Members(r) : /\ i < at + 1 => i < at \/ i = at
                              /\ i > at + 1 => i > at
    BY <1>4 DEF Members
  <2>2. at + 1 > at
    BY <1>4
  <2> QED
    BY <1>1, <1>4, <2>1, <2>2
<1>6. BatchInv(r)'
  BY <1>1, <1>2, <1>3, <1>4, <1>5 DEF BatchInv, LandsInOrder, OnItsWay
<1> QED
  BY <1>3, <1>6, OneBatchMoves

LEMMA PollKeepsBatches ==
  ASSUME BatchesInv, NEW r \in Requests, Poll(r)
  PROVE  BatchesInv'
<1>1. /\ phase[r] = "polling" /\ UNCHANGED net
      /\ \/ Report(r, "rejected")
         \/ /\ net[r][job[r].at] = "confirmed"
            /\ \/ job[r].at = Len(Batch[r]) /\ Answer(r, "ok")
               \/ /\ job[r].at # Len(Batch[r])
                  /\ Move(r, "sending", [job[r] EXCEPT !.at = @ + 1])
         \/ KeepWaiting(r)
         \/ Move(r, "checking", job[r])
  BY DEF Poll, Settles, Current
<1>2. DOMAIN job[r] = {"at", "deadline", "born"}
  BY DEF BatchesInv, BatchInv
<1>3. ASSUME NEW what, what # "ok", Answer(r, what) PROVE BatchesInv'
  BY <1>1, <1>3, AnswerKeepsBatches
<1>4. CASE Report(r, "rejected")
  BY <1>3, <1>4 DEF Report
<1>5. CASE /\ net[r][job[r].at] = "confirmed" /\ job[r].at # Len(Batch[r])
           /\ Move(r, "sending", [job[r] EXCEPT !.at = @ + 1])
  BY <1>1, <1>5, NextMemberKeepsBatches
<1>6. CASE net[r][job[r].at] = "confirmed" /\ job[r].at = Len(Batch[r]) /\ Answer(r, "ok")
  <2>1. ASSUME NEW i \in Members(r) PROVE net[r][i] = "confirmed"
    <3>1. Len(Batch[r]) \in Nat
      BY BatchesAre
    <3>2. i < job[r].at \/ i = job[r].at
      BY <1>6, <3>1 DEF Members
    <3> QED
      BY <1>1, <1>6, <3>2 DEF BatchesInv, BatchInv, OnItsWay
  <2> QED
    BY <1>1, <1>6, <2>1, AnswerKeepsBatches
<1>7. CASE KeepWaiting(r)
  <2>1. Answer(r, "failed") \/ Move(r, "polling", job[r])
    BY <1>7 DEF KeepWaiting
  <2> QED
    BY <1>1, <1>2, <1>3, <2>1, MoveKeepsBatches
<1>8. CASE Move(r, "checking", job[r])
  BY <1>1, <1>2, <1>8, MoveKeepsBatches
<1> QED
  BY <1>1, <1>4, <1>5, <1>6, <1>7, <1>8

LEMMA CheckHashKeepsBatches ==
  ASSUME BatchesInv, NEW r \in Requests, CheckHash(r)
  PROVE  BatchesInv'
<1>1. /\ phase[r] = "checking" /\ UNCHANGED net
      /\ \/ \E what \in {"failed", "rejected"} : Answer(r, what)
         \/ Move(r, "polling", job[r])
  BY DEF CheckHash, KeepWaiting, Report
<1>2. DOMAIN job[r] = {"at", "deadline", "born"}
  BY DEF BatchesInv, BatchInv
<1> QED
  BY <1>1, <1>2, AnswerKeepsBatches, MoveKeepsBatches

\* The network changes what it knows of the one transaction under way, never of a confirmed one.
LEMMA LandKeepsBatches ==
  ASSUME BatchesInv, NEW r \in Requests, Land(r)
  PROVE  BatchesInv'
<1> DEFINE at == job[r].at
<1>1. /\ BatchInv(r) /\ at \in Members(r) /\ DOMAIN net[r] = Members(r) /\ answer[r] # "ok"
      /\ \A i \in Members(r) : /\ i < at => net[r][i] = "confirmed"
                               /\ i > at => net[r][i] = "unsent"
      /\ phase[r] \in {"polling", "checking"}
  BY DEF Land, BatchesInv, BatchInv, OnItsWay
<1>2. PICK status : net' = [net EXCEPT ![r][at] = status]
  BY DEF Land
<1>3. /\ DOMAIN phase' = Requests /\ DOMAIN job' = Requests
      /\ DOMAIN answer' = Requests /\ DOMAIN net' = Requests
      /\ \A q \in Requests : q # r =>
           phase'[q] = phase[q] /\ job'[q] = job[q] /\ answer'[q] = answer[q] /\ net'[q] = net[q]
      /\ phase' = phase /\ job' = job /\ answer' = answer
      /\ DOMAIN net'[r] = Members(r)
      /\ \A i \in Members(r) : i # at => net'[r][i] = net[r][i]
  BY <1>1, <1>2 DEF Land, BatchesInv
<1>4. Len(Batch[r]) \in Nat
  BY BatchesAre
<1>5. \A i \in Members(r) : /\ i < at => net'[r][i] = "confirmed"
                            /\ i > at => net'[r][i] = "unsent"
  <2>1. \A i \in Members(r) : i < at \/ i > at => i # at
    BY <1>1, <1>4 DEF Members
  <2> QED
    BY <1>1, <1>3, <2>1
<1>6. LandsInOrder(r)'
  <2>1. ASSUME NEW i \in Members(r), net'[r][i] # "unsent", NEW j \in 1..i - 1
        PROVE  net'[r][j] = "confirmed"
    <3>1. ~(i > at)
      BY <1>5, <2>1
    <3>2. j < at /\ j \in Members(r)
      BY <1>1, <1>4, <2>1, <3>1 DEF Members
    <3> QED
      BY <1>5, <3>2
  <2> QED
    BY <2>1 DEF LandsInOrder
<1>7. BatchInv(r)'
  BY <1>1, <1>3, <1>5, <1>6 DEF BatchInv, OnItsWay
<1> QED
  BY <1>3, <1>7, OneBatchMoves

LEMMA NextKeepsBatches == BatchesInv /\ [Next]_vars => BatchesInv'
<1> SUFFICES ASSUME BatchesInv, [Next]_vars PROVE BatchesInv'
  OBVIOUS
<1>1. CASE Tick
  BY <1>1, UnmovedBatches DEF Tick
<1>2. ASSUME NEW r \in Requests, Arrive(r) PROVE BatchesInv'
  BY <1>2, ArriveKeepsBatches
<1>3. ASSUME NEW r \in Requests, Build(r) \/ Poll(r) \/ CheckHash(r) \/ Land(r) PROVE BatchesInv'
  BY <1>3, BuildKeepsBatches, PollKeepsBatches, CheckHashKeepsBatches, LandKeepsBatches
<1>4. ASSUME NEW r \in Requests, Send(r) PROVE BatchesInv'
  <2>1. /\ phase[r] = "sending"
        /\ net' = [net EXCEPT ![r][job[r].at] = "pending"]
        /\ Move(r, "polling", [job[r] EXCEPT !.deadline = clock + Timeout])
    BY <1>4 DEF Send
  <2>2. "failed" # "ok"
    OBVIOUS
  <2> QED
    BY <2>1, <2>2, SentKeepsBatches
<1>5. ASSUME NEW r \in Requests, SendFails(r) PROVE BatchesInv'
  <2>1. /\ phase[r] = "sending" /\ net' \in {net, [net EXCEPT ![r][job[r].at] = "pending"]}
        /\ \E what \in {"rejected", "failed"} : Answer(r, what)
    BY <1>5 DEF SendFails, Report
  <2> QED
    BY <2>1, SentKeepsBatches
<1>6. ASSUME NEW r \in Requests, RpcThrows(r) PROVE BatchesInv'
  <2>1. Answer(r, "error") /\ UNCHANGED net /\ "error" # "ok"
    BY <1>6 DEF RpcThrows
  <2> QED
    BY <2>1, AnswerKeepsBatches
<1>7. CASE UNCHANGED vars
  BY <1>7, UnmovedBatches DEF vars
<1> QED
  BY <1>1, <1>2, <1>3, <1>4, <1>5, <1>6, <1>7 DEF Next, Handler, Answered

\* For every set of requests and batches of any length: no transaction of a batch reaches the
\* network before those it builds on are confirmed, and a request is answered ok only when all
\* of them are (relay.ts:42-43).
THEOREM BatchLandsInOrderCorrect == Spec => []BatchLandsInOrder
<1>1. Init => BatchesInv
  BY InitBatches
<1>2. BatchesInv /\ [Next]_vars => BatchesInv'
  BY NextKeepsBatches
<1>3. BatchesInv => BatchLandsInOrder
  BY BatchesAre DEF BatchesInv, BatchInv, LandsInOrder, BatchLandsInOrder
<1> QED
  BY <1>1, <1>2, <1>3, PTL DEF Spec
=============================================================================
