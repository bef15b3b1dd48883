---------------------------- MODULE RateLimiter ----------------------------
(***************************************************************************)
(* The api's sliding-window limiter: a map from a client's key to the      *)
(* times of the hits it was allowed, and a counter that triggers a sweep   *)
(* over every key.  A hit is one synchronous call, so it is an operator    *)
(* from the limiter's state to its next one.                               *)
(***************************************************************************)
EXTENDS Integers, Sequences, FiniteSetsExt

CONSTANT SweepEvery   \* SWEEP_EVERY: hits between two sweeps

ASSUME RateLimiterAssumption == SweepEvery \in Nat \ {0}

\* createRateLimiter: what it closes over.
NewLimiter(limit, windowMs) ==
  [limit |-> limit, windowMs |-> windowMs, windows |-> <<>>, sinceSweep |-> 0]

\* prune: the part of a window from its first time after the threshold on.
Prune(window, threshold) ==
  LET alive == {i \in DOMAIN window : window[i] > threshold}
  IN  IF alive = {} THEN <<>> ELSE SubSeq(window, Min(alive), Len(window))

\* The sweep prunes every key and forgets those with nothing left.
SweepAll(windows, threshold) == <<>>   \* mutant: the sweep forgets every key
Sweep(windows, threshold) ==
  [k \in {key \in DOMAIN windows : Prune(windows[key], threshold) # <<>>} |->
     Prune(windows[k], threshold)]

\* Whether one more hit fits a window.
UnderLimit(limiter, window) == Len(window) < limiter.limit

\* The seconds until the oldest hit leaves the window.
ResetBefore(limiter, oldest, at) == oldest + limiter.windowMs - at - 1   \* mutant: off by one
ResetAfter(limiter, oldest, at) == oldest + limiter.windowMs - at

\* hit: the limiter afterwards and the verdict.  Times are whole seconds here, so the
\* rounding up of resetSeconds does nothing.
Hit(limiter, key, at) ==
  LET threshold == at - limiter.windowMs
      sweeps == limiter.sinceSweep + 1 >= SweepEvery
      kept == IF sweeps THEN Sweep(limiter.windows, threshold) ELSE limiter.windows
      window == IF key \in DOMAIN kept THEN Prune(kept[key], threshold) ELSE <<>>
      allowed == UnderLimit(limiter, window)
      reset == IF allowed THEN 0 ELSE ResetAfter(limiter, window[1], at)
  IN  [limiter |-> [limiter EXCEPT
         !.windows = [k \in DOMAIN kept \cup {key} |->
                        IF k # key THEN kept[k]
                        ELSE IF allowed THEN Append(window, at) ELSE window],
         !.sinceSweep = IF sweeps THEN 0 ELSE @ + 1],
       allowed |-> allowed,
       resetSeconds |-> IF allowed \/ reset > 1 THEN reset ELSE 1]
=============================================================================
