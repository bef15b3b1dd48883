------------------------------ MODULE Periods ------------------------------
(***************************************************************************)
(* The arithmetic of a pledge's term, as the on-chain program and the      *)
(* readers of the index share it.  Times are whole seconds of Unix time in *)
(* the code; here they are naturals in any unit.                           *)
(***************************************************************************)
EXTENDS Integers

CONSTANTS Period,      \* PERIOD_SECONDS: what one period pays for
          Grace,       \* GRACE_SECONDS: how long a lapsed term still counts
          MaxPeriods   \* MAX_PERIODS: the most one contribution can pay for

ASSUME PeriodsAssumption ==
  /\ Period \in Nat \ {0}
  /\ Grace \in Nat
  /\ MaxPeriods \in Nat \ {0}

\* The later of two times.
Later(a, b) == IF a >= b THEN a ELSE b

\* extend_expiry's own check of its argument: outside the range it returns an error.
MayExtend(periods) == periods \in 1..MaxPeriods

\* extend_expiry: the new periods start when the running term ends, or now when
\* no term is running (a fresh account's expires_at is 0).
RestartTerm(now, expiresAt, periods) == now + periods * Period   \* mutant: paid time is lost
ExtendWithGrace(now, expiresAt, periods) ==   \* mutant: the grace is given away
  Later(now, expiresAt) + periods * Period + Grace
ExtendExpiry(now, expiresAt, periods) == Later(now, expiresAt) + periods * Period

\* ccs_is_active and isActive: a pledge counts until its term and the grace are over.
IsActive(now, expiresAt) == expiresAt + Grace > now
=============================================================================
