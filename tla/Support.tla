------------------------------ MODULE Support ------------------------------
(***************************************************************************)
(* The support screen and the contribution it runs, in one tab of one      *)
(* supporter and for one creator.  A run goes on when the screen is left,  *)
(* so a second visit can start another while the first one still waits.    *)
(* Each await of a run lies between two actions.                           *)
(*                                                                         *)
(* External: the token program, of whose account six fields matter here;   *)
(* the wallet, which signs or refuses, and may throw after it has sent;    *)
(* the network, in which a sent transaction lands, fails or expires in its *)
(* own time.  A failure is seen at any commitment, so a fork may take it   *)
(* back.  A transfer's proofs hold for the available balance they were     *)
(* made from (`version` stands for its ciphertext) if the decryptable      *)
(* balance was the true one.                                               *)
(***************************************************************************)
EXTENDS Integers, FiniteSets

CONSTANTS Runs,        \* clicks on the Support button
          Units,       \* what one contribution pays
          FirstPublic, \* public balances the supporter may begin with
          Attempts,    \* CONFIRM_ATTEMPTS
          MaxIncomes,  \* bound on payments to the supporter
          MaxToggles   \* bound on changes of the listing elsewhere in the app

VARIABLES acct,      \* the supporter's token account
          pledge,    \* the pledge account: [contributions, listed]
          seen,      \* the cached pledge query: "unread" | "listed" | "unlisted"
          screen,    \* the mounted form: [open, show, run]
          run,       \* of each click: [stage, show, plan, built, polls, closeError]
          preparing, \* the network's view of each preparation transaction
          paying,    \* and of each transfer-and-record transaction
          rent,      \* proof accounts of each run: "none" | "open" | "closed"
          incomes, toggles,
          disturbed, \* history: runs whose account changed under them, by others' doing
          overtaken, \* history: whether a preparation landed on a disturbed account
          paidBefore \* history: the transfers that had landed when a run made its proofs

chain == <<acct, pledge, preparing, paying>>
bounds == <<incomes, toggles>>
history == <<disturbed, overtaken, paidBefore>>
vars == <<chain, seen, screen, run, rent, bounds, history>>

ASSUME SupportAssumption ==
  /\ Units \in Nat \ {0} /\ FirstPublic \subseteq Nat
  /\ Attempts \in Nat \ {0} /\ MaxIncomes \in Nat /\ MaxToggles \in Nat
  /\ 0 \notin Runs /\ IsFiniteSet(Runs)

Unsettled == {"pending", "failed"}
UnderWay == {"planned", "prepareSent", "prepared", "built", "proven", "paySent", "paid"}

NoPlan == [ok |-> FALSE, configure |-> FALSE, deposit |-> 0, apply |-> FALSE, decryptable |-> 0]
NotBuilt == [version |-> 0, sound |-> FALSE, decryptable |-> 0]

Init ==
  /\ \E kind \in {"missing", "unconfigured", "configured", "foreign"}, public \in FirstPublic :
       /\ kind = "missing" => public = 0
       /\ acct = [kind |-> kind, public |-> public, available |-> 0, decryptable |-> 0,
                  pending |-> 0, version |-> 0]
  /\ pledge = [contributions |-> 0, listed |-> FALSE]
  /\ seen = "unread"
  /\ screen = [open |-> FALSE, show |-> FALSE, run |-> 0]
  /\ run = [r \in Runs |-> [stage |-> "idle", show |-> FALSE, plan |-> NoPlan,
                            built |-> NotBuilt, polls |-> 0, closeError |-> FALSE]]
  /\ preparing = [r \in Runs |-> "unsent"] /\ paying = [r \in Runs |-> "unsent"]
  /\ rent = [r \in Runs |-> "none"]
  /\ incomes = 0 /\ toggles = 0
  /\ disturbed = {} /\ overtaken = FALSE /\ paidBefore = [r \in Runs |-> {}]

-----------------------------------------------------------------------------
(* planPreparation and buildContribution, on an account as it was read.    *)

Configured(a) == a.kind = "configured"

\* What the account holds in the owner's eyes: the pending balance is decrypted by itself,
\* the available one is taken from the decryptable balance.
Readable(a) == IF Configured(a) THEN a.decryptable + a.pending ELSE 0

PlanWithoutPending(a) ==
  [ok |-> a.kind # "foreign" /\ a.public >= Units - Readable(a),
   configure |-> ~Configured(a), deposit |-> a.public,
   apply |-> (IF Configured(a) THEN a.pending ELSE 0) + a.public > 0,
   decryptable |-> (IF Configured(a) THEN a.decryptable ELSE 0) + a.public]

\* All of the public balance is deposited; the plan fails when even that does not do.
PlanPreparation(a) ==
  [ok |-> a.kind # "foreign" /\ a.public >= Units - Readable(a),
   configure |-> ~Configured(a), deposit |-> a.public,
   apply |-> (IF Configured(a) THEN a.pending ELSE 0) + a.public > 0,
   decryptable |-> Readable(a) + a.public]

NeedsPreparation(plan) == plan.configure \/ plan.deposit > 0 \/ plan.apply

\* The transfer's proofs, and the decryptable balance it will leave.
BuildContribution(a) ==
  [version |-> a.version, sound |-> a.decryptable = a.available,
   decryptable |-> a.decryptable - Units]

\* The account after the steps of a preparation, one transaction.
PreparationLands(a, plan) == (plan.configure => ~Configured(a)) /\ a.public >= plan.deposit
Prepared(a, plan) ==
  LET pending == a.pending + plan.deposit
  IN  [kind |-> "configured",
       public |-> a.public - plan.deposit,
       available |-> IF plan.apply THEN a.available + pending ELSE a.available,
       decryptable |-> IF plan.apply THEN plan.decryptable ELSE a.decryptable,
       pending |-> IF plan.apply THEN 0 ELSE pending,
       version |-> IF plan.apply /\ pending > 0 THEN a.version + 1 ELSE a.version]

\* The account after a transfer, and when the token program takes it.
TransferLandsUnbound(a, built) == built.sound   \* mutant: the proofs know no balance
TransferLands(a, built) == built.sound /\ a.version = built.version
Transferred(a, built) ==
  [a EXCEPT !.available = @ - Units, !.decryptable = built.decryptable, !.version = @ + 1]

-----------------------------------------------------------------------------
(* The screen.                                                             *)

\* The pledge query answers: on mount, on focus, after a run.
ReadPledge ==
  /\ seen' = IF pledge.listed THEN "listed" ELSE "unlisted"
  /\ UNCHANGED <<chain, screen, run, rent, bounds, history>>

\* The form mounts once the query has data, cached data included.  Its listing box stays as
\* it is then: what the supporter ticks on purpose raises no question.
OpenForm ==
  /\ ~screen.open /\ seen # "unread"
  /\ screen' = [open |-> TRUE, show |-> seen = "listed", run |-> 0]
  /\ UNCHANGED <<chain, seen, run, rent, bounds, history>>

\* The screen is left; a run it started goes on.
LeaveForm ==
  /\ screen.open
  /\ screen' = [open |-> FALSE, show |-> FALSE, run |-> 0]
  /\ UNCHANGED <<chain, seen, run, rent, bounds, history>>

\* No run of this form is pending or done.
FormIsFree == \A r \in Runs : screen.run = r => run[r].stage \in {"failed", "unknown"}

\* The Support button: off while this form's run is pending, gone once it is done.  What
\* else may switch it off is read from older snapshots and only keeps a run from starting.
Start(r) ==
  /\ screen.open
  /\ FormIsFree
  /\ run[r].stage = "idle"
  /\ screen' = [screen EXCEPT !.run = r]
  /\ run' = [run EXCEPT ![r].stage = "started", ![r].show = screen.show]
  /\ UNCHANGED <<chain, seen, rent, bounds, history>>

-----------------------------------------------------------------------------
(* runContribution.                                                        *)

Goto(r, stage) == run' = [run EXCEPT ![r].stage = stage, ![r].polls = 0]

\* A step of run r throws, and so does the run.
Fails(r) == Goto(r, "failed")

\* The account is read and the preparation planned; keys refused or funds too low throw.
Plan(r) ==
  /\ run[r].stage = "started"
  /\ LET plan == PlanPreparation(acct)
     IN  \/ Fails(r)
         \/ /\ plan.ok
            /\ run' = [run EXCEPT ![r].plan = plan,
                         ![r].stage = IF NeedsPreparation(plan) THEN "planned" ELSE "prepared"]
  /\ UNCHANGED <<chain, seen, screen, rent, bounds, history>>

\* sendWithWallet for the preparation: the wallet signs and sends, or the prompt is refused,
\* or the wallet throws after it has sent.
SendPreparation(r) ==
  /\ run[r].stage = "planned"
  /\ \/ Fails(r) /\ UNCHANGED preparing
     \/ /\ Goto(r, "prepareSent") \/ Fails(r)
        /\ preparing' = [preparing EXCEPT ![r] = "pending"]
  /\ UNCHANGED <<acct, pledge, paying, seen, screen, rent, bounds, history>>

\* waitConfirmed: one poll.  Mutants: a wait without end, a wait whose end counts as success.
PollForEver(r, status, next) ==
  \/ status = "landed" /\ Goto(r, next)
  \/ status = "failed" /\ Fails(r)
  \/ status \in {"pending", "expired"} /\ UNCHANGED run
PollGivesIn(r, status, next) ==
  \/ status = "landed" /\ Goto(r, next)
  \/ status = "failed" /\ Fails(r)
  \/ /\ status \in {"pending", "expired"}
     /\ IF run[r].polls + 1 < Attempts THEN run' = [run EXCEPT ![r].polls = @ + 1]
                                       ELSE Goto(r, next)
Poll(r, status, next) ==
  \/ status = "landed" /\ Goto(r, next)
  \/ status = "failed" /\ Fails(r)
  \/ /\ status \in {"pending", "expired"}
     /\ IF run[r].polls + 1 < Attempts THEN run' = [run EXCEPT ![r].polls = @ + 1]
                                       ELSE Goto(r, "unknown")

WaitPreparation(r) ==
  /\ run[r].stage = "prepareSent"
  /\ Poll(r, preparing[r], "prepared")
  /\ UNCHANGED <<chain, seen, screen, rent, bounds, history>>

\* ops.build reads the account anew; a readable balance below the amount throws.
Build(r) ==
  /\ run[r].stage = "prepared"
  /\ \/ Fails(r) /\ UNCHANGED paidBefore
     \/ /\ Configured(acct) /\ acct.decryptable >= Units
        /\ run' = [run EXCEPT ![r].stage = "built", ![r].built = BuildContribution(acct)]
        /\ paidBefore' = [paidBefore EXCEPT ![r] = {q \in Runs : paying[q] = "landed"}]
  /\ UNCHANGED <<chain, seen, screen, rent, bounds, disturbed, overtaken>>

\* relay.proofs: the proof accounts are filled, or an error leaves none or some of them.
RelayProofs(r) ==
  /\ run[r].stage = "built"
  /\ \/ /\ run[r].built.sound
        /\ Goto(r, "proven") /\ rent' = [rent EXCEPT ![r] = "open"]
     \/ Fails(r) /\ rent' \in {rent, [rent EXCEPT ![r] = "open"]}
  /\ UNCHANGED <<chain, seen, screen, bounds, history>>

\* sendWithWallet for the transfer with the pledge next to it.
SendTransfer(r) ==
  /\ run[r].stage = "proven"
  /\ \/ Fails(r) /\ UNCHANGED paying
     \/ /\ Goto(r, "paySent") \/ Fails(r)
        /\ paying' = [paying EXCEPT ![r] = "pending"]
  /\ UNCHANGED <<acct, pledge, preparing, seen, screen, rent, bounds, history>>

WaitTransfer(r) ==
  /\ run[r].stage = "paySent"
  /\ Poll(r, paying[r], "paid")
  /\ UNCHANGED <<chain, seen, screen, rent, bounds, history>>

\* The poll's rpc call throws: the run ends and nothing is known of the transaction.
PollThrows(r) ==
  /\ run[r].stage \in {"prepareSent", "paySent"}
  /\ Goto(r, "unknown")
  /\ UNCHANGED <<chain, seen, screen, rent, bounds, history>>

\* relay.close: an error is kept, the contribution stands.
RelayClose(r) ==
  /\ run[r].stage = "paid"
  /\ \/ /\ run' = [run EXCEPT ![r].stage = "done"]
        /\ rent' = [rent EXCEPT ![r] = "closed"]
     \/ /\ run' = [run EXCEPT ![r].stage = "done", ![r].closeError = TRUE]
        /\ UNCHANGED rent
  /\ UNCHANGED <<chain, seen, screen, bounds, history>>

-----------------------------------------------------------------------------
(* The network and the world.                                              *)

\* The other runs that have planned on the account see it change under them; so do the
\* preparations that may still land though nobody waits for them.
Disturbs(others) ==
  disturbed' = disturbed \cup
    {q \in others : run[q].stage \in UnderWay \/ preparing[q] \in Unsettled}

\* A transaction lands; or it is seen to fail, on whatever fork the node that answers is,
\* or to be unknown again; or its blockhash expires.
LandPreparation(r) ==
  /\ preparing[r] \in Unsettled
  /\ \/ /\ PreparationLands(acct, run[r].plan)
        /\ acct' = Prepared(acct, run[r].plan)
        /\ preparing' = [preparing EXCEPT ![r] = "landed"]
        /\ run' = [run EXCEPT ![r].plan = NoPlan]
        /\ overtaken' = (overtaken \/ r \in disturbed)
        /\ Disturbs(Runs \ {r})
     \/ /\ preparing' = [preparing EXCEPT ![r] = "expired"]
        /\ run' = [run EXCEPT ![r].plan = NoPlan]
        /\ UNCHANGED <<acct, overtaken, disturbed>>
     \/ /\ \E status \in Unsettled : preparing' = [preparing EXCEPT ![r] = status]
        /\ UNCHANGED <<acct, run, overtaken, disturbed>>
  /\ UNCHANGED <<pledge, paying, seen, screen, rent, bounds, paidBefore>>

LandTransfer(r) ==
  /\ paying[r] \in Unsettled
  /\ \/ /\ TransferLands(acct, run[r].built)
        /\ acct' = Transferred(acct, run[r].built)
        /\ pledge' = [contributions |-> pledge.contributions + 1, listed |-> run[r].show]
        /\ paying' = [paying EXCEPT ![r] = "landed"]
        /\ run' = [run EXCEPT ![r].built = NotBuilt]
        /\ Disturbs(Runs \ {r})
     \/ /\ paying' = [paying EXCEPT ![r] = "expired"]
        /\ run' = [run EXCEPT ![r].built = NotBuilt]
        /\ UNCHANGED <<acct, pledge, disturbed>>
     \/ /\ \E status \in Unsettled : paying' = [paying EXCEPT ![r] = status]
        /\ UNCHANGED <<acct, pledge, run, disturbed>>
  /\ UNCHANGED <<preparing, seen, screen, rent, bounds, overtaken, paidBefore>>

\* Somebody pays the supporter: publicly (the faucet too), or by a confidential transfer.
Income ==
  /\ incomes < MaxIncomes
  /\ incomes' = incomes + 1
  /\ \/ acct' = [acct EXCEPT !.public = @ + Units,
                             !.kind = IF @ = "missing" THEN "unconfigured" ELSE @]
     \/ Configured(acct) /\ acct' = [acct EXCEPT !.pending = @ + Units]
  /\ Disturbs(Runs)
  /\ UNCHANGED <<pledge, preparing, paying, seen, screen, run, rent, toggles,
                 overtaken, paidBefore>>

\* The listing is changed on the Me screen of the same tab, which reads its own queries.
ToggleListing ==
  /\ ~screen.open
  /\ toggles < MaxToggles
  /\ pledge.contributions > 0
  /\ toggles' = toggles + 1
  /\ pledge' = [pledge EXCEPT !.listed = ~@]
  /\ UNCHANGED <<acct, preparing, paying, seen, screen, run, rent, incomes, history>>

Wait(r) == WaitPreparation(r) \/ WaitTransfer(r)

Next ==
  \/ ReadPledge \/ OpenForm \/ LeaveForm
  \/ Income \/ ToggleListing
  \/ \E r \in Runs :
       \/ Start(r) \/ Plan(r) \/ SendPreparation(r) \/ Build(r)
       \/ Wait(r) \/ PollThrows(r)
       \/ RelayProofs(r) \/ SendTransfer(r) \/ RelayClose(r)
       \/ LandPreparation(r) \/ LandTransfer(r)

Spec == Init /\ [][Next]_vars

\* A poll that does not throw is answered; the wallet's prompts may stay open for ever.
FairSpec == Spec /\ \A r \in Runs : WF_vars(Wait(r))

-----------------------------------------------------------------------------
Statuses == {"unsent", "pending", "landed", "failed", "expired"}

\* The owner can read what the account really has available, which every later proof needs.
\* Only a preparation that was overtaken by another change of the account breaks this.
ReadableUnlessOvertaken == ~overtaken => acct.decryptable = acct.available

\* Support.tsx "Recorded. Your support ... is on chain": done is said only of a transfer
\* that landed, and every such run counts in the pledge.
DoneMeansRecorded ==
  /\ \A r \in Runs : run[r].stage = "done" => paying[r] = "landed"
  /\ pledge.contributions = Cardinality({r \in Runs : paying[r] = "landed"})

\* contribute.ts:150 reads the balance anew for every click.  A second click, made while the
\* transfer of the first may still land (given up, shown as failed, or thrown by a wallet that
\* had sent it), does not pay beside it: of two transfers that landed, the one had landed when
\* the proofs of the other were made.
NoPaymentBesideAnother ==
  \A r, q \in Runs :
    r # q /\ paying[r] = "landed" /\ paying[q] = "landed"
      => r \in paidBefore[q] \/ q \in paidBefore[r]

\* The wait for a transaction ends, whatever becomes of it.
EveryWaitEnds ==
  \A r \in Runs : run[r].stage \in {"prepareSent", "paySent"}
                    ~> run[r].stage \notin {"prepareSent", "paySent"}

\* Support.tsx: "an unchanged form must not quietly take a listed wallet off the page".
UnchangedFormKeepsListing ==
  [][\A r \in Runs :
       run[r].stage = "idle" /\ run'[r].stage = "started" /\ pledge.listed
         => run'[r].show]_vars
=============================================================================
