---------------------------- MODULE SupportProofs ----------------------------
(***************************************************************************)
(* What a supporter is told of a payment is true, and the balance stays    *)
(* readable unless a preparation was overtaken; and no second click pays   *)
(* beside a first one: for any number of overlapping clicks, any amounts   *)
(* and any income in between.  The invariant ties the stage of a run to    *)
(* what the network knows of its transactions, what it planned or built to *)
(* the account it read, and its proofs to the transfers landed before.     *)
(***************************************************************************)
EXTENDS Support, FiniteSetTheorems, TLAPS

Stages == {"idle", "started", "planned", "prepareSent", "prepared", "built", "proven",
           "paySent", "paid", "done", "failed", "unknown"}
Accounts == [kind : {"missing", "unconfigured", "configured", "foreign"},
             public : Nat, available : Nat, decryptable : Nat, pending : Nat, version : Nat]
Plans == [ok : BOOLEAN, configure : BOOLEAN, deposit : Nat, apply : BOOLEAN, decryptable : Nat]
Builts == [version : Nat, sound : BOOLEAN, decryptable : Nat]
RunStates == [stage : Stages, show : BOOLEAN, plan : Plans, built : Builts,
              polls : Nat, closeError : BOOLEAN]

SupportTypes ==
  /\ acct \in Accounts
  /\ pledge \in [contributions : Nat, listed : BOOLEAN]
  /\ screen \in [open : BOOLEAN, show : BOOLEAN, run : Runs \cup {0}]
  /\ run \in [Runs -> RunStates]
  /\ preparing \in [Runs -> Statuses] /\ paying \in [Runs -> Statuses]
  /\ disturbed \subseteq Runs /\ overtaken \in BOOLEAN
  /\ paidBefore \in [Runs -> SUBSET Runs]

\* What a run believes of its two transactions and what the network knows of them.
StagesFit(r) ==
  /\ run[r].stage \in {"idle", "started", "planned"} => preparing[r] = "unsent"
  /\ run[r].stage = "prepareSent" => preparing[r] # "unsent"
  /\ preparing[r] \in Unsettled => run[r].stage \in {"prepareSent", "failed", "unknown"}
  /\ run[r].stage \in {"prepared", "built", "proven", "paySent", "paid", "done"}
       => preparing[r] \in {"unsent", "landed"}
  /\ paying[r] # "unsent" =>
       /\ preparing[r] \in {"unsent", "landed"}
       /\ run[r].stage \in {"paySent", "paid", "done", "failed", "unknown"}
  /\ run[r].stage = "paySent" => paying[r] # "unsent"
  /\ run[r].stage \in {"paid", "done"} => paying[r] = "landed"

\* A plan that may still land was made from the account as it is, unless the run's account
\* changed under it.
PlanIsCurrent(r) ==
  r \notin disturbed /\ (run[r].stage = "planned" \/ preparing[r] \in Unsettled)
    => run[r].plan = PlanPreparation(acct)

\* The proofs of a transfer know the available balance as long as its ciphertext is the one
\* they were made from.
BuiltOnBalance(r) ==
  LET built == run[r].built
  IN  /\ built.version <= acct.version
      /\ built.sound => Configured(acct)
      /\ built.sound /\ built.version = acct.version
           => built.decryptable + Units = acct.available

\* Nothing is held confidentially before the account is configured.
EmptyUntilConfigured ==
  ~Configured(acct) => acct.available = 0 /\ acct.decryptable = 0 /\ acct.pending = 0

Landed == {r \in Runs : paying[r] = "landed"}

\* Proofs that may still hold know of every transfer that has landed; the others are made
\* from a ciphertext that is gone.
ProofsKnowThePast(r) ==
  run[r].built.sound =>
    \A q \in Landed \ {r} : q \in paidBefore[r] \/ run[r].built.version < acct.version

SupportInv ==
  /\ SupportTypes
  /\ \A r \in Runs : StagesFit(r)
  /\ \A r \in Runs : PlanIsCurrent(r)
  /\ \A r \in Runs : BuiltOnBalance(r)
  /\ \A r \in Runs : ProofsKnowThePast(r)
  /\ NoPaymentBesideAnother
  /\ EmptyUntilConfigured
  /\ ReadableUnlessOvertaken
  /\ pledge.contributions = Cardinality(Landed)

-----------------------------------------------------------------------------
(* The steps, one by one.                                                  *)

LEMMA NothingTypes == NoPlan \in Plans /\ NotBuilt \in Builts
BY DEF NoPlan, NotBuilt, Plans, Builts

LEMMA InitSupportInv == Init => SupportInv
<1> SUFFICES ASSUME Init PROVE SupportInv
  OBVIOUS
<1>1. SupportTypes
  <2>1. run \in [Runs -> RunStates]
    BY NothingTypes DEF Init, RunStates, Stages
  <2>2. acct \in Accounts
    BY SupportAssumption DEF Init, Accounts
  <2> QED
    BY <2>1, <2>2 DEF Init, SupportTypes, Statuses
<1>2. \A r \in Runs : StagesFit(r) /\ PlanIsCurrent(r) /\ BuiltOnBalance(r)
  <2> SUFFICES ASSUME NEW r \in Runs PROVE StagesFit(r) /\ PlanIsCurrent(r) /\ BuiltOnBalance(r)
    OBVIOUS
  <2>1. /\ run[r].stage = "idle" /\ run[r].built = NotBuilt
        /\ preparing[r] = "unsent" /\ paying[r] = "unsent" /\ acct.version = 0
    BY DEF Init
  <2> QED
    BY <2>1 DEF StagesFit, PlanIsCurrent, BuiltOnBalance, NotBuilt, Unsettled
<1>3. EmptyUntilConfigured /\ ReadableUnlessOvertaken
  BY DEF Init, EmptyUntilConfigured, ReadableUnlessOvertaken
<1>4. Landed = {}
  BY DEF Init, Landed
<1>5. NoPaymentBesideAnother /\ \A r \in Runs : ProofsKnowThePast(r)
  BY <1>4 DEF Init, NoPaymentBesideAnother, ProofsKnowThePast
<1> QED
  BY <1>1, <1>2, <1>3, <1>4, <1>5, FS_EmptySet DEF SupportInv, Init

\* What is planned on an account is a plan, and what is built on it is a transfer.
LEMMA PlanTypes ==
  ASSUME SupportTypes
  PROVE  PlanPreparation(acct) \in Plans \/ ~PlanPreparation(acct).ok
BY SupportAssumption DEF SupportTypes, Accounts, PlanPreparation, Plans, Readable, Configured

LEMMA BuiltTypes ==
  ASSUME SupportTypes, acct.decryptable >= Units
  PROVE  BuildContribution(acct) \in Builts
BY SupportAssumption DEF SupportTypes, Accounts, BuildContribution, Builts

\* A run moves on.
LEMMA RunTypes ==
  ASSUME NEW r \in Runs, run \in [Runs -> RunStates],
         NEW stage \in Stages, Goto(r, stage)
  PROVE  run' \in [Runs -> RunStates]
BY DEF Goto, RunStates

LEMMA PollTypes ==
  ASSUME NEW r \in Runs, run \in [Runs -> RunStates],
         NEW status, NEW stage \in Stages, Poll(r, status, stage)
  PROVE  run' \in [Runs -> RunStates]
<1>1. CASE Goto(r, stage) \/ Goto(r, "failed") \/ Goto(r, "unknown")
  BY <1>1, RunTypes DEF Stages
<1>2. CASE run' = [run EXCEPT ![r].polls = @ + 1]
  BY <1>2 DEF RunStates
<1> QED
  BY <1>1, <1>2 DEF Poll, Fails

\* The run after any step.
LEMMA RunTypesStep ==
  ASSUME SupportTypes, Next
  PROVE  run' \in [Runs -> RunStates]
<1> USE DEF SupportTypes
<1>1. CASE UNCHANGED run
  BY <1>1
<1>2. ASSUME NEW r \in Runs, Start(r) PROVE run' \in [Runs -> RunStates]
  <2> DEFINE started == [run[r] EXCEPT !.stage = "started", !.show = screen.show]
  <2>1. started \in RunStates
    <3>1. run[r] \in RunStates /\ screen.show \in BOOLEAN /\ "started" \in Stages
      BY DEF Stages
    <3> QED
      BY <3>1 DEF RunStates
  <2>2. run' = [run EXCEPT ![r] = started]
    BY <1>2 DEF Start, RunStates
  <2> QED
    BY <2>1, <2>2
<1>3. ASSUME NEW r \in Runs, Plan(r) PROVE run' \in [Runs -> RunStates]
  <2>1. CASE Fails(r)
    BY <2>1, RunTypes DEF Fails, Stages
  <2>2. CASE ~Fails(r)
    <3> DEFINE plan == PlanPreparation(acct)
    <3>1. plan \in Plans
      BY <1>3, <2>2, PlanTypes DEF Plan
    <3>2. PICK stage \in Stages : run' = [run EXCEPT ![r].plan = plan, ![r].stage = stage]
      BY <1>3, <2>2 DEF Plan, Stages
    <3> DEFINE planned == [run[r] EXCEPT !.plan = plan, !.stage = stage]
    <3> HIDE DEF plan
    <3>3. planned \in RunStates
      <4>1. run[r] \in RunStates
        OBVIOUS
      <4> QED
        BY <3>1, <4>1 DEF RunStates
    <3>4. run' = [run EXCEPT ![r] = planned]
      BY <3>2 DEF RunStates
    <3> QED
      BY <3>3, <3>4
  <2> QED
    BY <2>1, <2>2
<1>4. ASSUME NEW r \in Runs, Build(r) PROVE run' \in [Runs -> RunStates]
  <2>1. CASE Fails(r)
    BY <2>1, RunTypes DEF Fails, Stages
  <2>2. CASE ~Fails(r)
    <3> DEFINE built == BuildContribution(acct)
    <3>1. /\ built \in Builts
          /\ run' = [run EXCEPT ![r].stage = "built", ![r].built = built]
      BY <1>4, <2>2, BuiltTypes DEF Build
    <3> HIDE DEF built
    <3> DEFINE next == [run[r] EXCEPT !.stage = "built", !.built = built]
    <3>2. next \in RunStates
      <4>1. run[r] \in RunStates
        OBVIOUS
      <4> QED
        BY <3>1, <4>1 DEF RunStates, Stages
    <3>3. run' = [run EXCEPT ![r] = next]
      BY <3>1 DEF RunStates
    <3> QED
      BY <3>2, <3>3
  <2> QED
    BY <2>1, <2>2
<1>5. ASSUME NEW r \in Runs, WaitPreparation(r) \/ WaitTransfer(r)
      PROVE  run' \in [Runs -> RunStates]
  BY <1>5, PollTypes DEF WaitPreparation, WaitTransfer, Stages
<1>6. ASSUME NEW r \in Runs,
             SendPreparation(r) \/ PollThrows(r) \/ RelayProofs(r) \/ SendTransfer(r)
      PROVE  run' \in [Runs -> RunStates]
  BY <1>6, RunTypes
  DEF SendPreparation, PollThrows, RelayProofs, SendTransfer, Fails, Stages
<1>7. ASSUME NEW r \in Runs, RelayClose(r) PROVE run' \in [Runs -> RunStates]
  BY <1>7 DEF RelayClose, RunStates, Stages
<1>8. ASSUME NEW r \in Runs, LandPreparation(r) \/ LandTransfer(r)
      PROVE  run' \in [Runs -> RunStates]
  <2>1. CASE run' = [run EXCEPT ![r].plan = NoPlan]
    BY <2>1, NothingTypes DEF RunStates
  <2>2. CASE run' = [run EXCEPT ![r].built = NotBuilt]
    BY <2>2, NothingTypes DEF RunStates
  <2> QED
    BY <1>8, <2>1, <2>2 DEF LandPreparation, LandTransfer
<1> QED
  BY <1>1, <1>2, <1>3, <1>4, <1>5, <1>6, <1>7, <1>8
  DEF Next, Wait, ReadPledge, OpenForm, LeaveForm, Income, ToggleListing

-----------------------------------------------------------------------------
(* What each step does to a run.                                           *)

\* Of the runs other than r nothing changes.
OthersStay(r) == \A q \in Runs : q # r => run'[q] = run[q]

LEMMA GotoMoves ==
  ASSUME NEW r \in Runs, run \in [Runs -> RunStates], NEW stage, Goto(r, stage)
  PROVE  /\ run'[r].stage = stage
         /\ run'[r].plan = run[r].plan /\ run'[r].built = run[r].built
         /\ OthersStay(r)
BY DEF Goto, OthersStay, RunStates

\* A poll goes on, tells what is known, or gives up.
LEMMA PollMoves ==
  ASSUME NEW r \in Runs, run \in [Runs -> RunStates],
         NEW status, NEW stage, Poll(r, status, stage)
  PROVE  /\ OthersStay(r)
         /\ \/ run'[r].stage = stage /\ status = "landed"
            \/ run'[r].stage = "failed" /\ status = "failed"
            \/ run'[r].stage = run[r].stage
            \/ run'[r].stage = "unknown"
         /\ run'[r].plan = run[r].plan /\ run'[r].built = run[r].built
<1>1. CASE status = "landed" /\ Goto(r, stage)
  BY <1>1, GotoMoves
<1>2. CASE status = "failed" /\ Fails(r)
  BY <1>2, GotoMoves DEF Fails
<1>3. CASE run' = [run EXCEPT ![r].polls = @ + 1]
  BY <1>3 DEF OthersStay, RunStates
<1>4. CASE Goto(r, "unknown")
  BY <1>4, GotoMoves
<1> QED
  BY <1>1, <1>2, <1>3, <1>4 DEF Poll

\* The steps of the page, which the chain and the network do not notice.
PageStep(r) ==
  \/ Start(r) \/ Plan(r) \/ SendPreparation(r) \/ Build(r) \/ Wait(r) \/ PollThrows(r)
  \/ RelayProofs(r) \/ SendTransfer(r) \/ RelayClose(r)

LEMMA PageStepMoves ==
  ASSUME SupportTypes, NEW r \in Runs, PageStep(r)
  PROVE  /\ OthersStay(r)
         /\ acct' = acct /\ pledge' = pledge /\ disturbed' = disturbed /\ overtaken' = overtaken
         /\ \A q \in Runs : q # r => preparing'[q] = preparing[q] /\ paying'[q] = paying[q]
         /\ run'[r].plan \in {run[r].plan, PlanPreparation(acct)}
         /\ \/ run'[r].built = run[r].built /\ paidBefore' = paidBefore
            \/ /\ run'[r].built = BuildContribution(acct)
               /\ Configured(acct) /\ acct.decryptable >= Units
               /\ run[r].stage = "prepared" /\ paidBefore' = [paidBefore EXCEPT ![r] = Landed]
<1> USE DEF chain, history
<1>0. /\ run \in [Runs -> RunStates]
      /\ preparing \in [Runs -> Statuses] /\ paying \in [Runs -> Statuses]
  BY DEF SupportTypes
<1>1. CASE Start(r)
  BY <1>0, <1>1 DEF Start, OthersStay, RunStates
<1>2. CASE Plan(r)
  BY <1>0, <1>2, GotoMoves DEF Fails, Plan, OthersStay, RunStates
<1>3. CASE SendPreparation(r)
  BY <1>0, <1>3, GotoMoves DEF Fails, SendPreparation
<1>4. CASE Build(r)
  BY <1>0, <1>4, GotoMoves DEF Fails, Build, Landed, OthersStay, RunStates
<1>5. CASE Wait(r)
  BY <1>0, <1>5, PollMoves DEF Wait, WaitPreparation, WaitTransfer
<1>6. CASE PollThrows(r)
  BY <1>0, <1>6, GotoMoves DEF PollThrows
<1>7. CASE RelayProofs(r)
  BY <1>0, <1>7, GotoMoves DEF Fails, RelayProofs
<1>8. CASE SendTransfer(r)
  BY <1>0, <1>8, GotoMoves DEF Fails, SendTransfer
<1>9. CASE RelayClose(r)
  BY <1>0, <1>9 DEF RelayClose, OthersStay, RunStates
<1> QED
  BY <1>1, <1>2, <1>3, <1>4, <1>5, <1>6, <1>7, <1>8, <1>9 DEF PageStep

\* The stage of the run keeps to what the network knows, and so does its plan.
LEMMA PageStepFits ==
  ASSUME SupportTypes, NEW r \in Runs, PageStep(r), StagesFit(r), PlanIsCurrent(r)
  PROVE  StagesFit(r)' /\ PlanIsCurrent(r)'
<1> USE DEF StagesFit, PlanIsCurrent, Unsettled, chain
<1>0. /\ run \in [Runs -> RunStates] /\ acct' = acct /\ disturbed' = disturbed
      /\ preparing \in [Runs -> Statuses] /\ paying \in [Runs -> Statuses]
      /\ PlanPreparation(acct)' = PlanPreparation(acct)
  <2>1. acct' = acct /\ disturbed' = disturbed
    BY PageStepMoves
  <2> QED
    BY <2>1 DEF SupportTypes, PlanPreparation, Readable, Configured
<1>1. CASE Start(r)
  <2>1. run'[r].stage = "started" /\ UNCHANGED <<preparing, paying>> /\ run[r].stage = "idle"
    BY <1>0, <1>1 DEF Start, RunStates
  <2> QED
    BY <1>0, <2>1
<1>2. CASE Plan(r)
  <2>1. UNCHANGED <<preparing, paying>> /\ run[r].stage = "started"
    BY <1>2 DEF Plan
  <2>2. \/ run'[r].stage \in {"failed", "prepared"}
        \/ run'[r].stage = "planned" /\ run'[r].plan = PlanPreparation(acct)
    BY <1>0, <1>2, GotoMoves DEF Fails, Plan, RunStates
  <2> QED
    BY <1>0, <2>1, <2>2
<1>3. CASE SendPreparation(r)
  <2>1. run[r].stage = "planned" /\ paying' = paying
    BY <1>3 DEF SendPreparation
  <2>2. \/ run'[r].stage = "failed" /\ preparing' = preparing
        \/ /\ run'[r].stage \in {"prepareSent", "failed"} /\ run'[r].plan = run[r].plan
           /\ preparing'[r] = "pending"
    BY <1>0, <1>3, GotoMoves DEF Fails, SendPreparation
  <2> QED
    BY <1>0, <2>1, <2>2
<1>4. CASE Build(r)
  <2>1. UNCHANGED <<preparing, paying>> /\ run[r].stage = "prepared"
    BY <1>4 DEF Build
  <2>2. run'[r].stage \in {"failed", "built"}
    BY <1>0, <1>4, GotoMoves DEF Fails, Build, RunStates
  <2> QED
    BY <1>0, <2>1, <2>2
<1>5. CASE WaitPreparation(r)
  <2>1. UNCHANGED <<preparing, paying>> /\ run[r].stage = "prepareSent"
    BY <1>5 DEF WaitPreparation
  <2>2. \/ run'[r].stage = "prepared" /\ preparing[r] = "landed"
        \/ /\ run'[r].stage \in {"prepareSent", "failed", "unknown"}
           /\ run'[r].plan = run[r].plan
    BY <1>0, <1>5, <2>1, GotoMoves DEF Fails, WaitPreparation, Poll, RunStates
  <2> QED
    BY <1>0, <2>1, <2>2
<1>6. CASE WaitTransfer(r)
  <2>1. UNCHANGED <<preparing, paying>> /\ run[r].stage = "paySent"
    BY <1>6 DEF WaitTransfer
  <2>2. \/ run'[r].stage = "paid" /\ paying[r] = "landed"
        \/ run'[r].stage \in {"paySent", "failed", "unknown"}
    BY <1>0, <1>6, <2>1, PollMoves DEF WaitTransfer
  <2> QED
    BY <1>0, <2>1, <2>2
<1>7. CASE PollThrows(r)
  <2>1. /\ UNCHANGED <<preparing, paying>> /\ run[r].stage \in {"prepareSent", "paySent"}
        /\ run'[r].stage = "unknown" /\ run'[r].plan = run[r].plan
    BY <1>0, <1>7, GotoMoves DEF PollThrows
  <2> QED
    BY <1>0, <2>1
<1>8. CASE RelayProofs(r)
  <2>1. /\ UNCHANGED <<preparing, paying>> /\ run[r].stage = "built"
        /\ run'[r].stage \in {"proven", "failed"}
    BY <1>0, <1>8, GotoMoves DEF Fails, RelayProofs
  <2> QED
    BY <1>0, <2>1
<1>9. CASE SendTransfer(r)
  <2>1. run[r].stage = "proven" /\ preparing' = preparing
    BY <1>9 DEF SendTransfer
  <2>2. \/ run'[r].stage = "failed" /\ paying' = paying
        \/ run'[r].stage \in {"paySent", "failed"} /\ paying'[r] = "pending"
    BY <1>0, <1>9, GotoMoves DEF Fails, SendTransfer
  <2> QED
    BY <1>0, <2>1, <2>2
<1>10. CASE RelayClose(r)
  <2>1. /\ UNCHANGED <<preparing, paying>> /\ run[r].stage = "paid"
        /\ run'[r].stage = "done"
    BY <1>0, <1>10 DEF RelayClose, RunStates
  <2> QED
    BY <1>0, <2>1
<1> QED
  BY <1>1, <1>2, <1>3, <1>4, <1>5, <1>6, <1>7, <1>8, <1>9, <1>10 DEF PageStep, Wait

\* No step of the page settles a transaction.
LEMMA PageStepLands ==
  ASSUME SupportTypes, NEW r \in Runs, PageStep(r), StagesFit(r)
  PROVE  Landed' = Landed
<1>1. /\ preparing \in [Runs -> Statuses] /\ paying \in [Runs -> Statuses]
  BY DEF SupportTypes
<1>2. paying' = paying \/ (SendTransfer(r) /\ paying' = [paying EXCEPT ![r] = "pending"])
  BY DEF PageStep, Start, Plan, SendPreparation, Build, Wait, WaitPreparation, WaitTransfer,
     PollThrows, RelayProofs, SendTransfer, RelayClose, chain
<1>3. SendTransfer(r) => paying[r] = "unsent"
  BY DEF SendTransfer, StagesFit
<1>4. \A q \in Runs : paying'[q] = "landed" <=> paying[q] = "landed"
  BY <1>1, <1>2, <1>3
<1> QED
  BY <1>4 DEF Landed

\* A transfer is built on the balance as it is; what was built before stays as it was.
LEMMA PageStepBuilds ==
  ASSUME SupportTypes, NEW r \in Runs, PageStep(r), BuiltOnBalance(r)
  PROVE  BuiltOnBalance(r)'
<1>1. acct' = acct /\ acct.version \in Nat
  BY PageStepMoves DEF SupportTypes, Accounts
<1>2. CASE run'[r].built = run[r].built
  BY <1>1, <1>2 DEF BuiltOnBalance, Configured
<1>3. CASE /\ run'[r].built = BuildContribution(acct)
           /\ Configured(acct) /\ acct.decryptable >= Units
  <2>1. acct.decryptable \in Nat /\ Units \in Nat
    BY SupportAssumption DEF SupportTypes, Accounts
  <2>2. (acct.decryptable - Units) + Units = acct.decryptable
    BY <2>1
  <2> DEFINE built == BuildContribution(acct)
  <2>3. /\ built.version = acct.version
        /\ built.sound = (acct.decryptable = acct.available)
        /\ built.decryptable = acct.decryptable - Units
    BY DEF BuildContribution
  <2> HIDE DEF built
  <2> QED
    <3>1. run'[r].built = built
      BY <1>3 DEF built
    <3>2. built.sound /\ built.version = acct.version => built.decryptable + Units = acct.available
      BY <2>2, <2>3
    <3> QED
      BY <1>1, <1>3, <2>3, <3>1, <3>2 DEF BuiltOnBalance, Configured
<1> QED
  BY <1>2, <1>3, PageStepMoves

\* Proofs are made with what has landed in view; a run that makes them has not paid.
LEMMA PageStepKnows ==
  ASSUME SupportInv, NEW r \in Runs, PageStep(r)
  PROVE  NoPaymentBesideAnother' /\ \A q \in Runs : ProofsKnowThePast(q)'
<1>1. /\ SupportTypes /\ StagesFit(r) /\ NoPaymentBesideAnother
      /\ \A q \in Runs : ProofsKnowThePast(q)
  BY DEF SupportInv
<1>2. /\ acct' = acct /\ Landed' = Landed /\ paidBefore \in [Runs -> SUBSET Runs]
      /\ \A q \in Runs : q # r => run'[q] = run[q]
  BY <1>1, PageStepMoves, PageStepLands DEF SupportTypes, OthersStay
<1>3. \/ run'[r].built = run[r].built /\ paidBefore' = paidBefore
      \/ run[r].stage = "prepared" /\ paidBefore' = [paidBefore EXCEPT ![r] = Landed]
  BY <1>1, PageStepMoves
<1>4. \A q \in Runs : q # r => paidBefore'[q] = paidBefore[q]
  BY <1>2, <1>3
<1>5. ASSUME NEW q \in Runs PROVE ProofsKnowThePast(q)'
  <2>1. CASE q # r \/ (run'[r].built = run[r].built /\ paidBefore' = paidBefore)
    BY <1>1, <1>2, <1>4, <2>1 DEF ProofsKnowThePast
  <2>2. CASE q = r /\ paidBefore' = [paidBefore EXCEPT ![r] = Landed]
    BY <1>2, <2>2 DEF ProofsKnowThePast
  <2> QED
    BY <1>3, <2>1, <2>2
<1>6. NoPaymentBesideAnother'
  <2>1. \A q \in Runs : paying'[q] = "landed" <=> paying[q] = "landed"
    BY <1>2 DEF Landed
  <2>2. paidBefore' = paidBefore \/ paying[r] # "landed"
    BY <1>1, <1>3 DEF StagesFit
  <2> QED
    BY <1>1, <1>4, <2>1, <2>2 DEF NoPaymentBesideAnother
<1> QED
  BY <1>5, <1>6

LEMMA PageStepKeeps ==
  ASSUME SupportInv, NEW r \in Runs, PageStep(r)
  PROVE  /\ \A q \in Runs : StagesFit(q)' /\ PlanIsCurrent(q)' /\ BuiltOnBalance(q)'
         /\ NoPaymentBesideAnother' /\ \A q \in Runs : ProofsKnowThePast(q)'
         /\ EmptyUntilConfigured' /\ ReadableUnlessOvertaken'
         /\ pledge'.contributions = Cardinality(Landed')
<1>1. SupportTypes /\ StagesFit(r) /\ PlanIsCurrent(r) /\ BuiltOnBalance(r)
  BY DEF SupportInv
<1>2. /\ OthersStay(r)
      /\ acct' = acct /\ pledge' = pledge /\ disturbed' = disturbed /\ overtaken' = overtaken
      /\ \A q \in Runs : q # r => preparing'[q] = preparing[q] /\ paying'[q] = paying[q]
  BY <1>1, PageStepMoves
<1>3. ASSUME NEW q \in Runs PROVE StagesFit(q)' /\ PlanIsCurrent(q)' /\ BuiltOnBalance(q)'
  <2>1. CASE q = r
    BY <1>1, <2>1, PageStepFits, PageStepBuilds
  <2>2. CASE q # r
    <3>1. run'[q] = run[q] /\ preparing'[q] = preparing[q] /\ paying'[q] = paying[q]
      BY <1>2, <2>2 DEF OthersStay
    <3>2. StagesFit(q) /\ PlanIsCurrent(q) /\ BuiltOnBalance(q)
      BY DEF SupportInv
    <3>3. StagesFit(q)'
      BY <3>1, <3>2 DEF StagesFit
    <3>4. PlanIsCurrent(q)'
      BY <1>2, <3>1, <3>2 DEF PlanIsCurrent, PlanPreparation, Readable, Configured
    <3>5. BuiltOnBalance(q)'
      BY <1>2, <3>1, <3>2 DEF BuiltOnBalance, Configured
    <3> QED
      BY <3>3, <3>4, <3>5
  <2> QED
    BY <2>1, <2>2
<1>4. EmptyUntilConfigured' /\ ReadableUnlessOvertaken'
  BY <1>2 DEF SupportInv, EmptyUntilConfigured, ReadableUnlessOvertaken, Configured
<1>5. pledge'.contributions = Cardinality(Landed')
  BY <1>1, <1>2, PageStepLands DEF SupportInv
<1> QED
  BY <1>3, <1>4, <1>5, PageStepKnows

-----------------------------------------------------------------------------
(* What the network and the world do to the account.                       *)

\* A plan that was made from the account as it lands leaves the balance readable.
LEMMA CurrentPlanIsReadable ==
  ASSUME SupportTypes, EmptyUntilConfigured, acct.decryptable = acct.available,
         NEW plan, plan = PlanPreparation(acct)
  PROVE  Prepared(acct, plan).decryptable = Prepared(acct, plan).available
<1>1. /\ acct.public \in Nat /\ acct.available \in Nat /\ acct.decryptable \in Nat
      /\ acct.pending \in Nat
  BY DEF SupportTypes, Accounts
<1>2. CASE Configured(acct)
  BY <1>1, <1>2 DEF Prepared, PlanPreparation, Readable
<1>3. CASE ~Configured(acct)
  BY <1>1, <1>3 DEF Prepared, PlanPreparation, Readable, EmptyUntilConfigured
<1> QED
  BY <1>2, <1>3

\* A preparation that lands leaves a configured account, and changes its available balance
\* only together with its ciphertext.
LEMMA PreparedAccount ==
  ASSUME acct \in Accounts, NEW plan \in Plans, acct.public >= plan.deposit
  PROVE  LET after == Prepared(acct, plan)
         IN  /\ after \in Accounts /\ Configured(after)
             /\ \/ after.version = acct.version + 1
                \/ after.version = acct.version /\ after.available = acct.available
<1>1. /\ acct.public \in Nat /\ acct.available \in Nat /\ acct.decryptable \in Nat
      /\ acct.pending \in Nat /\ acct.version \in Nat
      /\ plan.deposit \in Nat /\ plan.decryptable \in Nat
  BY DEF Accounts, Plans
<1>2. acct.public - plan.deposit \in Nat /\ acct.pending + plan.deposit \in Nat
  BY <1>1
<1> DEFINE after == Prepared(acct, plan)
<1>3. /\ after.kind = "configured" /\ after.public = acct.public - plan.deposit
      /\ after.available = IF plan.apply THEN acct.available + (acct.pending + plan.deposit)
                                         ELSE acct.available
      /\ after.decryptable = IF plan.apply THEN plan.decryptable ELSE acct.decryptable
      /\ after.pending = IF plan.apply THEN 0 ELSE acct.pending + plan.deposit
      /\ after.version = IF plan.apply /\ acct.pending + plan.deposit > 0
                           THEN acct.version + 1 ELSE acct.version
  BY DEF Prepared
<1>4. /\ \/ after.version = acct.version + 1
         \/ after.version = acct.version /\ after.available = acct.available
      /\ after.version \in Nat /\ after.available \in Nat /\ after.decryptable \in Nat
      /\ after.pending \in Nat /\ after.public \in Nat
  <2>1. CASE plan.apply
    BY <1>1, <1>2, <1>3, <2>1
  <2>2. CASE ~plan.apply
    BY <1>1, <1>2, <1>3, <2>2
  <2> QED
    BY <2>1, <2>2
<1>5. after \in Accounts
  BY <1>3, <1>4 DEF Prepared, Accounts
<1> QED
  BY <1>3, <1>4, <1>5 DEF Configured

\* A transfer that lands takes what is there and changes the ciphertext.
LEMMA TransferredAccount ==
  ASSUME acct \in Accounts, NEW built \in Builts, TransferLands(acct, built),
         built.sound /\ built.version = acct.version
           => built.decryptable + Units = acct.available
  PROVE  LET after == Transferred(acct, built)
         IN  /\ after \in Accounts /\ after.kind = acct.kind
             /\ after.version = acct.version + 1 /\ after.decryptable = after.available
<1>1. /\ acct.available \in Nat /\ acct.version \in Nat /\ built.decryptable \in Nat
      /\ Units \in Nat
  BY SupportAssumption DEF Accounts, Builts
<1>2. built.decryptable + Units = acct.available
  BY DEF TransferLands
<1>3. acct.available - Units = built.decryptable
  BY <1>1, <1>2
<1> DEFINE after == Transferred(acct, built)
<1>4. /\ after.kind = acct.kind /\ after.public = acct.public /\ after.pending = acct.pending
      /\ after.available = acct.available - Units
      /\ after.decryptable = built.decryptable /\ after.version = acct.version + 1
  BY DEF Transferred, Accounts
<1>5. after \in Accounts
  <2>1. acct.available - Units \in Nat /\ acct.version + 1 \in Nat
    BY <1>1, <1>3
  <2> QED
    BY <1>1, <2>1 DEF Transferred, Accounts
<1> QED
  BY <1>3, <1>4, <1>5

\* What a run has built keeps to the balance when the account changes.
LEMMA ChangeKeepsBuilt ==
  ASSUME acct \in Accounts, acct' \in Accounts, Configured(acct) => Configured(acct)',
         \/ acct'.version = acct.version + 1
         \/ acct'.version = acct.version /\ acct'.available = acct.available,
         NEW q \in Runs, run[q].built \in Builts, BuiltOnBalance(q),
         run'[q].built \in {run[q].built, NotBuilt}
  PROVE  BuiltOnBalance(q)'
<1>1. /\ acct.version \in Nat /\ acct'.version \in Nat /\ run[q].built.version \in Nat
  BY DEF Accounts, Builts
<1>2. CASE run'[q].built = run[q].built
  BY <1>1, <1>2 DEF BuiltOnBalance
<1>3. CASE run'[q].built = NotBuilt
  BY <1>1, <1>3 DEF BuiltOnBalance, NotBuilt
<1> QED
  BY <1>2, <1>3

\* Nor do the proofs forget the past, as long as nothing lands and nothing is proven.
LEMMA ChangeKeepsPast ==
  ASSUME acct.version \in Nat, acct'.version \in Nat, acct'.version >= acct.version,
         Landed' = Landed, paidBefore' = paidBefore,
         NEW q \in Runs, run[q].built \in Builts, ProofsKnowThePast(q),
         run'[q].built \in {run[q].built, NotBuilt}
  PROVE  ProofsKnowThePast(q)'
<1>1. run[q].built.version \in Nat
  BY DEF Builts
<1>2. CASE run'[q].built = run[q].built
  BY <1>1, <1>2 DEF ProofsKnowThePast
<1>3. CASE run'[q].built = NotBuilt
  BY <1>3 DEF ProofsKnowThePast, NotBuilt
<1> QED
  BY <1>2, <1>3

\* The runs whose account changes under them are no longer bound by their plan.
LEMMA DisturbedKeep ==
  ASSUME NEW others \in SUBSET Runs, Disturbs(others), NEW q \in others, q \in Runs,
         run'[q].stage = run[q].stage, preparing'[q] = preparing[q]
  PROVE  PlanIsCurrent(q)'
BY DEF Disturbs, PlanIsCurrent, UnderWay

LEMMA LandPreparationKeeps ==
  ASSUME SupportInv, NEW r \in Runs, LandPreparation(r)
  PROVE  /\ acct' \in Accounts /\ pledge' = pledge /\ paying' = paying
         /\ preparing' \in [Runs -> Statuses] /\ disturbed' \subseteq Runs
         /\ overtaken' \in BOOLEAN
         /\ \A q \in Runs : StagesFit(q)' /\ PlanIsCurrent(q)' /\ BuiltOnBalance(q)'
         /\ NoPaymentBesideAnother' /\ \A q \in Runs : ProofsKnowThePast(q)'
         /\ EmptyUntilConfigured' /\ ReadableUnlessOvertaken'
<1>0. /\ SupportTypes /\ acct \in Accounts /\ run \in [Runs -> RunStates]
      /\ preparing \in [Runs -> Statuses] /\ paying \in [Runs -> Statuses]
      /\ disturbed \subseteq Runs /\ overtaken \in BOOLEAN
      /\ EmptyUntilConfigured /\ ReadableUnlessOvertaken
      /\ preparing[r] \in Unsettled /\ paying' = paying /\ pledge' = pledge
  BY DEF SupportInv, SupportTypes, LandPreparation
<1> DEFINE plan == run[r].plan
<1>1. plan \in Plans /\ \A q \in Runs : run[q].built \in Builts
  BY <1>0 DEF RunStates
<1>2. /\ \A q \in Runs : run'[q].stage = run[q].stage /\ run'[q].built = run[q].built
      /\ \A q \in Runs : q # r => run'[q].plan = run[q].plan
  BY <1>0 DEF LandPreparation, RunStates
<1>3. PICK status \in {"landed", "pending", "failed", "expired"} :
        /\ preparing' = [preparing EXCEPT ![r] = status]
        /\ status \in Unsettled => run' = run /\ UNCHANGED <<acct, overtaken, disturbed>>
  BY DEF LandPreparation, Unsettled
<1>4. \A q \in Runs : StagesFit(q) /\ PlanIsCurrent(q) /\ BuiltOnBalance(q)
  BY DEF SupportInv
<1>5. preparing' \in [Runs -> Statuses]
  BY <1>0, <1>3 DEF Statuses
<1>6. ASSUME NEW q \in Runs PROVE StagesFit(q)'
  BY <1>0, <1>2, <1>3, <1>4 DEF StagesFit, Unsettled
<1>7. PlanIsCurrent(r)'
  <2>1. preparing'[r] = status /\ run'[r].stage # "planned"
    BY <1>0, <1>2, <1>3, <1>4 DEF StagesFit, Unsettled
  <2>2. CASE status \in Unsettled
    BY <1>0, <1>3, <1>4, <2>2 DEF PlanIsCurrent, PlanPreparation, Readable, Configured
  <2> QED
    BY <2>1, <2>2 DEF PlanIsCurrent
<1>8. /\ Landed' = Landed /\ paidBefore' = paidBefore /\ NoPaymentBesideAnother'
      /\ \A q \in Runs : ProofsKnowThePast(q)
  BY <1>0 DEF SupportInv, LandPreparation, Landed, NoPaymentBesideAnother
<1>9. CASE /\ PreparationLands(acct, plan) /\ acct' = Prepared(acct, plan)
           /\ overtaken' = (overtaken \/ r \in disturbed)
           /\ Disturbs(Runs \ {r})
  <2>1. /\ acct' \in Accounts /\ Configured(acct)'
        /\ \/ acct'.version = acct.version + 1
           \/ acct'.version = acct.version /\ acct'.available = acct.available
    <3>1. acct.public >= plan.deposit
      BY <1>9 DEF PreparationLands
    <3> HIDE DEF plan
    <3>2. LET after == Prepared(acct, plan)
          IN  /\ after \in Accounts /\ Configured(after)
              /\ \/ after.version = acct.version + 1
                 \/ after.version = acct.version /\ after.available = acct.available
      BY <1>0, <1>1, <3>1, PreparedAccount
    <3> QED
      BY <1>9, <3>2 DEF Configured
  <2>2. ASSUME NEW q \in Runs PROVE PlanIsCurrent(q)'
    <3>1. CASE q = r
      BY <1>7, <3>1
    <3>2. CASE q # r
      <4>1. q \in Runs \ {r} /\ Runs \ {r} \in SUBSET Runs
        BY <3>2
      <4>2. run'[q].stage = run[q].stage /\ preparing'[q] = preparing[q]
        BY <1>0, <1>2, <1>3, <3>2
      <4> QED
        BY <1>9, <4>1, <4>2, DisturbedKeep
    <3> QED
      BY <3>1, <3>2
  <2>3. ASSUME NEW q \in Runs PROVE BuiltOnBalance(q)'
    BY <1>0, <1>1, <1>2, <1>4, <2>1, ChangeKeepsBuilt
  <2>4. ReadableUnlessOvertaken'
    <3>1. CASE overtaken \/ r \in disturbed
      BY <1>9, <3>1 DEF ReadableUnlessOvertaken
    <3>2. CASE ~overtaken /\ r \notin disturbed
      <4>1. plan = PlanPreparation(acct)
        BY <1>0, <1>4, <3>2 DEF PlanIsCurrent
      <4>2. acct.decryptable = acct.available
        BY <1>0, <3>2 DEF ReadableUnlessOvertaken
      <4> HIDE DEF plan
      <4>3. Prepared(acct, plan).decryptable = Prepared(acct, plan).available
        BY <1>0, <4>1, <4>2, CurrentPlanIsReadable
      <4> QED
        BY <1>9, <4>3 DEF ReadableUnlessOvertaken
    <3> QED
      BY <3>1, <3>2
  <2>5. disturbed' \subseteq Runs /\ overtaken' \in BOOLEAN
    BY <1>0, <1>9 DEF Disturbs
  <2>6. EmptyUntilConfigured'
    BY <2>1 DEF EmptyUntilConfigured
  <2>7. ASSUME NEW q \in Runs PROVE ProofsKnowThePast(q)'
    <3>1. acct.version \in Nat /\ acct'.version \in Nat /\ acct'.version >= acct.version
      BY <1>0, <2>1 DEF Accounts
    <3> QED
      BY <1>1, <1>2, <1>8, <3>1, ChangeKeepsPast
  <2> QED
    BY <1>0, <1>5, <1>6, <1>8, <2>1, <2>2, <2>3, <2>4, <2>5, <2>6, <2>7
<1>10. CASE UNCHANGED <<acct, overtaken, disturbed>>
  <2>1. ASSUME NEW q \in Runs, q # r PROVE PlanIsCurrent(q)'
    <3>1. run'[q].stage = run[q].stage /\ preparing'[q] = preparing[q] /\ run'[q].plan = run[q].plan
      BY <1>0, <1>2, <1>3, <2>1
    <3> QED
      BY <1>4, <1>10, <3>1 DEF PlanIsCurrent, PlanPreparation, Readable, Configured
  <2>2. ASSUME NEW q \in Runs PROVE BuiltOnBalance(q)'
    BY <1>2, <1>4, <1>10 DEF BuiltOnBalance, Configured
  <2>3. EmptyUntilConfigured' /\ ReadableUnlessOvertaken'
    BY <1>0, <1>10 DEF EmptyUntilConfigured, ReadableUnlessOvertaken, Configured
  <2>4. ASSUME NEW q \in Runs PROVE ProofsKnowThePast(q)'
    BY <1>0, <1>1, <1>2, <1>10, <1>8, ChangeKeepsPast DEF Accounts
  <2> QED
    BY <1>0, <1>5, <1>6, <1>7, <1>10, <1>8, <2>1, <2>2, <2>3, <2>4
<1> QED
  BY <1>9, <1>10 DEF LandPreparation

LEMMA LandTransferKeeps ==
  ASSUME SupportInv, NEW r \in Runs, LandTransfer(r)
  PROVE  /\ acct' \in Accounts /\ pledge' \in [contributions : Nat, listed : BOOLEAN]
         /\ preparing' = preparing /\ paying' \in [Runs -> Statuses]
         /\ disturbed' \subseteq Runs /\ overtaken' = overtaken
         /\ \A q \in Runs : StagesFit(q)' /\ PlanIsCurrent(q)' /\ BuiltOnBalance(q)'
         /\ NoPaymentBesideAnother' /\ \A q \in Runs : ProofsKnowThePast(q)'
         /\ EmptyUntilConfigured' /\ ReadableUnlessOvertaken'
         /\ pledge'.contributions = Cardinality(Landed')
<1>0. /\ SupportTypes /\ acct \in Accounts /\ run \in [Runs -> RunStates]
      /\ pledge \in [contributions : Nat, listed : BOOLEAN]
      /\ preparing \in [Runs -> Statuses] /\ paying \in [Runs -> Statuses]
      /\ disturbed \subseteq Runs /\ paidBefore' = paidBefore
      /\ EmptyUntilConfigured /\ ReadableUnlessOvertaken /\ NoPaymentBesideAnother
      /\ pledge.contributions = Cardinality(Landed)
      /\ paying[r] \in Unsettled /\ preparing' = preparing /\ overtaken' = overtaken
  BY DEF SupportInv, SupportTypes, LandTransfer
<1> DEFINE built == run[r].built
<1>1. /\ built \in Builts /\ run[r].show \in BOOLEAN
      /\ \A q \in Runs : run[q].built \in Builts
  BY <1>0 DEF RunStates
<1>2. /\ \A q \in Runs : run'[q].stage = run[q].stage /\ run'[q].plan = run[q].plan
      /\ \A q \in Runs : run'[q].built \in {run[q].built, NotBuilt}
  BY <1>0 DEF LandTransfer, RunStates
<1>3. \A q \in Runs : StagesFit(q) /\ PlanIsCurrent(q) /\ BuiltOnBalance(q)
                          /\ ProofsKnowThePast(q)
  BY DEF SupportInv
<1>4. /\ preparing[r] \in {"unsent", "landed"}
      /\ run[r].stage \in {"paySent", "failed", "unknown"}
  BY <1>0, <1>3 DEF StagesFit, Unsettled
<1>5. PICK status \in {"landed", "pending", "failed", "expired"} :
        paying' = [paying EXCEPT ![r] = status]
  BY DEF LandTransfer, Unsettled
<1>6. paying' \in [Runs -> Statuses]
  BY <1>0, <1>5 DEF Statuses
<1>7. ASSUME NEW q \in Runs PROVE StagesFit(q)'
  <2>1. CASE q = r
    BY <1>0, <1>2, <1>3, <1>4, <1>5, <2>1 DEF StagesFit
  <2>2. CASE q # r
    BY <1>0, <1>2, <1>3, <1>5, <2>2 DEF StagesFit
  <2> QED
    BY <2>1, <2>2
<1>8. CASE /\ TransferLands(acct, built) /\ acct' = Transferred(acct, built)
           /\ pledge' = [contributions |-> pledge.contributions + 1, listed |-> run[r].show]
           /\ paying' = [paying EXCEPT ![r] = "landed"]
           /\ Disturbs(Runs \ {r})
  <2>1. /\ acct' \in Accounts /\ acct'.kind = acct.kind
        /\ acct'.version = acct.version + 1 /\ acct'.decryptable = acct'.available
    <3>1. built.sound /\ built.version = acct.version
            => built.decryptable + Units = acct.available
      BY <1>3 DEF BuiltOnBalance
    <3>2. TransferLands(acct, built)
      BY <1>8
    <3> HIDE DEF built
    <3>3. LET after == Transferred(acct, built)
          IN  /\ after \in Accounts /\ after.kind = acct.kind
              /\ after.version = acct.version + 1 /\ after.decryptable = after.available
      BY <1>0, <1>1, <3>1, <3>2, TransferredAccount
    <3> QED
      BY <1>8, <3>3
  <2>2. Configured(acct)' /\ (Configured(acct) => Configured(acct)')
    BY <1>3, <1>8, <2>1 DEF Configured, BuiltOnBalance, TransferLands
  <2>3. ASSUME NEW q \in Runs PROVE PlanIsCurrent(q)'
    <3>1. CASE q = r
      BY <1>0, <1>2, <1>4, <3>1 DEF PlanIsCurrent, Unsettled
    <3>2. CASE q # r
      <4>1. q \in Runs \ {r} /\ Runs \ {r} \in SUBSET Runs
        BY <3>2
      <4>2. run'[q].stage = run[q].stage /\ preparing'[q] = preparing[q]
        BY <1>0, <1>2
      <4> QED
        BY <1>8, <4>1, <4>2, DisturbedKeep
    <3> QED
      BY <3>1, <3>2
  <2>4. ASSUME NEW q \in Runs PROVE BuiltOnBalance(q)'
    BY <1>0, <1>1, <1>2, <1>3, <2>1, <2>2, ChangeKeepsBuilt
  <2>5. EmptyUntilConfigured' /\ ReadableUnlessOvertaken'
    BY <2>1, <2>2 DEF EmptyUntilConfigured, ReadableUnlessOvertaken
  <2>6. /\ pledge' \in [contributions : Nat, listed : BOOLEAN]
        /\ pledge'.contributions = pledge.contributions + 1
    BY <1>0, <1>1, <1>8
  <2>7. pledge'.contributions = Cardinality(Landed')
    <3>1. Landed' = Landed \cup {r} /\ r \notin Landed
      BY <1>0, <1>8 DEF Landed, Unsettled
    <3>2. IsFiniteSet(Landed)
      BY SupportAssumption, FS_Subset DEF Landed
    <3>3. Cardinality(Landed') = Cardinality(Landed) + 1
      BY <3>1, <3>2, FS_AddElement
    <3> QED
      BY <1>0, <2>6, <3>3
  <2>8. disturbed' \subseteq Runs
    BY <1>0, <1>8 DEF Disturbs
  <2>9. ASSUME NEW q \in Runs PROVE ProofsKnowThePast(q)'
    <3>1. /\ acct.version \in Nat /\ run[q].built.version \in Nat
          /\ run[q].built.version <= acct.version
      BY <1>0, <1>1, <1>3 DEF Accounts, Builts, BuiltOnBalance
    <3> QED
      BY <1>2, <2>1, <3>1 DEF ProofsKnowThePast, NotBuilt
  <2>10. NoPaymentBesideAnother'
    <3>1. \A q \in Runs : q # r /\ paying[q] = "landed" => q \in paidBefore[r]
      <4>1. built.sound /\ built.version = acct.version
        BY <1>8 DEF TransferLands
      <4>2. acct.version \in Nat
        BY <1>0 DEF Accounts
      <4> QED
        BY <1>3, <4>1, <4>2 DEF ProofsKnowThePast, Landed
    <3>2. \A q \in Runs : q # r => paying'[q] = paying[q]
      BY <1>0, <1>8
    <3> QED
      BY <1>0, <3>1, <3>2 DEF NoPaymentBesideAnother
  <2> QED
    BY <1>0, <1>6, <1>7, <2>1, <2>3, <2>4, <2>5, <2>6, <2>7, <2>8, <2>9, <2>10
<1>9. CASE /\ UNCHANGED <<acct, pledge, disturbed>>
           /\ \E end \in {"expired"} \cup Unsettled :
                /\ paying' = [paying EXCEPT ![r] = end]
                /\ end = "expired" \/ run' = run
  <2>1. ASSUME NEW q \in Runs PROVE PlanIsCurrent(q)' /\ BuiltOnBalance(q)'
    <3>1. PlanIsCurrent(q)'
      BY <1>0, <1>2, <1>3, <1>9 DEF PlanIsCurrent, PlanPreparation, Readable, Configured
    <3>2. acct.version \in Nat
      BY <1>0 DEF Accounts
    <3>3. BuiltOnBalance(q)'
      BY <1>2, <1>3, <1>9, <3>2 DEF BuiltOnBalance, Configured, NotBuilt
    <3> QED
      BY <3>1, <3>3
  <2>2. EmptyUntilConfigured' /\ ReadableUnlessOvertaken'
    BY <1>0, <1>9 DEF EmptyUntilConfigured, ReadableUnlessOvertaken, Configured
  <2>3. Landed' = Landed
    BY <1>0, <1>9 DEF Landed, Unsettled
  <2>4. ASSUME NEW q \in Runs PROVE ProofsKnowThePast(q)'
    BY <1>0, <1>1, <1>2, <1>3, <1>9, <2>3, ChangeKeepsPast DEF Accounts
  <2>5. NoPaymentBesideAnother'
    BY <1>0, <2>3 DEF NoPaymentBesideAnother, Landed
  <2> QED
    BY <1>0, <1>6, <1>7, <1>9, <2>1, <2>2, <2>3, <2>4, <2>5
<1> QED
  BY <1>8, <1>9 DEF LandTransfer

LEMMA IncomeKeeps ==
  ASSUME SupportInv, Income
  PROVE  /\ acct' \in Accounts /\ disturbed' \subseteq Runs
         /\ \A q \in Runs : StagesFit(q)' /\ PlanIsCurrent(q)' /\ BuiltOnBalance(q)'
         /\ NoPaymentBesideAnother' /\ \A q \in Runs : ProofsKnowThePast(q)'
         /\ EmptyUntilConfigured' /\ ReadableUnlessOvertaken' /\ Landed' = Landed
<1>0. /\ acct \in Accounts /\ run \in [Runs -> RunStates] /\ disturbed \subseteq Runs
      /\ EmptyUntilConfigured /\ ReadableUnlessOvertaken
      /\ UNCHANGED <<pledge, preparing, paying, run, overtaken, paidBefore>>
      /\ Disturbs(Runs)
  BY DEF SupportInv, SupportTypes, Income
<1>1. \A q \in Runs : StagesFit(q) /\ BuiltOnBalance(q)
  BY DEF SupportInv
<1>2. acct' \in Accounts
  <2>1. acct.public + Units \in Nat /\ acct.pending + Units \in Nat
    BY <1>0, SupportAssumption DEF Accounts
  <2>2. CASE acct' = [acct EXCEPT !.public = @ + Units,
                                  !.kind = IF @ = "missing" THEN "unconfigured" ELSE @]
    BY <1>0, <2>1, <2>2 DEF Accounts
  <2>3. CASE acct' = [acct EXCEPT !.pending = @ + Units]
    BY <1>0, <2>1, <2>3 DEF Accounts
  <2> QED
    BY <2>2, <2>3 DEF Income
<1>3. /\ acct'.version = acct.version /\ acct'.available = acct.available
      /\ acct'.decryptable = acct.decryptable
      /\ Configured(acct)' <=> Configured(acct)
      /\ ~Configured(acct) => acct'.pending = acct.pending
  BY <1>0 DEF Income, Configured, Accounts
<1>4. ASSUME NEW q \in Runs PROVE PlanIsCurrent(q)'
  <2>1. q \in Runs /\ Runs \in SUBSET Runs /\ run'[q].stage = run[q].stage
        /\ preparing'[q] = preparing[q]
    BY <1>0
  <2> QED
    BY <1>0, <2>1, DisturbedKeep
<1>5. ASSUME NEW q \in Runs PROVE StagesFit(q)' /\ BuiltOnBalance(q)'
  BY <1>0, <1>1, <1>3 DEF StagesFit, BuiltOnBalance
<1>6. EmptyUntilConfigured' /\ ReadableUnlessOvertaken'
  BY <1>0, <1>3 DEF EmptyUntilConfigured, ReadableUnlessOvertaken
<1>7. Landed' = Landed /\ disturbed' \subseteq Runs
  BY <1>0 DEF Landed, Disturbs
<1>8. NoPaymentBesideAnother' /\ \A q \in Runs : ProofsKnowThePast(q)'
  BY <1>0, <1>3 DEF SupportInv, NoPaymentBesideAnother, ProofsKnowThePast, Landed
<1> QED
  BY <1>2, <1>4, <1>5, <1>6, <1>7, <1>8

\* The screen and the listing touch neither the account nor a transaction.
LEMMA QuietKeeps ==
  ASSUME SupportInv, acct' = acct, run' = run, preparing' = preparing, paying' = paying,
         disturbed' = disturbed, overtaken' = overtaken, paidBefore' = paidBefore
  PROVE  /\ \A q \in Runs : StagesFit(q)' /\ PlanIsCurrent(q)' /\ BuiltOnBalance(q)'
         /\ NoPaymentBesideAnother' /\ \A q \in Runs : ProofsKnowThePast(q)'
         /\ EmptyUntilConfigured' /\ ReadableUnlessOvertaken' /\ Landed' = Landed
<1>1. ASSUME NEW q \in Runs PROVE StagesFit(q)' /\ PlanIsCurrent(q)' /\ BuiltOnBalance(q)'
  <2>1. StagesFit(q) /\ PlanIsCurrent(q) /\ BuiltOnBalance(q)
    BY DEF SupportInv
  <2> QED
    BY <2>1 DEF StagesFit, PlanIsCurrent, BuiltOnBalance, PlanPreparation, Readable, Configured
<1>2. EmptyUntilConfigured' /\ ReadableUnlessOvertaken' /\ Landed' = Landed
  BY DEF SupportInv, EmptyUntilConfigured, ReadableUnlessOvertaken, Configured, Landed
<1>3. NoPaymentBesideAnother' /\ \A q \in Runs : ProofsKnowThePast(q)'
  BY DEF SupportInv, NoPaymentBesideAnother, ProofsKnowThePast, Landed
<1> QED
  BY <1>1, <1>2, <1>3

LEMMA ScreenTypes ==
  ASSUME SupportTypes, Next
  PROVE  screen' \in [open : BOOLEAN, show : BOOLEAN, run : Runs \cup {0}]
<1>1. CASE screen' = screen
  BY <1>1 DEF SupportTypes
<1>2. CASE OpenForm \/ LeaveForm
  <2>1. \E open, show \in BOOLEAN : screen' = [open |-> open, show |-> show, run |-> 0]
    <3>1. (seen = "listed") \in BOOLEAN
      OBVIOUS
    <3> QED
      BY <1>2, <3>1, Zenon DEF OpenForm, LeaveForm
  <2> QED
    BY <2>1
<1>3. ASSUME NEW r \in Runs, screen' = [screen EXCEPT !.run = r]
      PROVE  screen' \in [open : BOOLEAN, show : BOOLEAN, run : Runs \cup {0}]
  BY <1>3 DEF SupportTypes
<1>4. \/ screen' = screen
      \/ OpenForm \/ LeaveForm
      \/ \E r \in Runs : screen' = [screen EXCEPT !.run = r]
  BY DEF Next, ReadPledge, Income, ToggleListing, Wait, Start, Plan, SendPreparation, Build,
      WaitPreparation, WaitTransfer, PollThrows, RelayProofs, SendTransfer, RelayClose,
      LandPreparation, LandTransfer
<1> QED
  BY <1>1, <1>2, <1>3, <1>4

\* A step of the page leaves what the network knows in its types.
LEMMA PageStepTypes ==
  ASSUME SupportTypes, NEW r \in Runs, PageStep(r)
  PROVE  preparing' \in [Runs -> Statuses] /\ paying' \in [Runs -> Statuses]
<1>1. \/ preparing' = preparing
      \/ preparing' = [preparing EXCEPT ![r] = "pending"]
  BY DEF PageStep, Start, Plan, SendPreparation, Build, Wait, WaitPreparation, WaitTransfer,
     PollThrows, RelayProofs, SendTransfer, RelayClose, chain
<1>2. \/ paying' = paying
      \/ paying' = [paying EXCEPT ![r] = "pending"]
  BY DEF PageStep, Start, Plan, SendPreparation, Build, Wait, WaitPreparation, WaitTransfer,
     PollThrows, RelayProofs, SendTransfer, RelayClose, chain
<1> QED
  BY <1>1, <1>2 DEF SupportTypes, Statuses

LEMMA NextSupportInv == SupportInv /\ Next => SupportInv'
<1> SUFFICES ASSUME SupportInv, Next PROVE SupportInv'
  OBVIOUS
<1>1. SupportTypes /\ run' \in [Runs -> RunStates]
      /\ screen' \in [open : BOOLEAN, show : BOOLEAN, run : Runs \cup {0}]
  BY RunTypesStep, ScreenTypes DEF SupportInv
<1>2. ASSUME NEW r \in Runs, PageStep(r) PROVE SupportInv'
  <2>1. SupportTypes'
    <3>1. paidBefore' \in [Runs -> SUBSET Runs]
      BY <1>1, <1>2, PageStepMoves DEF SupportTypes, Landed
    <3> QED
      BY <1>1, <1>2, <3>1, PageStepMoves, PageStepTypes DEF SupportTypes
  <2> QED
    BY <1>2, <2>1, PageStepKeeps DEF SupportInv
<1>3. ASSUME NEW r \in Runs, LandPreparation(r) PROVE SupportInv'
  <2> paidBefore' = paidBefore
    BY <1>3 DEF LandPreparation
  <2>1. SupportTypes'
    BY <1>1, <1>3, LandPreparationKeeps DEF SupportTypes
  <2>2. pledge'.contributions = Cardinality(Landed')
    BY <1>3, LandPreparationKeeps DEF SupportInv, Landed
  <2> QED
    BY <1>3, <2>1, <2>2, LandPreparationKeeps DEF SupportInv
<1>4. ASSUME NEW r \in Runs, LandTransfer(r) PROVE SupportInv'
  <2> paidBefore' = paidBefore
    BY <1>4 DEF LandTransfer
  <2>1. SupportTypes'
    BY <1>1, <1>4, LandTransferKeeps DEF SupportTypes
  <2> QED
    BY <1>4, <2>1, LandTransferKeeps DEF SupportInv
<1>5. CASE Income
  <2>1. UNCHANGED <<pledge, preparing, paying, overtaken, paidBefore>>
    BY <1>5 DEF Income
  <2>2. SupportTypes'
    BY <1>1, <1>5, <2>1, IncomeKeeps DEF SupportTypes
  <2> QED
    BY <1>5, <2>1, <2>2, IncomeKeeps DEF SupportInv
<1>6. CASE ReadPledge \/ OpenForm \/ LeaveForm \/ ToggleListing
  <2>1. UNCHANGED <<acct, run, preparing, paying, disturbed, overtaken, paidBefore>>
    BY <1>6 DEF ReadPledge, OpenForm, LeaveForm, ToggleListing, chain, history
  <2>2. pledge' \in [contributions : Nat, listed : BOOLEAN]
        /\ pledge'.contributions = pledge.contributions
    BY <1>1, <1>6
    DEF ReadPledge, OpenForm, LeaveForm, ToggleListing, chain, SupportTypes
  <2>3. SupportTypes'
    BY <1>1, <2>1, <2>2 DEF SupportTypes
  <2> QED
    BY <2>1, <2>2, <2>3, QuietKeeps DEF SupportInv
<1> QED
  BY <1>2, <1>3, <1>4, <1>5, <1>6 DEF Next, PageStep

\* The invariant of a contribution: stages, plans and proofs agree with the network and the
\* account in every reachable state, for any number of clicks.
THEOREM ContributionInvariant == Spec => []SupportInv
<1>1. SupportInv /\ UNCHANGED vars => SupportInv'
  <2> SUFFICES ASSUME SupportInv, UNCHANGED vars PROVE SupportInv'
    OBVIOUS
  <2>1. /\ UNCHANGED <<acct, pledge, screen, run, preparing, paying>>
        /\ UNCHANGED <<disturbed, overtaken, paidBefore>>
    BY DEF vars, chain, history
  <2>2. SupportTypes'
    BY <2>1 DEF SupportInv, SupportTypes
  <2> QED
    BY <2>1, <2>2, QuietKeeps DEF SupportInv
<1> QED
  BY <1>1, InitSupportInv, NextSupportInv, PTL DEF Spec

\* contribute.ts: the decryptable balance that a landed preparation writes is the true one,
\* unless the account changed between its plan and its landing.
THEOREM ReadableUnlessOvertakenCorrect == Spec => []ReadableUnlessOvertaken
<1>1. SupportInv => ReadableUnlessOvertaken
  BY DEF SupportInv
<1> QED
  BY <1>1, ContributionInvariant, PTL

\* flow.ts and contribute.ts: "done" is reached only behind a transfer that landed, and the
\* pledge counts exactly the transfers that did.
THEOREM DoneMeansRecordedCorrect == Spec => []DoneMeansRecorded
<1>1. SupportInv => DoneMeansRecorded
  BY DEF SupportInv, StagesFit, DoneMeansRecorded, Landed
<1> QED
  BY <1>1, ContributionInvariant, PTL

\* contribute.ts:150, flow.ts: every click reads the balance and makes its proofs anew, and a
\* transfer whose proofs are older than another's landing does not land.  Whatever the screen
\* said of the first click, a second one pays after it or not at all, never beside it.
THEOREM NoPaymentBesideAnotherCorrect == Spec => []NoPaymentBesideAnother
<1>1. SupportInv => NoPaymentBesideAnother
  BY DEF SupportInv
<1> QED
  BY <1>1, ContributionInvariant, PTL
=============================================================================
