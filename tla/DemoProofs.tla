----------------------------- MODULE DemoProofs -----------------------------
(***************************************************************************)
(* What a demo run comes to, for any number of supporters, any pool of     *)
(* workers, any size of a sweep and any number of faults (us1.ts:126-142,  *)
(* 220-272, 335-400; supporters.ts:239-290).                               *)
(*                                                                         *)
(* The inductive invariant DemoInv follows a supporter through the run:    *)
(* FlowInv ties its locals to what the chain has of it, PoolInv says which *)
(* worker has it, QueueInv that it is then in the queue or in one sweep,   *)
(* once, HoldingsInv what a sweep read of its wallet, and SolInv that SOL  *)
(* in a wallet is still on that way, or the run fails.                     *)
(***************************************************************************)
EXTENDS Demo, SequenceTheorems, TLAPS

Steps == {"new", "faucet", "topUp", "prepare", "preparing", "proofs", "transferring", "close",
          "done"}
Nets == {"none", "pending", "landed", "failed"}
Jobs == [at : {"next", "supporter", "sweeping", "left", "threw"}, with : Nat]
Flows == [step : Steps, attempt : Nat, given : Nat, error : BOOLEAN]
Holdings == UNION {[batch -> Nat] : batch \in SUBSET Index}
Sweeps == [at : {"none", "reading", "waiting", "ok", "throws"}, batch : SUBSET Index,
           held : Holdings, net : Nets]

Types ==
  /\ main \in {"setup", "pool", "sweeping", "receiving", "applying", "done", "failed"}
  /\ next \in 0..Supporters
  /\ job \in [Workers -> Jobs]
  /\ flow \in [Index -> Flows]
  /\ tx \in [Index -> Nets]
  /\ stray \in [Index -> SUBSET (Steps \X Nat)]
  /\ pending \in Seq(Index)
  /\ sweep \in [Sweepers -> Sweeps]
  /\ wallet \in [Index -> Nat]

Has(w, i) == job[w].at = "supporter" /\ job[w].with = i

\* runSupporter: where a supporter is and what its transaction became.
FlowOne(i) ==
  /\ flow[i].given <= Len(Kinds(i))
  /\ flow[i].step # "done" => flow[i].given < Len(Kinds(i)) /\ ~flow[i].error
  /\ flow[i].step = "done" /\ ~flow[i].error => flow[i].given = Len(Kinds(i))
  /\ tx[i] # "none" => flow[i].step \in {"topUp", "preparing", "transferring"}
  /\ flow[i].step = "close" => At(i) \in paid
  /\ flow[i].step = "transferring" /\ tx[i] = "landed" => At(i) \in paid
  /\ Contributions(i) \subseteq paid
  /\ \A s \in stray[i] : s[1] = "transferring" => flow[i].error

\* Who answers for a contribution that was paid: its result lists it, or will, or has an error.
Accounts(i, c) ==
  \/ c \in Contributions(i)
  \/ flow[i].step \in {"transferring", "close"} /\ c = At(i)
  \/ flow[i].error /\ c[1] = i

FlowInv ==
  /\ \A i \in Index : FlowOne(i)
  /\ \A c \in paid : \E i \in Index : Accounts(i, c)

\* pool: who has which supporter.
PoolInv ==
  /\ \A i \in Index : flow[i].step # "new" <=> i < next
  /\ \A i \in Index : flow[i].step \in {"new", "done"} \/ \E w \in Workers : Has(w, i)
  /\ \A w \in Workers :
       /\ job[w].at = "supporter" => job[w].with \in 0..next - 1
       /\ job[w].at = "left" => next = Supporters
       /\ job[w].at = "sweeping" <=> sweep[w].at # "none"
  /\ \A v, w \in Workers, i \in Index : Has(v, i) /\ Has(w, i) => v = w
  /\ main = "sweeping" <=> sweep["main"].at # "none"
  /\ main = "sweeping" => Rejected \/ Resolved
  /\ main \in {"receiving", "applying", "done"} => Resolved /\ pending = <<>>

Settled(i) == flow[i].step = "done" /\ \A w \in Workers : ~Has(w, i)

\* pendingSweep and the sweeps under way: a supporter is in one of them at most, once.
QueueInv ==
  /\ \A j, k \in 1..Len(pending) : pending[j] = pending[k] => j = k
  /\ \A k \in 1..Len(pending) :
       Settled(pending[k]) /\ \A a \in Sweepers : pending[k] \notin sweep[a].batch
  /\ \A a \in Sweepers : \A i \in sweep[a].batch :
       Settled(i) /\ \A b \in Sweepers : i \in sweep[b].batch => a = b

\* What a sweep holds of a wallet, and what the wallet has.
HoldingOne(a) ==
  /\ sweep[a].at = "none" => sweep[a].batch = {}
  /\ sweep[a].at \in {"none", "reading"} => DOMAIN sweep[a].held = {} /\ sweep[a].net = "none"
  /\ sweep[a].at \in {"waiting", "ok", "throws"} => DOMAIN sweep[a].held = sweep[a].batch
  /\ sweep[a].at = "ok" => sweep[a].net = "landed"
  /\ \A i \in DOMAIN sweep[a].held :
       /\ sweep[a].net = "pending" => sweep[a].held[i] <= wallet[i]
       /\ sweep[a].net = "pending" /\ i \notin late => wallet[i] = sweep[a].held[i]
       /\ sweep[a].net = "landed" /\ i \notin late => wallet[i] = 0
HoldingsInv == \A a \in Sweepers : HoldingOne(a)

\* SOL in a wallet is still to be read or on its way, or the run fails.
Covered(i) == ToBeRead(i) \/ HoldingsRead(i) \/ Rejected \/ main = "failed"
SolInv == \A i \in Index : wallet[i] > 0 /\ i \notin late => Covered(i)

\* creatorReceived: the balance was named when nobody was under way any more; what landed since
\* is of supporters with an error.
AccountedFor(S) == Listed \subseteq S /\ \A c \in S \ Listed : flow[c[1]].error
ReceivedInv ==
  main \in {"applying", "done"} => \E S \in SUBSET paid : AccountedFor(S) /\ received = Total(S)
DemoInv == Types /\ FlowInv /\ PoolInv /\ QueueInv /\ HoldingsInv /\ SolInv /\ ReceivedInv

-----------------------------------------------------------------------------
\* What SweepBatches does.

LEMMA Bounds ==
  /\ Supporters \in Nat \ {0} /\ SweepBatch \in Nat \ {0} /\ FaucetAttempts \in Nat \ {0}
  /\ \E w : w \in Workers
  /\ "main" \notin Workers /\ "main" \in Sweepers /\ Workers \subseteq Sweepers
  /\ \A i \in Index : i \in Nat
<1>1. Supporters \in Nat \ {0} /\ SweepBatch \in Nat \ {0} /\ FaucetAttempts \in Nat \ {0}
  BY DemoAssumption
<1>2. \E w : w \in Workers
  BY DemoAssumption
<1>3. "main" \notin Workers /\ "main" \in Sweepers /\ Workers \subseteq Sweepers
  BY DemoAssumption DEF Sweepers
<1>4. \A i \in Index : i \in Nat
  BY <1>1 DEF Index
<1> QED
  BY <1>1, <1>2, <1>3, <1>4

LEMMA KindsLen == \A i : Len(Kinds(i)) \in Nat /\ Len(Kinds(i)) >= 1
BY DEF Kinds

LEMMA NoHoldings == <<>> \in Holdings /\ DOMAIN <<>> = {}
<1>1. <<>> \in [{} -> Nat]
  OBVIOUS
<1>2. {} \in SUBSET Index
  OBVIOUS
<1> QED
  BY <1>1, <1>2 DEF Holdings

LEMMA NoSweepType == NoSweep \in Sweeps
<1>1. PICK h : h = <<>>
  OBVIOUS
<1>2. h \in Holdings
  BY <1>1, NoHoldings
<1>3. NoSweep = [at |-> "none", batch |-> {}, held |-> h, net |-> "none"]
  BY <1>1 DEF NoSweep
<1> QED
  BY <1>2, <1>3 DEF Sweeps, Nets

LEMMA LeastOfTwo ==
  ASSUME NEW m \in Nat, NEW n \in Nat
  PROVE  Min({m, n}) \in {m, n} /\ Min({m, n}) <= m /\ Min({m, n}) <= n
<1> DEFINE least == IF m <= n THEN m ELSE n
<1>1. \A x : x \in {m, n} /\ (\A y \in {m, n} : x <= y) <=> x = least
  OBVIOUS
<1>2. Min({m, n}) = CHOOSE x \in {m, n} : \A y \in {m, n} : x <= y
  BY DEF Min
<1> QED
  BY <1>1, <1>2

\* What SweepBatches does with a queue: it takes the first n of it, or goes.
TakesBatch(a, queue, n) ==
  /\ n \in 1..Len(queue)
  /\ pending' \in Seq(Index) /\ Len(pending') = Len(queue) - n
  /\ \A k \in 1..Len(queue) - n : pending'[k] = queue[k + n]
  /\ sweep' = [sweep EXCEPT ![a] = [at |-> "reading", batch |-> {queue[k] : k \in 1..n},
                                    held |-> <<>>, net |-> "none"]]
  /\ Enters(a)
GoesOn(a, queue) ==
  /\ pending' = queue
  /\ sweep' = [sweep EXCEPT ![a] = NoSweep]
  /\ Leaves(a)
  /\ a = "main" => queue = <<>>

LEMMA SweepBatchesDoes ==
  ASSUME NEW a \in Sweepers, NEW queue \in Seq(Index), SweepBatches(a, queue)
  PROVE  GoesOn(a, queue) \/ \E n \in Nat : TakesBatch(a, queue, n)
<1>1. CASE ~IsDue(queue, a = "main")
  <2>1. a = "main" => queue = <<>>
    BY <1>1 DEF IsDue
  <2> QED
    BY <1>1, <2>1 DEF SweepBatches, GoesOn
<1>2. CASE IsDue(queue, a = "main")
  <2> DEFINE n == Min({SweepBatch, Len(queue)})
             batch == Splice(queue)
  <2>1. Len(queue) \in Nat /\ Len(queue) # 0
    <3>1. Len(queue) >= SweepBatch \/ queue # <<>>
      BY <1>2 DEF IsDue
    <3> QED
      BY <3>1, Bounds
  <2>2. n \in 1..Len(queue)
    BY <2>1, Bounds, LeastOfTwo
  <2>3. batch = SubSeq(queue, 1, n)
    BY DEF Splice
  <2> HIDE DEF n, batch
  <2>4. /\ batch \in Seq(Index) /\ Len(batch) = n
        /\ \A k \in 1..n : batch[k] = queue[k]
    <3>1. \A k \in 1..n : queue[k] \in Index
      BY <2>1, <2>2
    <3>2. /\ SubSeq(queue, 1, n) \in Seq(Index) /\ Len(SubSeq(queue, 1, n)) = n - 1 + 1
          /\ \A k \in 1..n - 1 + 1 : SubSeq(queue, 1, n)[k] = queue[1 + k - 1]
      BY <2>2, <3>1, SubSeqProperties
    <3> QED
      BY <2>2, <2>3, <3>2
  <2>5. Range(batch) = {queue[k] : k \in 1..n}
    BY <2>4 DEF Range
  <2>6. /\ SubSeq(queue, n + 1, Len(queue)) \in Seq(Index)
        /\ Len(SubSeq(queue, n + 1, Len(queue))) = Len(queue) - n
        /\ \A k \in 1..Len(queue) - n : SubSeq(queue, n + 1, Len(queue))[k] = queue[k + n]
    <3> DEFINE rest == SubSeq(queue, n + 1, Len(queue))
    <3>0. PICK m \in Nat : m = n + 1
      BY <2>2
    <3>1. \A k \in m..Len(queue) : queue[k] \in Index
      BY <2>1, <2>2, <3>0
    <3>2. /\ SubSeq(queue, m, Len(queue)) \in Seq(Index)
          /\ Len(SubSeq(queue, m, Len(queue))) = IF m <= Len(queue) THEN Len(queue) - m + 1 ELSE 0
          /\ \A k \in 1..Len(queue) - m + 1 : SubSeq(queue, m, Len(queue))[k] = queue[m + k - 1]
      BY <2>1, <3>1, SubSeqProperties
    <3>3. rest \in Seq(Index) /\ Len(rest) = Len(queue) - n
      BY <2>1, <2>2, <3>0, <3>2
    <3>4. ASSUME NEW k \in 1..Len(queue) - n PROVE rest[k] = queue[k + n]
      <4>1. m + k - 1 = k + n /\ k \in 1..Len(queue) - m + 1
        BY <2>1, <2>2, <3>0
      <4> QED
        BY <3>0, <3>2, <4>1
    <3> QED
      BY <3>3, <3>4
  <2>7. /\ pending' = SubSeq(queue, Len(batch) + 1, Len(queue))
        /\ sweep' = [sweep EXCEPT ![a] =
             [NoSweep EXCEPT !.at = "reading", !.batch = Range(batch)]]
        /\ Enters(a)
    BY <1>2, Zenon DEF SweepBatches, batch
  <2>8. [NoSweep EXCEPT !.at = "reading", !.batch = Range(batch)] =
          [at |-> "reading", batch |-> {queue[k] : k \in 1..n}, held |-> <<>>, net |-> "none"]
    <3>1. PICK h, all : h = <<>> /\ all = Range(batch)
      OBVIOUS
    <3>2. NoSweep = [at |-> "none", batch |-> {}, held |-> h, net |-> "none"]
      BY <3>1 DEF NoSweep
    <3>3. PICK none : none = NoSweep
      OBVIOUS
    <3>4. PICK mid : mid = [none EXCEPT !.at = "reading"]
      OBVIOUS
    <3>5. mid = [at |-> "reading", batch |-> {}, held |-> h, net |-> "none"]
      BY <3>2, <3>3, <3>4
    <3>6. [none EXCEPT !.at = "reading", !.batch = all] = [mid EXCEPT !.batch = all]
      BY <3>3, <3>4, NoSweepType DEF Sweeps
    <3>7. [mid EXCEPT !.batch = all] =
            [at |-> "reading", batch |-> all, held |-> h, net |-> "none"]
      BY <3>5
    <3> QED
      BY <2>5, <3>1, <3>3, <3>6, <3>7, Zenon
  <2>9. TakesBatch(a, queue, n)
    BY <2>2, <2>4, <2>6, <2>7, <2>8 DEF TakesBatch
  <2> QED
    BY <2>2, <2>9
<1> QED
  BY <1>1, <1>2

-----------------------------------------------------------------------------
\* Types, and what a step of a supporter and a poll do.

LEMMA JobMoves ==
  ASSUME Types, NEW w \in Workers, NEW at \in {"next", "supporter", "sweeping", "left", "threw"}
  PROVE  [job EXCEPT ![w].at = at] \in [Workers -> Jobs]
<1>1. job \in [Workers -> Jobs] /\ job[w] \in Jobs
  BY DEF Types
<1>2. [job[w] EXCEPT !.at = at] \in Jobs
  BY <1>1 DEF Jobs
<1> QED
  BY <1>1, <1>2

LEMMA QueueTypes ==
  ASSUME Types, NEW a \in Sweepers, NEW queue \in Seq(Index), SweepBatches(a, queue),
         a \in Workers => job[a] \in Jobs
  PROVE  /\ pending' \in Seq(Index) /\ sweep' \in [Sweepers -> Sweeps]
         /\ main' \in {"setup", "pool", "sweeping", "receiving", "applying", "done", "failed"}
         /\ job' \in [Workers -> Jobs]
<1>1. /\ main' \in {"setup", "pool", "sweeping", "receiving", "applying", "done", "failed"}
      /\ job' \in [Workers -> Jobs]
  <2>1. ASSUME Enters(a)
        PROVE  /\ main' \in {"setup", "pool", "sweeping", "receiving", "applying", "done", "failed"}
               /\ job' \in [Workers -> Jobs]
    <3>1. CASE a \in Workers
      <4>1. job' = [job EXCEPT ![a].at = "sweeping"] /\ main' = main
        BY <2>1, <3>1 DEF Enters
      <4> QED
        BY <3>1, <4>1, JobMoves DEF Types
    <3>2. CASE a \notin Workers
      BY <2>1, <3>2 DEF Enters, Types
    <3> QED
      BY <3>1, <3>2
  <2>2. ASSUME Leaves(a)
        PROVE  /\ main' \in {"setup", "pool", "sweeping", "receiving", "applying", "done", "failed"}
               /\ job' \in [Workers -> Jobs]
    <3>1. CASE a \in Workers
      <4>1. job' = [job EXCEPT ![a].at = "next"] /\ main' = main
        BY <2>2, <3>1 DEF Leaves
      <4> QED
        BY <3>1, <4>1, JobMoves DEF Types
    <3>2. CASE a \notin Workers
      BY <2>2, <3>2 DEF Leaves, Types
    <3> QED
      BY <3>1, <3>2
  <2>3. Enters(a) \/ Leaves(a)
    BY SweepBatchesDoes DEF TakesBatch, GoesOn
  <2> QED
    BY <2>1, <2>2, <2>3
<1>2. ASSUME NEW n \in Nat, TakesBatch(a, queue, n)
      PROVE  pending' \in Seq(Index) /\ sweep' \in [Sweepers -> Sweeps]
  <2>1. PICK h, batch : h = <<>> /\ batch = {queue[k] : k \in 1..n}
    OBVIOUS
  <2>2. [at |-> "reading", batch |-> batch, held |-> h, net |-> "none"] \in Sweeps
    <3>1. batch \in SUBSET Index
      BY <1>2, <2>1 DEF TakesBatch
    <3>2. h \in Holdings
      BY <2>1, NoHoldings
    <3> QED
      BY <3>1, <3>2 DEF Sweeps, Nets
  <2>3. sweep' = [sweep EXCEPT ![a] = [at |-> "reading", batch |-> batch, held |-> h,
                                       net |-> "none"]]
    BY <1>2, <2>1, Zenon DEF TakesBatch
  <2>4. sweep \in [Sweepers -> Sweeps]
    BY DEF Types
  <2> QED
    BY <1>2, <2>2, <2>3, <2>4 DEF TakesBatch
<1>3. ASSUME GoesOn(a, queue)
      PROVE  pending' \in Seq(Index) /\ sweep' \in [Sweepers -> Sweeps]
  BY <1>3, NoSweepType DEF GoesOn, Types
<1> QED
  BY <1>1, <1>2, <1>3, SweepBatchesDoes

LEMMA DroppedType == Types => \A i \in Index : Dropped(i) \in SUBSET (Steps \X Nat)
BY DEF Types, Dropped, Flows

LEMMA RunSupporterTypes ==
  ASSUME Types, NEW i \in Index, RunSupporter(i)
  PROVE  /\ flow' \in [Index -> Flows] /\ tx' \in [Index -> Nets]
         /\ stray' \in [Index -> SUBSET (Steps \X Nat)]
         /\ \A j \in Index : j # i => flow'[j] = flow[j] /\ tx'[j] = tx[j] /\ stray'[j] = stray[j]
<1>1. /\ flow \in [Index -> Flows] /\ tx \in [Index -> Nets]
      /\ stray \in [Index -> SUBSET (Steps \X Nat)] /\ Dropped(i) \in SUBSET (Steps \X Nat)
  BY DroppedType DEF Types
<1> DEFINE Changed ==
         /\ flow' \in [Index -> Flows] /\ tx' \in [Index -> Nets]
         /\ stray' \in [Index -> SUBSET (Steps \X Nat)]
         /\ \A j \in Index : j # i => flow'[j] = flow[j] /\ tx'[j] = tx[j] /\ stray'[j] = stray[j]
<1>2. CASE RequestFaucet(i) \/ Prepare(i) \/ Contribute(i)
  BY <1>1, <1>2 DEF RequestFaucet, Prepare, Contribute, Goes, Sends, Flows, Steps, Nets
<1>3. CASE RetryFaucet(i)
  BY <1>1, <1>3 DEF RetryFaucet, Drops, Flows, Steps, Nets
<1>4. CASE ToppedUp(i)
  BY <1>1, <1>4 DEF ToppedUp, Goes, Drops, Flows, Steps, Nets
<1>5. CASE Verify(i)
  <2>1. PICK step : step = IF flow[i].given + 1 < Len(Kinds(i)) THEN "proofs" ELSE "done"
    OBVIOUS
  <2>2. flow' = [flow EXCEPT ![i].given = @ + 1, ![i].step = step]
    BY <1>5, <2>1, Zenon DEF Verify
  <2>3. step \in Steps
    BY <2>1 DEF Steps
  <2>4. tx' = tx /\ stray' = stray
    BY <1>5 DEF Verify
  <2>5. PICK mid : mid = [flow EXCEPT ![i].given = @ + 1]
    OBVIOUS
  <2>6. mid \in [Index -> Flows] /\ \A j \in Index : j # i => mid[j] = flow[j]
    BY <1>1, <2>5 DEF Flows
  <2>7. flow' = [mid EXCEPT ![i].step = step]
    BY <1>1, <2>2, <2>5 DEF Flows
  <2>8. flow' \in [Index -> Flows] /\ \A j \in Index : j # i => flow'[j] = flow[j]
    BY <2>3, <2>6, <2>7 DEF Flows
  <2> QED
    BY <1>1, <2>4, <2>8
<1>6. CASE Throws(i)
  <2>1. /\ flow' = [flow EXCEPT ![i].step = "done", ![i].error = TRUE]
        /\ tx' = [tx EXCEPT ![i] = "none"] /\ stray' = [stray EXCEPT ![i] = Dropped(i)]
    BY <1>6, Zenon DEF Throws, Drops
  <2>2. flow' \in [Index -> Flows] /\ \A j \in Index : j # i => flow'[j] = flow[j]
    BY <1>1, <2>1 DEF Flows, Steps
  <2> QED
    BY <1>1, <2>1, <2>2 DEF Nets
<1>7. \/ RequestFaucet(i) \/ Prepare(i) \/ Contribute(i)
      \/ RetryFaucet(i) \/ ToppedUp(i) \/ Verify(i) \/ Throws(i)
  BY Zenon DEF RunSupporter
<1> QED
  BY <1>2, <1>3, <1>4, <1>5, <1>6, <1>7, Zenon

LEMMA AnsweredType ==
  ASSUME NEW net, NEW P
  PROVE  /\ Answered(net, P) \in {"ok", "throws", "waiting"}
         /\ Answered(net, P) = "ok" => net = "landed"
         /\ net = "landed" => Answered(net, P) = "ok"
<1>1. CASE net = "landed"
  BY <1>1 DEF Answered
<1>2. CASE net = "failed"
  BY <1>2 DEF Answered
<1>3. CASE net \notin {"landed", "failed"}
  <2>1. Answered(net, P) = IF P THEN "throws" ELSE "waiting"
    BY <1>3, Zenon DEF Answered
  <2>2. (IF P THEN "throws" ELSE "waiting") \in {"throws", "waiting"}
    BY Zenon
  <2> QED
    BY <1>3, <2>1, <2>2
<1> QED
  BY <1>1, <1>2, <1>3

\* What a poll makes of one supporter.
PollsOne(i) ==
  \/ flow'[i] = flow[i] /\ tx'[i] = tx[i] /\ stray'[i] = stray[i]
  \/ /\ flow[i].step \in {"preparing", "transferring"} /\ tx[i] = "landed"
     /\ flow'[i] = [flow[i] EXCEPT !.step = IF @ = "preparing" THEN "proofs" ELSE "close"]
     /\ tx'[i] = "none" /\ stray'[i] = stray[i]
  \/ /\ flow[i].step \in {"preparing", "transferring"} /\ tx[i] # "landed"
     /\ flow'[i] = [flow[i] EXCEPT !.step = "done", !.error = TRUE]
     /\ tx'[i] = "none" /\ stray'[i] = Dropped(i)

LEMMA PollDoes ==
  ASSUME Types, NEW over \in SUBSET Awaiting, NEW overSweeps \in SUBSET AwaitedSweeps,
         Poll(over, overSweeps)
  PROVE  /\ \A i \in Index : PollsOne(i)
         /\ \A a \in Sweepers :
              \/ sweep'[a] = sweep[a]
              \/ /\ sweep[a].at = "waiting"
                 /\ \E at \in {"ok", "throws", "waiting"} :
                      /\ at = "ok" => sweep[a].net = "landed"
                      /\ sweep'[a] = [sweep[a] EXCEPT !.at = at]
         /\ DOMAIN flow' = Index /\ DOMAIN tx' = Index /\ DOMAIN stray' = Index
         /\ DOMAIN sweep' = Sweepers
<1> DEFINE answer == [i \in Awaiting |-> Answered(tx[i], i \in over)]
           Ends(i) == i \in Awaiting /\ answer[i] # "waiting"
<1>1. /\ flow' = [i \in Index |-> IF i \in Awaiting THEN After(i, answer[i]) ELSE flow[i]]
      /\ tx' = [i \in Index |-> IF Ends(i) THEN "none" ELSE tx[i]]
      /\ stray' = [i \in Index |-> IF Ends(i) THEN Dropped(i) ELSE stray[i]]
      /\ sweep' = [a \in Sweepers |->
           IF a \notin AwaitedSweeps THEN sweep[a]
           ELSE [sweep[a] EXCEPT !.at = Answered(sweep[a].net, a \in overSweeps)]]
  BY Zenon DEF Poll
<1>2. ASSUME NEW i \in Index PROVE PollsOne(i)
  <2>1. CASE i \notin Awaiting
    BY <1>1, <2>1 DEF PollsOne
  <2>2. CASE i \in Awaiting
    <3>1. flow[i].step \in {"preparing", "transferring"}
      BY <2>2 DEF Awaiting
    <3>2. answer[i] = Answered(tx[i], i \in over)
      BY <2>2
    <3>3. /\ answer[i] \in {"ok", "throws", "waiting"}
          /\ answer[i] = "ok" <=> tx[i] = "landed"
      BY <3>2, AnsweredType
    <3> HIDE DEF answer
    <3>4. /\ flow'[i] = After(i, answer[i])
          /\ answer[i] # "waiting" => tx'[i] = "none" /\ stray'[i] = Dropped(i)
          /\ answer[i] = "waiting" => tx'[i] = tx[i] /\ stray'[i] = stray[i]
      BY <1>1, <2>2
    <3>5. CASE answer[i] = "waiting"
      BY <3>4, <3>5 DEF PollsOne, After
    <3>6. CASE answer[i] = "throws"
      BY <3>1, <3>3, <3>4, <3>6 DEF PollsOne, After
    <3>7. CASE answer[i] = "ok"
      <4>1. stray[i] = Dropped(i)
        BY <3>3, <3>7 DEF Dropped
      <4>2. After(i, answer[i]) =
              [flow[i] EXCEPT !.step = IF @ = "preparing" THEN "proofs" ELSE "close"]
        BY <3>7, Zenon DEF After
      <4> QED
        BY <3>1, <3>3, <3>4, <3>7, <4>1, <4>2 DEF PollsOne
    <3> QED
      BY <3>3, <3>5, <3>6, <3>7
  <2> QED
    BY <2>1, <2>2
<1>3. ASSUME NEW a \in Sweepers
      PROVE  \/ sweep'[a] = sweep[a]
             \/ /\ sweep[a].at = "waiting"
                /\ \E at \in {"ok", "throws", "waiting"} :
                     /\ at = "ok" => sweep[a].net = "landed"
                     /\ sweep'[a] = [sweep[a] EXCEPT !.at = at]
  <2>1. CASE a \notin AwaitedSweeps
    BY <1>1, <2>1
  <2>2. CASE a \in AwaitedSweeps
    <3>1. PICK at : at = Answered(sweep[a].net, a \in overSweeps)
      OBVIOUS
    <3>2. at \in {"ok", "throws", "waiting"} /\ (at = "ok" => sweep[a].net = "landed")
      BY <3>1, AnsweredType
    <3>3. sweep'[a] = [sweep[a] EXCEPT !.at = at]
      BY <1>1, <2>2, <3>1
    <3> QED
      BY <2>2, <3>2, <3>3 DEF AwaitedSweeps
  <2> QED
    BY <2>1, <2>2
<1>4. DOMAIN flow' = Index /\ DOMAIN tx' = Index /\ DOMAIN stray' = Index /\ DOMAIN sweep' = Sweepers
  BY <1>1
<1> QED
  BY <1>2, <1>3, <1>4

-----------------------------------------------------------------------------
\* A supporter's part of FlowInv, kept by each of its steps.

\* What keeps one supporter's part.
Keeps(i) == FlowOne(i)' /\ \A c : Accounts(i, c) => Accounts(i, c)'

LEMMA SupporterStays ==
  ASSUME NEW i \in Index, FlowOne(i), paid \subseteq paid',
         flow'[i] = flow[i], tx'[i] = tx[i] \/ flow[i].step \notin {"transferring"},
         tx'[i] # "none" => tx[i] # "none", stray'[i] \subseteq stray[i]
  PROVE  Keeps(i)
<1>1. Contributions(i)' = Contributions(i) /\ At(i)' = At(i)
  BY DEF Contributions, At
<1>2. \A c : Accounts(i, c) => Accounts(i, c)'
  BY <1>1 DEF Accounts
<1>3. FlowOne(i)'
  BY <1>1 DEF FlowOne
<1> QED
  BY <1>2, <1>3 DEF Keeps

LEMMA ContributionGiven ==
  ASSUME NEW i \in Index, flow[i].given \in Nat, flow'[i].given = flow[i].given + 1
  PROVE  Contributions(i)' = Contributions(i) \cup {At(i)}
<1>1. 1..flow[i].given + 1 = (1..flow[i].given) \cup {flow[i].given + 1}
  OBVIOUS
<1> QED
  BY <1>1 DEF Contributions, At

\* A supporter that goes to another step, with nothing more given.
LEMMA SupporterMoves ==
  ASSUME NEW i \in Index, FlowOne(i), Types, paid' = paid,
         flow'[i].given = flow[i].given, flow'[i].error = flow[i].error,
         flow[i].step \in Steps \ {"done", "close"}, flow'[i].step \in Steps \ {"done"},
         flow[i].step = "transferring" => tx[i] = "landed" /\ flow'[i].step = "close",
         flow'[i].step = "close" => flow[i].step = "transferring",
         tx'[i] \in {"none", "pending"},
         tx'[i] = "pending" => flow'[i].step \in {"topUp", "preparing", "transferring"},
         stray'[i] \subseteq stray[i] \cup {<<"topUp", flow[i].given>>}
  PROVE  Keeps(i)
<1>1. Contributions(i)' = Contributions(i) /\ At(i)' = At(i)
  BY DEF Contributions, At
<1>2. \A c : Accounts(i, c) => Accounts(i, c)'
  BY <1>1 DEF Accounts
<1>3. \A s \in stray'[i] : s[1] = "transferring" => flow'[i].error
  BY DEF FlowOne
<1>4. FlowOne(i)'
  BY <1>1, <1>3 DEF FlowOne
<1> QED
  BY <1>2, <1>4 DEF Keeps

\* A supporter whose result carries an error.
LEMMA SupporterFails ==
  ASSUME NEW i \in Index, FlowOne(i), paid' = paid,
         flow'[i].given = flow[i].given, flow'[i].error = TRUE, flow'[i].step = "done",
         tx'[i] = "none"
  PROVE  Keeps(i)
<1>1. Contributions(i)' = Contributions(i)
  BY DEF Contributions
<1>2. FlowOne(i)'
  BY <1>1 DEF FlowOne
<1>3. ASSUME NEW c, Accounts(i, c) PROVE Accounts(i, c)'
  <2>1. c[1] = i
    BY <1>3 DEF Accounts, Contributions, At
  <2> QED
    BY <2>1 DEF Accounts
<1> QED
  BY <1>2, <1>3 DEF Keeps

LEMMA SupporterGives ==
  ASSUME NEW i \in Index, FlowOne(i), Types, paid' = paid, flow[i].step = "close",
         flow'[i].given = flow[i].given + 1, flow'[i].error = flow[i].error,
         flow'[i].step = IF flow[i].given + 1 < Len(Kinds(i)) THEN "proofs" ELSE "done",
         tx'[i] = tx[i], stray'[i] = stray[i]
  PROVE  Keeps(i)
<1>1. flow[i].given \in Nat
  BY DEF Types, Flows
<1>2. Contributions(i)' = Contributions(i) \cup {At(i)}
  BY <1>1, ContributionGiven
<1>3. \A c : Accounts(i, c) => Accounts(i, c)'
  BY <1>2 DEF Accounts, FlowOne
<1>4. FlowOne(i)'
  <2>1. Contributions(i)' \subseteq paid'
    BY <1>2 DEF FlowOne
  <2>2. /\ flow'[i].given <= Len(Kinds(i))
        /\ flow'[i].step # "done" => flow'[i].given < Len(Kinds(i)) /\ ~flow'[i].error
        /\ flow'[i].step = "done" => flow'[i].given = Len(Kinds(i))
    BY <1>1, KindsLen DEF FlowOne
  <2> QED
    BY <2>1, <2>2 DEF FlowOne
<1> QED
  BY <1>3, <1>4 DEF Keeps

LEMMA RunSupporterKeeps ==
  ASSUME Types, NEW i \in Index, RunSupporter(i), FlowOne(i)
  PROVE  Keeps(i)
<1>1. /\ flow \in [Index -> Flows] /\ tx \in [Index -> Nets] /\ stray \in [Index -> SUBSET (Steps \X Nat)]
      /\ flow[i] \in Flows
  BY DEF Types
<1>2. paid' = paid
  BY DEF RunSupporter, chain
<1>3. ASSUME RequestFaucet(i) \/ Prepare(i) \/ Contribute(i) PROVE Keeps(i)
  <2>1. /\ flow'[i].given = flow[i].given /\ flow'[i].error = flow[i].error
        /\ stray' = stray /\ tx'[i] = "pending"
        /\ flow[i].step \in {"faucet", "prepare", "proofs"}
        /\ flow'[i].step \in {"topUp", "preparing", "transferring"}
    BY <1>1, <1>3 DEF RequestFaucet, Prepare, Contribute, Goes, Sends, Flows
  <2> QED
    BY <1>2, <2>1, SupporterMoves DEF Steps
<1>4. ASSUME RetryFaucet(i) \/ ToppedUp(i) PROVE Keeps(i)
  <2>1. /\ flow[i].step = "topUp" /\ flow'[i].step \in {"faucet", "prepare"}
        /\ flow'[i].given = flow[i].given /\ flow'[i].error = flow[i].error
    <3>1. CASE RetryFaucet(i)
      BY <1>1, <3>1 DEF RetryFaucet, Flows
    <3>2. CASE ToppedUp(i)
      BY <1>1, <3>2 DEF ToppedUp, Goes, Flows
    <3> QED
      BY <1>4, <3>1, <3>2
  <2>2. tx'[i] = "none" /\ stray'[i] = Dropped(i)
    BY <1>1, <1>4 DEF RetryFaucet, ToppedUp, Drops
  <2>3. stray'[i] \subseteq stray[i] \cup {<<"topUp", flow[i].given>>}
    BY <2>1, <2>2 DEF Dropped
  <2> QED
    BY <1>2, <2>1, <2>2, <2>3, SupporterMoves DEF Steps
<1>5. ASSUME Verify(i) PROVE Keeps(i)
  <2>1. PICK step : step = IF flow[i].given + 1 < Len(Kinds(i)) THEN "proofs" ELSE "done"
    OBVIOUS
  <2>2. flow' = [flow EXCEPT ![i].given = @ + 1, ![i].step = step]
    BY <1>5, <2>1, Zenon DEF Verify
  <2>3. /\ flow'[i].given = flow[i].given + 1 /\ flow'[i].error = flow[i].error
        /\ flow'[i].step = step
    BY <1>1, <2>2 DEF Flows
  <2>4. flow[i].step = "close" /\ tx' = tx /\ stray' = stray
    BY <1>5 DEF Verify
  <2> QED
    BY <1>2, <2>1, <2>3, <2>4, SupporterGives
<1>6. ASSUME Throws(i) PROVE Keeps(i)
  <2>1. /\ flow' = [flow EXCEPT ![i].step = "done", ![i].error = TRUE]
        /\ tx' = [tx EXCEPT ![i] = "none"]
    BY <1>6, Zenon DEF Throws, Drops
  <2>2. /\ flow'[i].given = flow[i].given /\ flow'[i].error = TRUE /\ flow'[i].step = "done"
        /\ tx'[i] = "none"
    BY <1>1, <2>1 DEF Flows
  <2> QED
    BY <1>2, <2>2, SupporterFails
<1> QED
  BY <1>3, <1>4, <1>5, <1>6, Zenon DEF RunSupporter

LEMMA PollKeeps ==
  ASSUME Types, NEW i \in Index, PollsOne(i), FlowOne(i), paid' = paid
  PROVE  Keeps(i)
<1>1. flow[i] \in Flows
  BY DEF Types
<1>2. CASE flow'[i] = flow[i] /\ tx'[i] = tx[i] /\ stray'[i] = stray[i]
  BY <1>2, SupporterStays
<1>3. CASE /\ flow[i].step \in {"preparing", "transferring"} /\ tx[i] = "landed"
           /\ flow'[i] = [flow[i] EXCEPT !.step = IF @ = "preparing" THEN "proofs" ELSE "close"]
           /\ tx'[i] = "none" /\ stray'[i] = stray[i]
  <2>1. /\ flow'[i].given = flow[i].given /\ flow'[i].error = flow[i].error
        /\ flow'[i].step = IF flow[i].step = "preparing" THEN "proofs" ELSE "close"
    BY <1>1, <1>3 DEF Flows
  <2> QED
    BY <1>3, <2>1, SupporterMoves DEF Steps
<1>4. CASE /\ flow[i].step \in {"preparing", "transferring"} /\ tx[i] # "landed"
           /\ flow'[i] = [flow[i] EXCEPT !.step = "done", !.error = TRUE]
           /\ tx'[i] = "none" /\ stray'[i] = Dropped(i)
  <2>1. flow'[i].given = flow[i].given /\ flow'[i].error = TRUE /\ flow'[i].step = "done"
    BY <1>1, <1>4 DEF Flows
  <2> QED
    BY <1>4, <2>1, SupporterFails
<1> QED
  BY <1>2, <1>3, <1>4 DEF PollsOne

-----------------------------------------------------------------------------
\* What is held, read and landed of a sweep.

LEMMA HeldTypes ==
  ASSUME Types, NEW a \in Sweepers
  PROVE  /\ sweep[a] \in Sweeps
         /\ DOMAIN sweep[a].held \subseteq Index
         /\ \A i \in DOMAIN sweep[a].held : sweep[a].held[i] \in Nat
<1>1. sweep[a] \in Sweeps
  BY DEF Types
<1>2. sweep[a].held \in Holdings
  BY <1>1 DEF Sweeps
<1>3. PICK batch \in SUBSET Index : sweep[a].held \in [batch -> Nat]
  BY <1>2 DEF Holdings
<1>4. DOMAIN sweep[a].held = batch
  BY <1>3
<1> QED
  BY <1>1, <1>3, <1>4

LEMMA LandSweepDoes ==
  ASSUME Types, HoldingsInv, NEW a \in Sweepers, LandSweep(a)
  PROVE  /\ sweep[a].net = "pending" /\ sweep[a].at \in {"waiting", "ok", "throws"}
         /\ DOMAIN sweep[a].held = sweep[a].batch
         /\ \A i \in sweep[a].batch :
              i \in Index /\ sweep[a].held[i] \in Nat /\ sweep[a].held[i] <= wallet[i]
<1>1. sweep[a] \in Sweeps /\ \A i \in DOMAIN sweep[a].held : i \in Index /\ sweep[a].held[i] \in Nat
  BY HeldTypes
<1>2. sweep[a].net = "pending"
  BY DEF LandSweep
<1>3. sweep[a].at \in {"waiting", "ok", "throws"}
  BY <1>1, <1>2 DEF HoldingsInv, HoldingOne, Sweeps
<1>4. DOMAIN sweep[a].held = sweep[a].batch
  BY <1>3 DEF HoldingsInv, HoldingOne
<1>5. \A i \in DOMAIN sweep[a].held : sweep[a].held[i] <= wallet[i]
  BY <1>2 DEF HoldingsInv, HoldingOne
<1> QED
  BY <1>1, <1>2, <1>3, <1>4, <1>5

LEMMA LandSweepWallet ==
  ASSUME Types, HoldingsInv, NEW a \in Sweepers, LandSweep(a)
  PROVE  /\ wallet' \in [Index -> Nat]
         /\ \E what \in {"landed", "failed"} :
              /\ sweep' = [sweep EXCEPT ![a].net = what]
              /\ what = "landed" => sweep[a].batch \cap spent = {}
              /\ \A i \in Index : wallet'[i] =
                   IF what = "landed" /\ i \in sweep[a].batch
                   THEN wallet[i] - sweep[a].held[i] ELSE wallet[i]
<1>1. wallet \in [Index -> Nat]
  BY DEF Types
<1>2. \A i \in sweep[a].batch : sweep[a].held[i] \in Nat /\ sweep[a].held[i] <= wallet[i]
  BY LandSweepDoes
<1>3. ASSUME sweep[a].batch \cap spent = {}, sweep' = [sweep EXCEPT ![a].net = "landed"],
             wallet' = [i \in Index |-> IF i \in sweep[a].batch THEN wallet[i] - sweep[a].held[i]
                                        ELSE wallet[i]]
      PROVE  /\ wallet' \in [Index -> Nat]
             /\ \E what \in {"landed", "failed"} :
                  /\ sweep' = [sweep EXCEPT ![a].net = what]
                  /\ what = "landed" => sweep[a].batch \cap spent = {}
                  /\ \A i \in Index : wallet'[i] =
                       IF what = "landed" /\ i \in sweep[a].batch
                       THEN wallet[i] - sweep[a].held[i] ELSE wallet[i]
  <2>1. wallet' \in [Index -> Nat]
    BY <1>1, <1>2, <1>3
  <2>2. \A i \in Index : wallet'[i] = IF i \in sweep[a].batch
                   THEN wallet[i] - sweep[a].held[i] ELSE wallet[i]
    BY <1>3
  <2> QED
    BY <1>3, <2>1, <2>2
<1>4. ASSUME sweep' = [sweep EXCEPT ![a].net = "failed"], wallet' = wallet
      PROVE  /\ wallet' \in [Index -> Nat]
             /\ \E what \in {"landed", "failed"} :
                  /\ sweep' = [sweep EXCEPT ![a].net = what]
                  /\ what = "landed" => sweep[a].batch \cap spent = {}
                  /\ \A i \in Index : wallet'[i] =
                       IF what = "landed" /\ i \in sweep[a].batch
                       THEN wallet[i] - sweep[a].held[i] ELSE wallet[i]
  BY <1>1, <1>4
<1> QED
  BY <1>3, <1>4, Zenon DEF LandSweep

\* The holdings of a batch as they are read.
LEMMA ReadDoes ==
  ASSUME Types, NEW a \in Sweepers, ReadHoldings(a)
  PROVE  \/ (\A i \in sweep[a].batch : wallet[i] = 0) /\ SweepBatches(a, pending)
         \/ /\ \E held \in Holdings :
                 /\ DOMAIN held = sweep[a].batch
                 /\ \A i \in sweep[a].batch : held[i] = wallet[i]
                 /\ sweep' = [sweep EXCEPT ![a] = [at |-> "waiting", batch |-> sweep[a].batch,
                                                   held |-> held, net |-> "pending"]]
            /\ main' = main /\ job' = job /\ pending' = pending
<1>1. CASE \A i \in sweep[a].batch : wallet[i] = 0
  BY <1>1 DEF ReadHoldings
<1>2. CASE ~ \A i \in sweep[a].batch : wallet[i] = 0
  <2>1. PICK batch, held : batch = sweep[a].batch /\ held = [i \in batch |-> wallet[i]]
    OBVIOUS
  <2>2. sweep' = [sweep EXCEPT ![a] =
                   [@ EXCEPT !.at = "waiting", !.held = held, !.net = "pending"]]
        /\ main' = main /\ job' = job /\ pending' = pending
    BY <1>2, <2>1, Zenon DEF ReadHoldings
  <2>3. sweep[a] \in Sweeps /\ sweep \in [Sweepers -> Sweeps] /\ wallet \in [Index -> Nat]
    BY DEF Types
  <2>4. batch \in SUBSET Index
    BY <2>1, <2>3 DEF Sweeps
  <2>5. held \in [batch -> Nat] /\ DOMAIN held = batch /\ \A i \in batch : held[i] = wallet[i]
    BY <2>1, <2>3, <2>4
  <2>6. held \in Holdings
    BY <2>4, <2>5 DEF Holdings
  <2>7. [sweep[a] EXCEPT !.at = "waiting", !.held = held, !.net = "pending"] =
          [at |-> "waiting", batch |-> batch, held |-> held, net |-> "pending"]
    <3>1. PICK s : s = sweep[a]
      OBVIOUS
    <3>2. PICK s1 : s1 = [s EXCEPT !.at = "waiting"]
      OBVIOUS
    <3>3. PICK s2 : s2 = [s1 EXCEPT !.held = held]
      OBVIOUS
    <3>4. s1 \in Sweeps /\ s1.at = "waiting" /\ s1.batch = batch
      BY <2>1, <2>3, <3>1, <3>2 DEF Sweeps
    <3>5. s2 \in Sweeps /\ s2.at = "waiting" /\ s2.batch = batch /\ s2.held = held
      BY <2>6, <3>3, <3>4 DEF Sweeps
    <3>6. [s2 EXCEPT !.net = "pending"] =
            [at |-> "waiting", batch |-> batch, held |-> held, net |-> "pending"]
      BY <3>5 DEF Sweeps
    <3>7. [s EXCEPT !.at = "waiting", !.held = held, !.net = "pending"] =
            [[[s EXCEPT !.at = "waiting"] EXCEPT !.held = held] EXCEPT !.net = "pending"]
      BY <2>3, <3>1 DEF Sweeps
    <3> QED
      BY <3>1, <3>2, <3>3, <3>6, <3>7, Zenon
  <2> QED
    BY <2>1, <2>2, <2>5, <2>6, <2>7, Zenon
<1> QED
  BY <1>1, <1>2

-----------------------------------------------------------------------------
\* Types' is kept.

LEMMA StepTypes ==
  ASSUME Types, PoolInv, HoldingsInv, Next
  PROVE  Types'
<1>1. /\ main \in {"setup", "pool", "sweeping", "receiving", "applying", "done", "failed"}
      /\ next \in 0..Supporters /\ job \in [Workers -> Jobs] /\ flow \in [Index -> Flows]
      /\ tx \in [Index -> Nets] /\ stray \in [Index -> SUBSET (Steps \X Nat)]
      /\ pending \in Seq(Index) /\ sweep \in [Sweepers -> Sweeps] /\ wallet \in [Index -> Nat]
  BY DEF Types
<1>2. CASE Setup \/ PlanReceived \/ CreatorReceived
  BY <1>1, <1>2 DEF Types, Setup, PlanReceived, CreatorReceived, chain
<1>3. ASSUME NEW a \in Sweepers, NEW queue \in Seq(Index), SweepBatches(a, queue),
             next' = next, flow' = flow, tx' = tx, stray' = stray, wallet' = wallet
      PROVE  Types'
  <2>1. a \in Workers => job[a] \in Jobs
    BY <1>1
  <2>2. /\ pending' \in Seq(Index) /\ sweep' \in [Sweepers -> Sweeps]
        /\ main' \in {"setup", "pool", "sweeping", "receiving", "applying", "done", "failed"}
        /\ job' \in [Workers -> Jobs]
    BY <1>3, <2>1, QueueTypes
  <2> QED
    BY <1>1, <1>3, <2>2 DEF Types
<1>4. CASE PoolSettles
  <2>1. "main" \in Sweepers
    BY Bounds
  <2> QED
    BY <1>1, <1>3, <1>4, <2>1 DEF PoolSettles, chain
<1>5. ASSUME NEW over \in SUBSET Awaiting, NEW overSweeps \in SUBSET AwaitedSweeps,
             Poll(over, overSweeps)
      PROVE  Types'
  <2>1. /\ \A i \in Index : PollsOne(i)
        /\ \A a \in Sweepers :
              \/ sweep'[a] = sweep[a]
              \/ /\ sweep[a].at = "waiting"
                 /\ \E at \in {"ok", "throws", "waiting"} :
                      /\ at = "ok" => sweep[a].net = "landed"
                      /\ sweep'[a] = [sweep[a] EXCEPT !.at = at]
    BY <1>5, PollDoes
  <2>2. \A i \in Index : flow'[i] \in Flows
    <3> SUFFICES ASSUME NEW i \in Index PROVE flow'[i] \in Flows
      OBVIOUS
    <3>1. flow[i] \in Flows /\ PollsOne(i)
      BY <1>1, <2>1
    <3>2. ASSUME NEW s \in Steps PROVE [flow[i] EXCEPT !.step = s] \in Flows
      BY <3>1 DEF Flows
    <3>3. [flow[i] EXCEPT !.step = "done", !.error = TRUE] \in Flows
      BY <3>1 DEF Flows, Steps
    <3>4. CASE flow'[i] = [flow[i] EXCEPT !.step = IF @ = "preparing" THEN "proofs" ELSE "close"]
      <4>1. PICK s : s = IF flow[i].step = "preparing" THEN "proofs" ELSE "close"
        OBVIOUS
      <4>2. flow'[i] = [flow[i] EXCEPT !.step = s]
        BY <3>4, <4>1
      <4>3. s \in Steps
        BY <4>1 DEF Steps
      <4> QED
        BY <3>2, <4>2, <4>3
    <3> QED
      BY <3>1, <3>3, <3>4, Zenon DEF PollsOne
  <2>3. \A i \in Index : tx'[i] \in Nets
    BY <1>1, <2>1 DEF PollsOne, Nets
  <2>4. \A i \in Index : stray'[i] \in SUBSET (Steps \X Nat)
    BY <1>1, <2>1, DroppedType DEF PollsOne
  <2>5. \A a \in Sweepers : sweep'[a] \in Sweeps
    <3> SUFFICES ASSUME NEW a \in Sweepers PROVE sweep'[a] \in Sweeps
      OBVIOUS
    <3>1. sweep[a] \in Sweeps
      BY <1>1
    <3>2. ASSUME NEW at \in {"ok", "throws", "waiting"} PROVE [sweep[a] EXCEPT !.at = at] \in Sweeps
      BY <3>1 DEF Sweeps
    <3> QED
      BY <2>1, <3>1, <3>2
  <2>6. /\ flow' = [i \in Index |-> flow'[i]] /\ tx' = [i \in Index |-> tx'[i]]
        /\ stray' = [i \in Index |-> stray'[i]] /\ sweep' = [a \in Sweepers |-> sweep'[a]]
    BY <1>5, Zenon DEF Poll
  <2>7. /\ flow' \in [Index -> Flows] /\ tx' \in [Index -> Nets]
        /\ stray' \in [Index -> SUBSET (Steps \X Nat)] /\ sweep' \in [Sweepers -> Sweeps]
    BY <2>2, <2>3, <2>4, <2>5, <2>6, Zenon
  <2>8. UNCHANGED <<main, next, job, pending, wallet>>
    BY <1>5, Zenon DEF Poll, chain
  <2> QED
    BY <1>1, <2>7, <2>8 DEF Types
<1>6. ASSUME NEW w \in Workers, Take(w) PROVE Types'
  <2>1. UNCHANGED <<main, tx, stray, pending, sweep, wallet>>
    BY <1>6 DEF Take, chain
  <2>2. CASE next < Supporters
    <3>1. next' = next + 1 /\ next + 1 \in 0..Supporters /\ next \in Index
      BY <1>1, <1>6, <2>2, Bounds DEF Take, Index
    <3>2. job' \in [Workers -> Jobs]
      <4>1. job' = [job EXCEPT ![w] = [at |-> "supporter", with |-> next]]
        BY <1>6, <2>2, Zenon DEF Take
      <4>2. [at |-> "supporter", with |-> next] \in Jobs
        BY <3>1, Bounds DEF Jobs
      <4> QED
        BY <1>1, <4>1, <4>2
    <3>3. flow' \in [Index -> Flows]
      <4>1. flow' = [flow EXCEPT ![next].step = "faucet"]
        BY <1>6, <2>2, Zenon DEF Take
      <4>2. [flow[next] EXCEPT !.step = "faucet"] \in Flows
        BY <1>1, <3>1 DEF Flows, Steps
      <4> QED
        BY <1>1, <4>1, <4>2
    <3> QED
      BY <1>1, <2>1, <3>1, <3>2, <3>3 DEF Types
  <2>3. CASE ~(next < Supporters)
    <3>1. job' = [job EXCEPT ![w].at = "left"] /\ next' = next /\ flow' = flow
      BY <1>6, <2>3 DEF Take
    <3>2. job' \in [Workers -> Jobs]
      BY <3>1, JobMoves
    <3> QED
      BY <1>1, <2>1, <3>1, <3>2 DEF Types
  <2> QED
    BY <2>2, <2>3
<1>7. ASSUME NEW w \in Workers, Push(w) PROVE Types'
  <2>1. job[w].with \in Index
    <3>1. job[w].at = "supporter"
      BY <1>7 DEF Push
    <3>2. job[w].with \in 0..next - 1
      BY <3>1 DEF PoolInv
    <3> QED
      BY <1>1, <3>2, Bounds DEF Index
  <2>2. w \in Sweepers /\ Append(pending, job[w].with) \in Seq(Index)
    BY <1>1, <2>1, Bounds
  <2> QED
    BY <1>3, <1>7, <2>2 DEF Push, chain
<1>8. ASSUME NEW i \in Index, RunSupporter(i) PROVE Types'
  <2>1. /\ flow' \in [Index -> Flows] /\ tx' \in [Index -> Nets]
        /\ stray' \in [Index -> SUBSET (Steps \X Nat)]
    BY <1>8, RunSupporterTypes
  <2>2. UNCHANGED <<main, next, job, pending, sweep, wallet>>
    BY <1>8 DEF RunSupporter, chain, driver
  <2> QED
    BY <1>1, <2>1, <2>2 DEF Types
<1>9. ASSUME NEW i \in Index, Land(i) PROVE Types'
  <2>1. tx' \in [Index -> Nets] /\ wallet' \in [Index -> Nat]
    BY <1>1, <1>9 DEF Land, Nets
  <2> QED
    BY <1>1, <1>9, <2>1 DEF Land, Types, driver
<1>10. ASSUME NEW i \in Index, LandStray(i) PROVE Types'
  <2>1. stray' \in [Index -> SUBSET (Steps \X Nat)]
    BY <1>1, <1>10 DEF LandStray
  <2>2. wallet' \in [Index -> Nat]
    BY <1>1, <1>10 DEF LandStray
  <2> QED
    BY <1>1, <1>10, <2>1, <2>2 DEF LandStray, Types, driver
<1>11. ASSUME NEW a \in Sweepers, ReadHoldings(a) PROVE Types'
  <2>1. UNCHANGED <<next, flow, tx, stray, wallet>>
    BY <1>11 DEF ReadHoldings
  <2>2. ASSUME NEW held \in Holdings,
               sweep' = [sweep EXCEPT ![a] = [at |-> "waiting", batch |-> sweep[a].batch,
                                                   held |-> held, net |-> "pending"]],
               main' = main, job' = job, pending' = pending
        PROVE  Types'
    <3>1. [at |-> "waiting", batch |-> sweep[a].batch, held |-> held, net |-> "pending"] \in Sweeps
      BY <1>1 DEF Sweeps, Nets
    <3>2. sweep' \in [Sweepers -> Sweeps]
      BY <1>1, <2>2, <3>1
    <3> QED
      BY <1>1, <2>1, <2>2, <3>2 DEF Types
  <2>3. CASE SweepBatches(a, pending)
    BY <1>1, <1>3, <2>1, <2>3
  <2> QED
    BY <1>11, <2>2, <2>3, ReadDoes
<1>12. ASSUME NEW a \in Sweepers, LandSweep(a) PROVE Types'
  <2>1. /\ wallet' \in [Index -> Nat]
        /\ \E what \in {"landed", "failed"} : sweep' = [sweep EXCEPT ![a].net = what]
    BY <1>12, LandSweepWallet
  <2>2. sweep' \in [Sweepers -> Sweeps]
    <3>1. \A what \in {"landed", "failed"} : [sweep[a] EXCEPT !.net = what] \in Sweeps
      BY <1>1 DEF Sweeps, Nets
    <3> QED
      BY <1>1, <2>1, <3>1
  <2>3. UNCHANGED <<main, next, job, flow, tx, stray, pending>>
    BY <1>12 DEF LandSweep
  <2> QED
    BY <1>1, <2>1, <2>2, <2>3 DEF Types
<1>13. ASSUME NEW a \in Sweepers, Swept(a) PROVE Types'
  BY <1>1, <1>3, <1>13 DEF Swept, chain
<1>14. ASSUME NEW a \in Sweepers, SweepThrows(a) PROVE Types'
  <2>1. UNCHANGED <<next, flow, tx, stray, pending, wallet>>
    BY <1>14 DEF SweepThrows, chain
  <2>2. sweep' \in [Sweepers -> Sweeps]
    BY <1>1, <1>14, NoSweepType DEF SweepThrows
  <2>3. /\ main' \in {"setup", "pool", "sweeping", "receiving", "applying", "done", "failed"}
        /\ job' \in [Workers -> Jobs]
    <3>1. CASE a \in Workers
      <4>1. job' = [job EXCEPT ![a].at = "threw"] /\ main' = main
        BY <1>14, <3>1 DEF SweepThrows
      <4> QED
        BY <1>1, <3>1, <4>1, JobMoves
    <3>2. CASE a \notin Workers
      BY <1>1, <1>14, <3>2 DEF SweepThrows
    <3> QED
      BY <3>1, <3>2
  <2> QED
    BY <1>1, <2>1, <2>2, <2>3 DEF Types
<1> QED
  BY <1>2, <1>4, <1>5, <1>6, <1>7, <1>8, <1>9, <1>10, <1>11, <1>12, <1>13, <1>14, Zenon DEF Next

-----------------------------------------------------------------------------
\* FlowInv is kept.

LEMMA FlowStep ==
  ASSUME FlowInv, \A i \in Index : Keeps(i), paid' = paid
  PROVE  FlowInv'
<1>1. \A i \in Index : FlowOne(i)'
  BY DEF Keeps
<1>2. ASSUME NEW c \in paid PROVE \E i \in Index : Accounts(i, c)'
  BY DEF FlowInv, Keeps
<1> QED
  BY <1>1, <1>2 DEF FlowInv

LEMMA FlowSame ==
  ASSUME FlowInv, flow' = flow, tx' = tx, stray' = stray, paid' = paid
  PROVE  FlowInv'
BY DEF FlowInv, FlowOne, Accounts, At, Contributions

LEMMA LandFlow ==
  ASSUME Types, FlowInv, NEW i \in Index, Land(i)
  PROVE  FlowInv'
<1>1. /\ flow \in [Index -> Flows] /\ tx \in [Index -> Nets] /\ flow' = flow /\ stray' = stray
      /\ tx[i] = "pending"
  BY DEF Types, Land
<1>2. PICK outcome \in {"landed", "failed"} :
        /\ tx' = [tx EXCEPT ![i] = outcome]
        /\ paid' = IF outcome = "landed" /\ flow[i].step = "transferring"
                   THEN paid \cup {At(i)} ELSE paid
  BY Zenon DEF Land
<1>3. \A j \in Index : Contributions(j)' = Contributions(j) /\ At(j)' = At(j)
  BY <1>1 DEF Contributions, At
<1>4. \A j \in Index : \A c : Accounts(j, c)' <=> Accounts(j, c)
  BY <1>1, <1>3 DEF Accounts
<1>5. \A j \in Index \ {i} : tx'[j] = tx[j]
  BY <1>1, <1>2
<1>6. tx'[i] = outcome
  BY <1>1, <1>2
<1>7. ASSUME NEW j \in Index PROVE FlowOne(j)'
  <2>1. FlowOne(j) /\ paid \subseteq paid'
    BY <1>2 DEF FlowInv
  <2>2. tx'[j] # "none" => tx[j] # "none"
    BY <1>1, <1>5, <1>6
  <2>3. flow'[j].step = "transferring" /\ tx'[j] = "landed" => At(j)' \in paid'
    <3>1. CASE j = i
      BY <1>1, <1>2, <1>3, <1>6, <3>1
    <3>2. CASE j # i
      BY <1>1, <1>3, <1>5, <2>1, <3>2 DEF FlowOne
    <3> QED
      BY <3>1, <3>2
  <2> QED
    BY <1>1, <1>3, <2>1, <2>2, <2>3 DEF FlowOne
<1>8. ASSUME NEW c \in paid' PROVE \E j \in Index : Accounts(j, c)'
  <2>1. CASE c \in paid
    BY <1>4, <2>1 DEF FlowInv
  <2>2. CASE c \notin paid
    BY <1>2, <1>4, <2>2 DEF Accounts
  <2> QED
    BY <2>1, <2>2
<1> QED
  BY <1>7, <1>8 DEF FlowInv

LEMMA LandStrayFlow ==
  ASSUME Types, FlowInv, NEW i \in Index, LandStray(i)
  PROVE  FlowInv'
<1>1. /\ stray \in [Index -> SUBSET (Steps \X Nat)] /\ flow' = flow /\ tx' = tx
  BY DEF Types, LandStray
<1>2. PICK s \in stray[i] :
        /\ stray' = [stray EXCEPT ![i] = @ \ {s}]
        /\ \/ s[1] = "topUp" /\ paid' = paid
           \/ s[1] # "topUp" /\ paid' \in IF s[1] = "transferring"
                                          THEN {paid, paid \cup {<<i, Kinds(i)[s[2] + 1]>>}}
                                          ELSE {paid}
  BY DEF LandStray
<1>3. paid \subseteq paid' /\ (paid' # paid => s[1] = "transferring")
  BY <1>2
<1>4. \A j \in Index : \A c : Accounts(j, c)' <=> Accounts(j, c)
  BY <1>1 DEF Accounts, Contributions, At
<1>5. ASSUME NEW j \in Index PROVE FlowOne(j)'
  <2>1. FlowOne(j) /\ stray'[j] \subseteq stray[j]
    BY <1>1, <1>2 DEF FlowInv
  <2> QED
    BY <1>1, <1>3, <2>1, SupporterStays DEF Keeps
<1>6. ASSUME NEW c \in paid' PROVE \E j \in Index : Accounts(j, c)'
  <2>1. CASE c \in paid
    BY <1>4, <2>1 DEF FlowInv
  <2>2. CASE c \notin paid
    <3>1. flow[i].error /\ c[1] = i
      BY <1>2, <1>3, <2>2 DEF FlowInv, FlowOne
    <3> QED
      BY <1>4, <3>1 DEF Accounts
  <2> QED
    BY <2>1, <2>2
<1> QED
  BY <1>5, <1>6 DEF FlowInv

LEMMA TakeFlow ==
  ASSUME Types, FlowInv, PoolInv, NEW w \in Workers, Take(w)
  PROVE  FlowInv'
<1>1. /\ flow \in [Index -> Flows] /\ tx \in [Index -> Nets] /\ next \in 0..Supporters
      /\ tx' = tx /\ stray' = stray /\ paid' = paid
  BY DEF Types, Take, chain
<1>2. CASE next < Supporters
  <2>1. next \in Index /\ flow' = [flow EXCEPT ![next].step = "faucet"]
    BY <1>1, <1>2, Bounds DEF Take, Index
  <2>2. flow[next].step = "new"
    BY <1>1, <2>1, Bounds DEF PoolInv
  <2>3. flow'[next].given = flow[next].given /\ flow'[next].error = flow[next].error
        /\ flow'[next].step = "faucet"
    BY <1>1, <2>1 DEF Flows
  <2>4. FlowOne(next) /\ tx[next] = "none"
    BY <2>1, <2>2 DEF FlowInv, FlowOne
  <2>5. Keeps(next)
    BY <1>1, <2>1, <2>2, <2>3, <2>4, SupporterMoves DEF Steps
  <2>6. ASSUME NEW j \in Index, j # next PROVE Keeps(j)
    BY <1>1, <2>1, <2>6, SupporterStays DEF FlowInv
  <2> QED
    BY <1>1, <2>5, <2>6, FlowStep
<1>3. CASE ~(next < Supporters)
  BY <1>1, <1>3, FlowSame DEF Take
<1> QED
  BY <1>2, <1>3

LEMMA StepFlowInv ==
  ASSUME Types, FlowInv, PoolInv, Next
  PROVE  FlowInv'
<1>1. ASSUME NEW over \in SUBSET Awaiting, NEW overSweeps \in SUBSET AwaitedSweeps,
             Poll(over, overSweeps)
      PROVE  FlowInv'
  <2>1. paid' = paid
    BY <1>1 DEF Poll, chain
  <2>2. \A i \in Index : PollsOne(i) /\ FlowOne(i)
    BY <1>1, PollDoes DEF FlowInv
  <2>3. \A i \in Index : Keeps(i)
    BY <2>1, <2>2, PollKeeps
  <2> QED
    BY <2>1, <2>3, FlowStep
<1>2. ASSUME NEW i \in Index, RunSupporter(i) PROVE FlowInv'
  <2>1. Keeps(i) /\ paid' = paid
    BY <1>2, RunSupporterKeeps DEF FlowInv, RunSupporter, chain
  <2>2. ASSUME NEW j \in Index, j # i PROVE Keeps(j)
    <3>1. flow'[j] = flow[j] /\ tx'[j] = tx[j] /\ stray'[j] = stray[j]
      BY <1>2, <2>2, RunSupporterTypes
    <3> QED
      BY <2>1, <3>1, SupporterStays DEF FlowInv
  <2> QED
    BY <2>1, <2>2, FlowStep
<1>3. ASSUME NEW a \in Sweepers, ReadHoldings(a) \/ LandSweep(a) \/ Swept(a) \/ SweepThrows(a)
      PROVE  FlowInv'
  BY <1>3, FlowSame, Zenon DEF ReadHoldings, LandSweep, Swept, SweepThrows, chain
<1>4. CASE Setup \/ PoolSettles \/ PlanReceived \/ CreatorReceived
  BY <1>4, FlowSame DEF Setup, PoolSettles, PlanReceived, CreatorReceived, chain
<1>5. ASSUME NEW w \in Workers, Push(w) PROVE FlowInv'
  BY <1>5, FlowSame, Zenon DEF Push, chain
<1> QED
  BY <1>1, <1>2, <1>3, <1>4, <1>5, LandFlow, LandStrayFlow, TakeFlow, Zenon DEF Next

-----------------------------------------------------------------------------
\* PoolInv is kept.

LEMMA PoolFlow ==
  ASSUME PoolInv,
         \A i \in Index : /\ flow'[i].step = "new" <=> flow[i].step = "new"
                          /\ flow[i].step = "done" => flow'[i].step = "done",
         \A a \in Sweepers : sweep'[a].at = "none" <=> sweep[a].at = "none",
         main' = main, next' = next, job' = job, pending' = pending
  PROVE  PoolInv'
<1>1. \A w \in Workers, i \in Index : Has(w, i)' <=> Has(w, i)
  BY DEF Has
<1>2. Rejected' = Rejected /\ Resolved' = Resolved
  BY DEF Rejected, Resolved
<1>3. /\ \A i \in Index : flow'[i].step # "new" <=> i < next
      /\ \A i \in Index : flow'[i].step \in {"new", "done"} \/ \E w \in Workers : Has(w, i)
  BY DEF PoolInv
<1>4. \A w \in Workers :
       /\ job[w].at = "supporter" => job[w].with \in 0..next - 1
       /\ job[w].at = "left" => next = Supporters
       /\ job[w].at = "sweeping" <=> sweep'[w].at # "none"
  BY Bounds DEF PoolInv
<1>5. main = "sweeping" <=> sweep'["main"].at # "none"
  BY Bounds DEF PoolInv
<1>6. \A v, w \in Workers, i \in Index : Has(v, i) /\ Has(w, i) => v = w
  BY DEF PoolInv
<1>7. /\ main = "sweeping" => Rejected \/ Resolved
      /\ main \in {"receiving", "applying", "done"} => Resolved /\ pending = <<>>
  BY DEF PoolInv
<1> QED
  BY <1>1, <1>2, <1>3, <1>4, <1>5, <1>6, <1>7, Zenon DEF PoolInv

\* A worker's place in the pool after it finished what it had.
LEMMA WorkerGoes ==
  ASSUME Types, PoolInv, Running, NEW a \in Workers,
         job[a].at \in {"supporter", "sweeping"},
         job[a].at = "supporter" => flow[job[a].with].step = "done",
         NEW at \in {"next", "sweeping", "threw"}, NEW s \in Sweeps,
         job' = [job EXCEPT ![a].at = at], sweep' = [sweep EXCEPT ![a] = s],
         at = "sweeping" <=> s.at # "none",
         main' = main, next' = next, flow' = flow
  PROVE  PoolInv'
<1>1. job \in [Workers -> Jobs] /\ sweep \in [Sweepers -> Sweeps] /\ next \in 0..Supporters
  BY DEF Types
<1>2. /\ job'[a].at = at
      /\ \A w \in Workers : w # a => job'[w] = job[w]
  BY <1>1 DEF Jobs
<1>3. a \in Sweepers /\ "main" \in Sweepers /\ a # "main" /\ Workers \subseteq Sweepers
  BY Bounds
<1>4. sweep'[a] = s /\ \A b \in Sweepers : b # a => sweep'[b] = sweep[b]
  BY <1>1, <1>3
<1>5. ~Resolved
  BY DEF Resolved
<1>6. \A w \in Workers, i \in Index : Has(w, i)' <=> Has(w, i) /\ w # a
  BY <1>2 DEF Has
<1>7. main = "sweeping" => Rejected'
  <2>1. Rejected => Rejected'
    BY <1>2 DEF Rejected
  <2> QED
    BY <1>5, <2>1 DEF PoolInv
<1>8. main \notin {"receiving", "applying", "done"}
  BY <1>5 DEF PoolInv
<1>9. ASSUME NEW i \in Index
      PROVE  flow[i].step \in {"new", "done"} \/ \E w \in Workers : Has(w, i)'
  BY <1>6 DEF PoolInv, Has
<1>10. \A w \in Workers :
       /\ job'[w].at = "supporter" => job'[w].with \in 0..next - 1
       /\ job'[w].at = "left" => next = Supporters
       /\ job'[w].at = "sweeping" <=> sweep'[w].at # "none"
  BY <1>2, <1>3, <1>4 DEF PoolInv
<1>11. main = "sweeping" <=> sweep'["main"].at # "none"
  BY <1>3, <1>4 DEF PoolInv
<1>12. \A v, w \in Workers, i \in Index : Has(v, i)' /\ Has(w, i)' => v = w
  BY <1>6 DEF PoolInv
<1>13. \A i \in Index : flow[i].step # "new" <=> i < next
  BY DEF PoolInv
<1> QED
  BY <1>7, <1>8, <1>9, <1>10, <1>11, <1>12, <1>13, Zenon DEF PoolInv

\* What Promise.all, and finally, come to.
LEMMA MainGoes ==
  ASSUME Types, PoolInv, Rejected \/ Resolved, NEW s \in Sweeps,
         sweep' = [sweep EXCEPT !["main"] = s],
         main' = "sweeping" <=> s.at # "none",
         main' \in {"receiving", "applying", "done"} => Resolved /\ pending' = <<>>,
         job' = job, next' = next, flow' = flow
  PROVE  PoolInv'
<1>1. sweep \in [Sweepers -> Sweeps]
  BY DEF Types
<1>2. "main" \in Sweepers /\ "main" \notin Workers /\ Workers \subseteq Sweepers
  BY Bounds
<1>3. sweep'["main"] = s /\ \A w \in Workers : sweep'[w] = sweep[w]
  BY <1>1, <1>2
<1>4. Rejected' = Rejected /\ Resolved' = Resolved
  BY DEF Rejected, Resolved
<1>5. \A w \in Workers, i \in Index : Has(w, i)' <=> Has(w, i)
  BY DEF Has
<1>6. /\ \A i \in Index : flow[i].step # "new" <=> i < next
      /\ \A i \in Index : flow[i].step \in {"new", "done"} \/ \E w \in Workers : Has(w, i)
      /\ \A v, w \in Workers, i \in Index : Has(v, i) /\ Has(w, i) => v = w
  BY DEF PoolInv
<1>7. \A w \in Workers :
       /\ job[w].at = "supporter" => job[w].with \in 0..next - 1
       /\ job[w].at = "left" => next = Supporters
       /\ job[w].at = "sweeping" <=> sweep'[w].at # "none"
  BY <1>3 DEF PoolInv
<1> QED
  BY <1>3, <1>4, <1>5, <1>6, <1>7, Zenon DEF PoolInv

LEMMA PoolQueue ==
  ASSUME Types, PoolInv, Running, NEW a \in Sweepers, NEW queue \in Seq(Index),
         SweepBatches(a, queue), next' = next, flow' = flow,
         a \in Workers => /\ job[a].at \in {"supporter", "sweeping"}
                          /\ job[a].at = "supporter" => flow[job[a].with].step = "done",
         a = "main" => Rejected \/ Resolved
  PROVE  PoolInv'
<1>1. PICK s \in Sweeps :
        /\ sweep' = [sweep EXCEPT ![a] = s]
        /\ \/ s.at = "reading" /\ Enters(a)
           \/ s.at = "none" /\ Leaves(a) /\ pending' = queue /\ (a = "main" => queue = <<>>)
  <2>1. ASSUME NEW n \in Nat, TakesBatch(a, queue, n)
        PROVE  \E s \in Sweeps : sweep' = [sweep EXCEPT ![a] = s] /\ s.at = "reading" /\ Enters(a)
    <3>1. PICK h, batch : h = <<>> /\ batch = {queue[k] : k \in 1..n}
      OBVIOUS
    <3>2. batch \in SUBSET Index
      BY <2>1, <3>1 DEF TakesBatch
    <3>3. h \in Holdings
      BY <3>1, NoHoldings
    <3>4. PICK s : s = [at |-> "reading", batch |-> batch, held |-> h, net |-> "none"]
      OBVIOUS
    <3>5. s \in Sweeps /\ s.at = "reading"
      BY <3>2, <3>3, <3>4 DEF Sweeps, Nets
    <3>6. sweep' = [sweep EXCEPT ![a] = s] /\ Enters(a)
      BY <2>1, <3>1, <3>4, Zenon DEF TakesBatch
    <3> QED
      BY <3>5, <3>6
  <2>2. NoSweep \in Sweeps /\ NoSweep.at = "none"
    BY NoSweepType DEF NoSweep
  <2> QED
    BY <2>1, <2>2, SweepBatchesDoes DEF GoesOn
<1>2. CASE a \in Workers
  <2>1. CASE s.at = "reading" /\ Enters(a)
    <3>1. job' = [job EXCEPT ![a].at = "sweeping"] /\ main' = main
      BY <1>2, <2>1 DEF Enters
    <3> QED
      BY <1>1, <1>2, <2>1, <3>1, WorkerGoes
  <2>2. CASE s.at = "none" /\ Leaves(a)
    <3>1. job' = [job EXCEPT ![a].at = "next"] /\ main' = main
      BY <1>2, <2>2 DEF Leaves
    <3> QED
      BY <1>1, <1>2, <2>2, <3>1, WorkerGoes
  <2> QED
    BY <1>1, <2>1, <2>2
<1>3. CASE a \notin Workers
  <2>1. a = "main"
    BY <1>3 DEF Sweepers
  <2>2. CASE s.at = "reading" /\ Enters(a)
    <3>1. main' = "sweeping" /\ job' = job
      BY <1>3, <2>2 DEF Enters
    <3> QED
      BY <1>1, <2>1, <2>2, <3>1, MainGoes
  <2>3. CASE s.at = "none" /\ Leaves(a) /\ pending' = queue /\ (a = "main" => queue = <<>>)
    <3>1. job' = job /\ main' = IF Rejected THEN "failed" ELSE "receiving"
      BY <1>3, <2>3 DEF Leaves
    <3>2. main' \in {"failed", "receiving"} /\ (main' = "receiving" => Resolved)
      BY <2>1, <3>1
    <3> QED
      BY <1>1, <2>1, <2>3, <3>1, <3>2, MainGoes
  <2> QED
    BY <1>1, <2>2, <2>3
<1> QED
  BY <1>2, <1>3

LEMMA TakePool ==
  ASSUME Types, PoolInv, NEW w \in Workers, Take(w)
  PROVE  PoolInv'
<1>1. /\ flow \in [Index -> Flows] /\ job \in [Workers -> Jobs] /\ next \in 0..Supporters
      /\ main' = main /\ sweep' = sweep /\ job[w].at = "next" /\ main \in {"pool", "sweeping"}
  BY DEF Types, Take
<1>2. /\ \A i \in Index : flow[i].step # "new" <=> i < next
      /\ \A i \in Index : flow[i].step \in {"new", "done"} \/ \E v \in Workers : Has(v, i)
      /\ \A u, v \in Workers, i \in Index : Has(u, i) /\ Has(v, i) => u = v
      /\ \A v \in Workers :
           /\ job[v].at = "supporter" => job[v].with \in 0..next - 1
           /\ job[v].at = "left" => next = Supporters
           /\ job[v].at = "sweeping" <=> sweep[v].at # "none"
      /\ main = "sweeping" <=> sweep["main"].at # "none"
  BY DEF PoolInv
<1>3. main = "sweeping" => Rejected
  BY <1>1 DEF PoolInv, Resolved
<1>4. CASE next < Supporters
  <2>1. /\ next \in Index /\ flow' = [flow EXCEPT ![next].step = "faucet"] /\ next' = next + 1
        /\ job' = [job EXCEPT ![w] = [at |-> "supporter", with |-> next]]
    BY <1>1, <1>4, Bounds DEF Take, Index
  <2>2. /\ job'[w].at = "supporter" /\ job'[w].with = next
        /\ \A v \in Workers : v # w => job'[v] = job[v]
    BY <1>1, <2>1
  <2>3. /\ flow'[next].step = "faucet"
        /\ \A i \in Index : i # next => flow'[i] = flow[i]
    BY <1>1, <2>1 DEF Flows
  <2>4. \A v \in Workers, i \in Index :
          Has(v, i)' <=> IF v = w THEN i = next ELSE Has(v, i)
    BY <2>2 DEF Has
  <2>5. \A v \in Workers : ~Has(v, next) /\ job[v].at # "left"
    BY <1>1, <1>2, <1>4, Bounds DEF Has
  <2>6. \A i \in Index : flow'[i].step # "new" <=> i < next'
    <3> SUFFICES ASSUME NEW i \in Index PROVE flow'[i].step # "new" <=> i < next + 1
      BY <2>1
    <3>1. CASE i = next
      BY <1>1, <2>3, <3>1, Bounds
    <3>2. CASE i # next
      <4>1. i \in Nat /\ next \in Nat
        BY <1>1, Bounds
      <4>2. i < next <=> i < next + 1
        BY <3>2, <4>1
      <4>3. flow'[i] = flow[i] /\ (flow[i].step # "new" <=> i < next)
        BY <1>2, <2>3, <3>2
      <4> QED
        BY <4>2, <4>3
    <3> QED
      BY <3>1, <3>2
  <2>7. \A i \in Index : flow'[i].step \in {"new", "done"} \/ \E v \in Workers : Has(v, i)'
    <3> SUFFICES ASSUME NEW i \in Index
                 PROVE  flow'[i].step \in {"new", "done"} \/ \E v \in Workers : Has(v, i)'
      OBVIOUS
    <3>1. CASE i = next
      BY <2>4, <3>1
    <3>2. CASE i # next
      <4>1. Has(w, i) => FALSE
        BY <1>1 DEF Has
      <4> QED
        BY <1>2, <2>3, <2>4, <3>2, <4>1
    <3> QED
      BY <3>1, <3>2
  <2>8. \A v \in Workers :
          /\ job'[v].at = "supporter" => job'[v].with \in 0..next' - 1
          /\ job'[v].at = "left" => next' = Supporters
          /\ job'[v].at = "sweeping" <=> sweep[v].at # "none"
    <3> SUFFICES ASSUME NEW v \in Workers
                 PROVE  /\ job'[v].at = "supporter" => job'[v].with \in 0..next' - 1
                        /\ job'[v].at = "left" => next' = Supporters
                        /\ job'[v].at = "sweeping" <=> sweep[v].at # "none"
      OBVIOUS
    <3>1. CASE v = w
      BY <1>1, <1>2, <2>1, <2>2, <3>1
    <3>2. CASE v # w
      BY <1>1, <1>2, <2>1, <2>2, <2>5, <3>2
    <3> QED
      BY <3>1, <3>2
  <2>9. \A u, v \in Workers, i \in Index : Has(u, i)' /\ Has(v, i)' => u = v
    BY <1>2, <2>4, <2>5
  <2>10. main = "sweeping" => Rejected'
    <3>1. Rejected => Rejected'
      BY <1>1, <2>2 DEF Rejected
    <3> QED
      BY <1>3, <3>1
  <2> QED
    BY <1>1, <1>2, <2>6, <2>7, <2>8, <2>9, <2>10, Zenon DEF PoolInv
<1>5. CASE ~(next < Supporters)
  <2>1. job' = [job EXCEPT ![w].at = "left"] /\ next' = next /\ flow' = flow
    BY <1>5 DEF Take
  <2>2. next = Supporters
    BY <1>1, <1>5, Bounds
  <2>3. job'[w].at = "left" /\ \A v \in Workers : v # w => job'[v] = job[v]
    BY <1>1, <2>1 DEF Jobs
  <2>4. \A v \in Workers, i \in Index : Has(v, i)' <=> Has(v, i)
    BY <1>1, <2>3 DEF Has
  <2>5. \A v \in Workers :
          /\ job'[v].at = "supporter" => job'[v].with \in 0..next - 1
          /\ job'[v].at = "left" => next = Supporters
          /\ job'[v].at = "sweeping" <=> sweep[v].at # "none"
    BY <1>1, <1>2, <2>2, <2>3
  <2>6. main = "sweeping" => Rejected'
    <3>1. Rejected => Rejected'
      BY <1>1, <2>3 DEF Rejected
    <3> QED
      BY <1>3, <3>1
  <2> QED
    BY <1>1, <1>2, <2>1, <2>4, <2>5, <2>6, Zenon DEF PoolInv
<1> QED
  BY <1>4, <1>5

LEMMA RunSupporterSteps ==
  ASSUME Types, NEW i \in Index, RunSupporter(i)
  PROVE  /\ flow[i].step \notin {"new", "done"} /\ flow'[i].step # "new"
         /\ \A j \in Index : j # i => flow'[j] = flow[j]
<1>1. flow \in [Index -> Flows] /\ flow[i] \in Flows
  BY DEF Types
<1>2. \A j \in Index : j # i => flow'[j] = flow[j]
  BY RunSupporterTypes
<1>3. ASSUME NEW step, flow' = [flow EXCEPT ![i].step = step] PROVE flow'[i].step = step
  BY <1>1, <1>3 DEF Flows
<1>4. CASE RequestFaucet(i) \/ Prepare(i) \/ Contribute(i) \/ ToppedUp(i)
  BY <1>1, <1>2, <1>3, <1>4 DEF RequestFaucet, Prepare, Contribute, ToppedUp, Goes
<1>5. CASE RetryFaucet(i)
  BY <1>1, <1>2, <1>5 DEF RetryFaucet, Flows
<1>6. CASE Verify(i)
  <2>1. PICK step : step = IF flow[i].given + 1 < Len(Kinds(i)) THEN "proofs" ELSE "done"
    OBVIOUS
  <2>2. flow' = [flow EXCEPT ![i].given = @ + 1, ![i].step = step] /\ flow[i].step = "close"
    BY <1>6, <2>1, Zenon DEF Verify
  <2>3. flow'[i].step = step
    BY <1>1, <2>2 DEF Flows
  <2>4. step # "new"
    BY <2>1
  <2> QED
    BY <1>2, <2>2, <2>3, <2>4
<1>7. CASE Throws(i)
  <2>1. /\ flow' = [flow EXCEPT ![i].step = "done", ![i].error = TRUE]
        /\ flow[i].step \in {"faucet", "topUp", "prepare", "proofs", "close"}
    BY <1>7, Zenon DEF Throws
  <2>2. flow'[i].step = "done"
    BY <1>1, <2>1 DEF Flows
  <2>3. flow[i].step \notin {"new", "done"}
    BY <2>1
  <2> QED
    BY <1>2, <2>2, <2>3
<1> QED
  BY <1>4, <1>5, <1>6, <1>7, Zenon DEF RunSupporter

LEMMA PollSteps ==
  ASSUME Types, NEW i \in Index, PollsOne(i)
  PROVE  /\ flow'[i].step = "new" <=> flow[i].step = "new"
         /\ flow[i].step = "done" => flow'[i] = flow[i]
<1>1. flow[i] \in Flows
  BY DEF Types
<1>2. CASE flow'[i] = flow[i]
  BY <1>2
<1>3. CASE /\ flow[i].step \in {"preparing", "transferring"}
           /\ flow'[i] = [flow[i] EXCEPT !.step = IF @ = "preparing" THEN "proofs" ELSE "close"]
  BY <1>1, <1>3 DEF Flows
<1>4. CASE /\ flow[i].step \in {"preparing", "transferring"}
           /\ flow'[i] = [flow[i] EXCEPT !.step = "done", !.error = TRUE]
  BY <1>1, <1>4 DEF Flows
<1> QED
  BY <1>2, <1>3, <1>4 DEF PollsOne

LEMMA PollSweeps ==
  ASSUME Types, NEW over \in SUBSET Awaiting, NEW overSweeps \in SUBSET AwaitedSweeps,
         Poll(over, overSweeps), NEW a \in Sweepers
  PROVE  /\ sweep'[a].batch = sweep[a].batch /\ sweep'[a].held = sweep[a].held
         /\ sweep'[a].net = sweep[a].net
         /\ \/ sweep'[a].at = sweep[a].at
            \/ /\ sweep[a].at = "waiting" /\ sweep'[a].at \in {"ok", "throws"}
               /\ sweep'[a].at = "ok" => sweep[a].net = "landed"
<1>1. sweep[a] \in Sweeps
  BY DEF Types
<1>2. \/ sweep'[a] = sweep[a]
      \/ /\ sweep[a].at = "waiting"
         /\ \E at \in {"ok", "throws", "waiting"} :
              /\ at = "ok" => sweep[a].net = "landed"
              /\ sweep'[a] = [sweep[a] EXCEPT !.at = at]
  BY PollDoes
<1>3. ASSUME NEW at \in {"ok", "throws", "waiting"}, sweep[a].at = "waiting",
             at = "ok" => sweep[a].net = "landed", sweep'[a] = [sweep[a] EXCEPT !.at = at]
      PROVE  /\ sweep'[a].batch = sweep[a].batch /\ sweep'[a].held = sweep[a].held
             /\ sweep'[a].net = sweep[a].net
             /\ \/ sweep'[a].at = sweep[a].at
                \/ /\ sweep[a].at = "waiting" /\ sweep'[a].at \in {"ok", "throws"}
                   /\ sweep'[a].at = "ok" => sweep[a].net = "landed"
  BY <1>1, <1>3 DEF Sweeps
<1> QED
  BY <1>2, <1>3

LEMMA SweepThrowsPool ==
  ASSUME Types, PoolInv, NEW a \in Sweepers, SweepThrows(a)
  PROVE  PoolInv'
<1>1. /\ sweep' = [sweep EXCEPT ![a] = NoSweep] /\ NoSweep \in Sweeps /\ NoSweep.at = "none"
      /\ Running /\ sweep[a].at # "none" /\ next' = next /\ flow' = flow /\ pending' = pending
  BY NoSweepType DEF SweepThrows, NoSweep
<1>2. CASE a \in Workers
  <2>1. job' = [job EXCEPT ![a].at = "threw"] /\ main' = main
    BY <1>2 DEF SweepThrows
  <2>2. job[a].at = "sweeping"
    BY <1>1, <1>2 DEF PoolInv
  <2> QED
    BY <1>1, <1>2, <2>1, <2>2, WorkerGoes
<1>3. CASE a \notin Workers
  <2>1. a = "main" /\ main' = "failed" /\ job' = job
    BY <1>3 DEF Sweepers, SweepThrows
  <2>2. Rejected \/ Resolved
    BY <1>1, <2>1 DEF PoolInv
  <2> QED
    BY <1>1, <2>1, <2>2, MainGoes
<1> QED
  BY <1>2, <1>3

LEMMA StepPoolInv ==
  ASSUME Types, PoolInv, HoldingsInv, Next
  PROVE  PoolInv'
<1>0. pending \in Seq(Index) /\ sweep \in [Sweepers -> Sweeps] /\ job \in [Workers -> Jobs]
  BY DEF Types
<1>1. CASE Setup
  BY <1>1, Zenon DEF Setup, PoolInv, Has, Rejected, Resolved
<1>2. CASE PlanReceived \/ CreatorReceived
  BY <1>2, Zenon DEF PlanReceived, CreatorReceived, PoolInv, Has, Rejected, Resolved
<1>3. ASSUME NEW over \in SUBSET Awaiting, NEW overSweeps \in SUBSET AwaitedSweeps,
             Poll(over, overSweeps)
      PROVE  PoolInv'
  <2>1. \A i \in Index : /\ flow'[i].step = "new" <=> flow[i].step = "new"
                         /\ flow[i].step = "done" => flow'[i].step = "done"
    BY <1>3, PollDoes, PollSteps
  <2>2. \A a \in Sweepers : sweep'[a].at = "none" <=> sweep[a].at = "none"
    BY <1>3, PollSweeps
  <2>3. main' = main /\ next' = next /\ job' = job /\ pending' = pending
    BY <1>3, Zenon DEF Poll
  <2> QED
    BY <2>1, <2>2, <2>3, PoolFlow
<1>4. ASSUME NEW i \in Index, RunSupporter(i) PROVE PoolInv'
  <2>1. \A j \in Index : /\ flow'[j].step = "new" <=> flow[j].step = "new"
                         /\ flow[j].step = "done" => flow'[j].step = "done"
    BY <1>4, RunSupporterSteps
  <2> QED
    BY <1>4, <2>1, PoolFlow DEF RunSupporter, driver
<1>5. ASSUME NEW i \in Index, Land(i) \/ LandStray(i) PROVE PoolInv'
  BY <1>5, PoolFlow DEF Land, LandStray, driver
<1>6. ASSUME NEW a \in Sweepers, LandSweep(a) PROVE PoolInv'
  <2>1. \A b \in Sweepers : sweep'[b].at = sweep[b].at
    <3>1. PICK what : sweep' = [sweep EXCEPT ![a].net = what]
      BY <1>6, LandSweepWallet
    <3>2. sweep[a] \in Sweeps
      BY <1>0
    <3>3. [sweep[a] EXCEPT !.net = what].at = sweep[a].at
      BY <3>2 DEF Sweeps
    <3> QED
      BY <1>0, <3>1, <3>3
  <2> QED
    BY <1>6, <2>1, PoolFlow, Zenon DEF LandSweep
<1>7. ASSUME NEW a \in Sweepers, sweep[a].at # "none", Running
      PROVE  /\ a \in Workers => job[a].at \in {"supporter", "sweeping"} /\ job[a].at # "supporter"
             /\ a = "main" => Rejected \/ Resolved
  BY <1>7 DEF PoolInv
<1>8. ASSUME NEW a \in Sweepers, Swept(a) PROVE PoolInv'
  <2>1. /\ sweep[a].at # "none" /\ Running /\ SweepBatches(a, pending)
        /\ next' = next /\ flow' = flow
    BY <1>8 DEF Swept
  <2> QED
    BY <1>0, <1>7, <2>1, PoolQueue
<1>9. ASSUME NEW a \in Sweepers, ReadHoldings(a) PROVE PoolInv'
  <2>1. sweep[a].at = "reading" /\ Running /\ next' = next /\ flow' = flow
    BY <1>9 DEF ReadHoldings
  <2>2. CASE SweepBatches(a, pending)
    BY <1>0, <1>7, <2>1, <2>2, PoolQueue
  <2>3. ASSUME NEW held \in Holdings,
               sweep' = [sweep EXCEPT ![a] = [at |-> "waiting", batch |-> sweep[a].batch,
                                                   held |-> held, net |-> "pending"]],
               main' = main, job' = job, pending' = pending
        PROVE  PoolInv'
    <3>1. \A b \in Sweepers : sweep'[b].at = "none" <=> sweep[b].at = "none"
      <4> SUFFICES ASSUME NEW b \in Sweepers PROVE sweep'[b].at = "none" <=> sweep[b].at = "none"
        OBVIOUS
      <4>1. CASE b = a
        BY <1>0, <2>1, <2>3, <4>1
      <4>2. CASE b # a
        BY <1>0, <2>3, <4>2
      <4> QED
        BY <4>1, <4>2
    <3> QED
      BY <2>1, <2>3, <3>1, PoolFlow
  <2> QED
    BY <1>9, <2>2, <2>3, ReadDoes
<1>10. CASE PoolSettles
  <2>1. "main" \in Sweepers /\ "main" \notin Workers
    BY Bounds
  <2>2. Running /\ (Rejected \/ Resolved) /\ SweepBatches("main", pending) /\ next' = next
        /\ flow' = flow
    BY <1>10 DEF PoolSettles, Running
  <2> QED
    BY <1>0, <2>1, <2>2, PoolQueue
<1>11. ASSUME NEW w \in Workers, Push(w) PROVE PoolInv'
  <2>1. w \in Sweepers /\ w # "main"
    BY Bounds
  <2>2. /\ Running /\ job[w].at = "supporter" /\ flow[job[w].with].step = "done"
        /\ SweepBatches(w, Append(pending, job[w].with)) /\ next' = next /\ flow' = flow
    BY <1>11 DEF Push
  <2>3. job[w].with \in Index
    <3>1. job[w].with \in 0..next - 1 /\ next \in 0..Supporters
      BY <2>2 DEF PoolInv, Types
    <3> QED
      BY <3>1, Bounds DEF Index
  <2>4. Append(pending, job[w].with) \in Seq(Index)
    BY <1>0, <2>3
  <2> QED
    BY <2>1, <2>2, <2>4, PoolQueue
<1> QED
  BY <1>1, <1>2, <1>3, <1>4, <1>5, <1>6, <1>8, <1>9, <1>10, <1>11, TakePool, SweepThrowsPool,
     Zenon DEF Next

-----------------------------------------------------------------------------
\* QueueInv is kept.

LEMMA QueueSame ==
  ASSUME Types, QueueInv, pending' = pending,
         \A a \in Sweepers : sweep'[a].batch \subseteq sweep[a].batch,
         \A i \in Index : Settled(i) => Settled(i)'
  PROVE  QueueInv'
<1>1. \A k \in 1..Len(pending) : pending[k] \in Index
  BY DEF Types
<1>2. \A a \in Sweepers : sweep[a].batch \subseteq Index
  BY DEF Types, Sweeps
<1>3. \A j, k \in 1..Len(pending) : pending[j] = pending[k] => j = k
  BY DEF QueueInv
<1>4. \A k \in 1..Len(pending) :
       Settled(pending[k])' /\ \A a \in Sweepers : pending[k] \notin sweep'[a].batch
  BY <1>1 DEF QueueInv
<1>5. \A a \in Sweepers : \A i \in sweep'[a].batch :
       Settled(i)' /\ \A b \in Sweepers : i \in sweep'[b].batch => a = b
  BY <1>2 DEF QueueInv
<1>6. \A k \in 1..Len(pending) : Settled(pending[k])'
  <2> SUFFICES ASSUME NEW k \in 1..Len(pending) PROVE Settled(pending[k])'
    OBVIOUS
  <2>1. PICK i : i = pending[k]
    OBVIOUS
  <2>2. Settled(i)'
    BY <1>4, <2>1
  <2>3. i = pending'[k]
    BY <2>1
  <2> QED
    BY <2>2, <2>3 DEF Settled, Has
<1> QED
  BY <1>3, <1>4, <1>5, <1>6 DEF QueueInv, Settled, Has

LEMMA HasAfter ==
  ASSUME Types, NEW a \in Sweepers, NEW queue \in Seq(Index), SweepBatches(a, queue)
  PROVE  /\ \A v \in Workers : \A i : Has(v, i)' => Has(v, i)
         /\ a \in Workers => \A i : ~Has(a, i)'
<1>1. job \in [Workers -> Jobs]
  BY DEF Types
<1>2. Enters(a) \/ Leaves(a)
  BY SweepBatchesDoes DEF TakesBatch, GoesOn
<1>3. CASE a \in Workers
  <2>1. PICK at \in {"next", "sweeping"} : job' = [job EXCEPT ![a].at = at]
    BY <1>2, <1>3 DEF Enters, Leaves
  <2>2. job'[a].at = at /\ \A v \in Workers : v # a => job'[v] = job[v]
    BY <1>1, <1>3, <2>1 DEF Jobs
  <2> QED
    BY <1>3, <2>2 DEF Has
<1>4. CASE a \notin Workers
  <2>1. job' = job
    BY <1>2, <1>4 DEF Enters, Leaves
  <2> QED
    BY <1>4, <2>1 DEF Has
<1> QED
  BY <1>3, <1>4

\* A queue that may be swept by a: what is in it is settled, in it once, and in no other sweep.
MayBeSwept(a, queue) ==
  /\ \A j, k \in 1..Len(queue) : queue[j] = queue[k] => j = k
  /\ \A k \in 1..Len(queue) :
       Settled(queue[k])' /\ \A b \in Sweepers \ {a} : queue[k] \notin sweep[b].batch

LEMMA QueueSweep ==
  ASSUME Types, QueueInv, NEW a \in Sweepers, NEW queue \in Seq(Index), SweepBatches(a, queue),
         MayBeSwept(a, queue), \A i \in Index : Settled(i) => Settled(i)'
  PROVE  QueueInv'
<1>1. /\ sweep \in [Sweepers -> Sweeps] /\ \A b \in Sweepers : sweep[b].batch \subseteq Index
      /\ \A k \in 1..Len(queue) : queue[k] \in Index
  BY DEF Types, Sweeps
<1>2. ASSUME NEW n \in Nat, NEW batch, batch = {queue[k] : k \in 1..n}, n \in 0..Len(queue),
             pending' \in Seq(Index), Len(pending') = Len(queue) - n,
             \A k \in 1..Len(queue) - n : pending'[k] = queue[k + n],
             sweep'[a].batch = batch, \A b \in Sweepers : b # a => sweep'[b] = sweep[b]
      PROVE  QueueInv'
  <2>0. Len(queue) \in Nat
    OBVIOUS
  <2>1. \A k \in 1..Len(pending') : k + n \in 1..Len(queue) /\ k + n \notin 1..n /\ pending'[k] = queue[k + n]
    BY <1>2, <2>0
  <2>2. \A j, k \in 1..Len(pending') : pending'[j] = pending'[k] => j = k
    <3> SUFFICES ASSUME NEW j \in 1..Len(pending'), NEW k \in 1..Len(pending'), pending'[j] = pending'[k]
                 PROVE  j = k
      OBVIOUS
    <3>1. j + n = k + n
      BY <2>1 DEF MayBeSwept
    <3> QED
      BY <1>2, <3>1
  <2>3. \A i \in batch : \E k \in 1..Len(queue) : k \in 1..n /\ i = queue[k]
    BY <1>2, <2>0
  <2>4. \A k \in 1..Len(pending') : pending'[k] \notin batch
    BY <2>1, <2>3 DEF MayBeSwept
  <2>5. \A k \in 1..Len(pending') : \A b \in Sweepers : pending'[k] \notin sweep'[b].batch
    BY <1>2, <2>1, <2>4 DEF MayBeSwept
  <2>6. \A k \in 1..Len(pending') : Settled(pending[k])'
    <3> SUFFICES ASSUME NEW k \in 1..Len(pending') PROVE Settled(pending[k])'
      OBVIOUS
    <3>1. PICK i : i = queue[k + n]
      OBVIOUS
    <3>2. Settled(i)' /\ i = pending'[k]
      BY <2>1, <3>1 DEF MayBeSwept, Settled, Has
    <3> QED
      BY <3>2 DEF Settled, Has
  <2>7. ASSUME NEW i \in batch
        PROVE  Settled(i)' /\ \A b \in Sweepers \ {a} : i \notin sweep'[b].batch
    <3>1. PICK k \in 1..Len(queue) : i = queue[k]
      BY <2>3
    <3>2. Settled(i)'
      BY <3>1 DEF MayBeSwept, Settled, Has
    <3>3. \A b \in Sweepers \ {a} : i \notin sweep[b].batch
      BY <3>1 DEF MayBeSwept
    <3> QED
      BY <1>2, <3>2, <3>3
  <2>8. ASSUME NEW b \in Sweepers \ {a}, NEW i \in sweep'[b].batch
        PROVE  Settled(i)' /\ \A c \in Sweepers : i \in sweep'[c].batch => b = c
    <3>1. i \in sweep[b].batch /\ i \in Index
      BY <1>1, <1>2
    <3>2. Settled(i)' /\ \A c \in Sweepers : i \in sweep[c].batch => b = c
      BY <3>1 DEF QueueInv
    <3>3. i \notin batch
      BY <2>7
    <3> QED
      BY <1>2, <3>2, <3>3
  <2>9. ASSUME NEW b \in Sweepers, NEW i \in sweep'[b].batch
        PROVE  Settled(i)' /\ \A c \in Sweepers : i \in sweep'[c].batch => b = c
    <3>1. CASE b = a
      BY <1>2, <2>7, <3>1
    <3>2. CASE b # a
      BY <2>8, <3>2
    <3> QED
      BY <3>1, <3>2
  <2> QED
    BY <2>2, <2>5, <2>6, <2>9 DEF QueueInv
<1>3. CASE GoesOn(a, queue)
  <2>1. pending' = queue /\ sweep' = [sweep EXCEPT ![a] = NoSweep] /\ NoSweep.batch = {}
    BY <1>3 DEF GoesOn, NoSweep
  <2>2. sweep'[a].batch = {} /\ \A b \in Sweepers : b # a => sweep'[b] = sweep[b]
    BY <1>1, <2>1
  <2>3. PICK n : n = 0
    OBVIOUS
  <2>4. n \in Nat /\ {} = {queue[k] : k \in 1..n} /\ n \in 0..Len(queue)
    BY <2>3
  <2>5. Len(pending') = Len(queue) - n /\ \A k \in 1..Len(queue) - n : pending'[k] = queue[k + n]
    BY <2>1, <2>3
  <2> QED
    BY <1>2, <2>1, <2>2, <2>4, <2>5
<1>4. ASSUME NEW n \in Nat, TakesBatch(a, queue, n) PROVE QueueInv'
  <2>1. PICK batch, h : batch = {queue[k] : k \in 1..n} /\ h = <<>>
    OBVIOUS
  <2>2. sweep' = [sweep EXCEPT ![a] = [at |-> "reading", batch |-> batch, held |-> h, net |-> "none"]]
    BY <1>4, <2>1, Zenon DEF TakesBatch
  <2>3. sweep'[a].batch = batch /\ \A b \in Sweepers : b # a => sweep'[b] = sweep[b]
    BY <1>1, <2>2
  <2>4. /\ n \in 0..Len(queue) /\ pending' \in Seq(Index) /\ Len(pending') = Len(queue) - n
        /\ \A k \in 1..Len(queue) - n : pending'[k] = queue[k + n]
    BY <1>4 DEF TakesBatch
  <2> QED
    BY <1>2, <2>1, <2>3, <2>4
<1> QED
  BY <1>3, <1>4, SweepBatchesDoes

LEMMA SweepKeepsQueue ==
  ASSUME Types, QueueInv, NEW a \in Sweepers, SweepBatches(a, pending), flow' = flow
  PROVE  QueueInv'
<1>1. PICK queue \in Seq(Index) : queue = pending
  BY DEF Types
<1>2. SweepBatches(a, queue)
  BY <1>1
<1>3. \A i \in Index : Settled(i) => Settled(i)'
  BY <1>2, HasAfter DEF Settled
<1>4. \A k \in 1..Len(queue) : queue[k] \in Index
  OBVIOUS
<1>5. MayBeSwept(a, queue)
  BY <1>1, <1>3, <1>4 DEF QueueInv, MayBeSwept
<1> QED
  BY <1>2, <1>3, <1>5, QueueSweep

LEMMA PushKeepsQueue ==
  ASSUME Types, PoolInv, QueueInv, NEW w \in Workers, Push(w)
  PROVE  QueueInv'
<1>1. PICK queue : queue = Append(pending, job[w].with)
  OBVIOUS
<1>2. /\ SweepBatches(w, queue) /\ job[w].at = "supporter" /\ flow[job[w].with].step = "done"
      /\ flow' = flow
  BY <1>1, Zenon DEF Push
<1>3. PICK i : i = job[w].with
  OBVIOUS
<1>4. i \in Index
  <2>1. job[w].with \in 0..next - 1 /\ next \in 0..Supporters
    BY <1>2 DEF PoolInv, Types
  <2> QED
    BY <1>3, <2>1, Bounds DEF Index
<1>5. pending \in Seq(Index) /\ queue \in Seq(Index)
  BY <1>1, <1>3, <1>4 DEF Types
<1>6. /\ Len(queue) = Len(pending) + 1 /\ queue[Len(queue)] = i /\ Len(pending) \in Nat
      /\ \A k \in 1..Len(pending) : queue[k] = pending[k]
  BY <1>1, <1>3, <1>5
<1>7. w \in Sweepers
  BY Bounds
<1>8. (\A v \in Workers : \A j : Has(v, j)' => Has(v, j)) /\ \A j : ~Has(w, j)'
  BY <1>2, <1>5, <1>7, HasAfter
<1>9. \A j \in Index : Settled(j) => Settled(j)'
  BY <1>2, <1>8 DEF Settled
<1>10. Has(w, i) /\ ~Settled(i)
  BY <1>2, <1>3 DEF Has, Settled
<1>11. Settled(i)'
  <2>1. \A v \in Workers : ~Has(v, i)'
    BY <1>4, <1>8, <1>10 DEF PoolInv
  <2> QED
    BY <1>2, <1>3, <2>1 DEF Settled
<1>12. \A k \in 1..Len(pending) : pending[k] # i /\ pending[k] \in Index
  BY <1>5, <1>10 DEF QueueInv
<1>13. \A b \in Sweepers : i \notin sweep[b].batch
  BY <1>10 DEF QueueInv
<1>14. \A j, k \in 1..Len(queue) : queue[j] = queue[k] => j = k
  <2> SUFFICES ASSUME NEW j \in 1..Len(queue), NEW k \in 1..Len(queue), queue[j] = queue[k]
               PROVE  j = k
    OBVIOUS
  <2>1. CASE j \in 1..Len(pending) /\ k \in 1..Len(pending)
    BY <1>6, <2>1 DEF QueueInv
  <2>2. CASE j = Len(queue) /\ k \in 1..Len(pending)
    BY <1>6, <1>12, <2>2
  <2>3. CASE k = Len(queue) /\ j \in 1..Len(pending)
    BY <1>6, <1>12, <2>3
  <2>4. (j \in 1..Len(pending) \/ j = Len(queue)) /\ (k \in 1..Len(pending) \/ k = Len(queue))
    BY <1>6
  <2> QED
    BY <2>1, <2>2, <2>3, <2>4
<1>15. ASSUME NEW k \in 1..Len(queue)
       PROVE  Settled(queue[k])' /\ \A b \in Sweepers \ {w} : queue[k] \notin sweep[b].batch
  <2>1. CASE k \in 1..Len(pending)
    <3>1. PICK j : j = pending[k]
      OBVIOUS
    <3>2. Settled(j) /\ j \in Index /\ \A b \in Sweepers : j \notin sweep[b].batch
      BY <1>12, <2>1, <3>1 DEF QueueInv
    <3> QED
      BY <1>6, <1>9, <2>1, <3>1, <3>2
  <2>2. CASE k = Len(queue)
    BY <1>6, <1>11, <1>13, <2>2
  <2>3. k \in 1..Len(pending) \/ k = Len(queue)
    BY <1>6
  <2> QED
    BY <2>1, <2>2, <2>3
<1>16. MayBeSwept(w, queue)
  BY <1>14, <1>15 DEF MayBeSwept
<1> QED
  BY <1>2, <1>5, <1>7, <1>9, <1>16, QueueSweep

LEMMA TakeSettles ==
  ASSUME Types, PoolInv, NEW w \in Workers, Take(w)
  PROVE  \A i \in Index : Settled(i) => Settled(i)'
<1>1. flow \in [Index -> Flows] /\ job \in [Workers -> Jobs] /\ next \in 0..Supporters
  BY DEF Types
<1>2. CASE next < Supporters
  <2>1. /\ next \in Index /\ flow' = [flow EXCEPT ![next].step = "faucet"]
        /\ job' = [job EXCEPT ![w] = [at |-> "supporter", with |-> next]]
    BY <1>1, <1>2, Bounds DEF Take, Index
  <2>2. ~Settled(next)
    BY <1>1, <2>1, Bounds DEF PoolInv, Settled
  <2>3. \A i \in Index : i # next => flow'[i] = flow[i]
    BY <1>1, <2>1
  <2>4. \A v \in Workers, i \in Index : Has(v, i)' => Has(v, i) \/ i = next
    BY <1>1, <2>1 DEF Has
  <2> QED
    BY <2>2, <2>3, <2>4 DEF Settled
<1>3. CASE ~(next < Supporters)
  <2>1. job' = [job EXCEPT ![w].at = "left"] /\ flow' = flow
    BY <1>3 DEF Take
  <2>2. \A v \in Workers, i \in Index : Has(v, i)' => Has(v, i)
    BY <1>1, <2>1 DEF Has, Jobs
  <2> QED
    BY <2>1, <2>2 DEF Settled
<1> QED
  BY <1>2, <1>3

LEMMA SweepThrowsSettles ==
  ASSUME Types, NEW a \in Sweepers, SweepThrows(a)
  PROVE  \A i \in Index : Settled(i) => Settled(i)'
<1>1. job \in [Workers -> Jobs] /\ flow' = flow
  BY DEF Types, SweepThrows
<1>2. \A v \in Workers, i \in Index : Has(v, i)' => Has(v, i)
  <2>1. CASE a \in Workers
    <3>1. job' = [job EXCEPT ![a].at = "threw"]
      BY <2>1 DEF SweepThrows
    <3> QED
      BY <1>1, <2>1, <3>1 DEF Has, Jobs
  <2>2. CASE a \notin Workers
    BY <2>2 DEF Has, SweepThrows
  <2> QED
    BY <2>1, <2>2
<1> QED
  BY <1>1, <1>2 DEF Settled

LEMMA StepQueueInv ==
  ASSUME Types, PoolInv, QueueInv, HoldingsInv, Next
  PROVE  QueueInv'
<1>0. /\ pending \in Seq(Index) /\ sweep \in [Sweepers -> Sweeps] /\ job \in [Workers -> Jobs]
      /\ \A a \in Sweepers : sweep[a] \in Sweeps
  BY DEF Types
<1>1. CASE Setup \/ PlanReceived \/ CreatorReceived
  BY <1>1, QueueSame DEF Setup, PlanReceived, CreatorReceived, Settled, Has
<1>2. ASSUME NEW over \in SUBSET Awaiting, NEW overSweeps \in SUBSET AwaitedSweeps,
             Poll(over, overSweeps)
      PROVE  QueueInv'
  <2>1. job' = job /\ pending' = pending
    BY <1>2, Zenon DEF Poll
  <2>2. \A i \in Index : Settled(i) => Settled(i)'
    BY <1>2, <2>1, PollDoes, PollSteps DEF Settled, Has
  <2>3. \A a \in Sweepers : sweep'[a].batch \subseteq sweep[a].batch
    BY <1>2, PollSweeps
  <2> QED
    BY <2>1, <2>2, <2>3, QueueSame
<1>3. ASSUME NEW w \in Workers, Take(w) PROVE QueueInv'
  <2>1. \A i \in Index : Settled(i) => Settled(i)'
    BY <1>3, TakeSettles
  <2> QED
    BY <1>3, <2>1, QueueSame DEF Take
<1>4. ASSUME NEW i \in Index, RunSupporter(i) PROVE QueueInv'
  <2>1. job' = job /\ pending' = pending /\ sweep' = sweep
    BY <1>4 DEF RunSupporter, driver
  <2>2. \A j \in Index : Settled(j) => Settled(j)'
    BY <1>4, <2>1, RunSupporterSteps DEF Settled, Has
  <2> QED
    BY <2>1, <2>2, QueueSame
<1>5. ASSUME NEW i \in Index, Land(i) \/ LandStray(i) PROVE QueueInv'
  BY <1>5, QueueSame DEF Land, LandStray, driver, Settled, Has
<1>6. ASSUME NEW a \in Sweepers, LandSweep(a) PROVE QueueInv'
  <2>1. PICK what : sweep' = [sweep EXCEPT ![a].net = what]
    BY <1>6, LandSweepWallet
  <2>2. [sweep[a] EXCEPT !.net = what].batch = sweep[a].batch
    BY <1>0 DEF Sweeps
  <2>3. \A b \in Sweepers : sweep'[b].batch \subseteq sweep[b].batch
    BY <1>0, <2>1, <2>2
  <2>4. job' = job /\ pending' = pending /\ flow' = flow
    BY <1>6 DEF LandSweep
  <2> QED
    BY <2>3, <2>4, QueueSame DEF Settled, Has
<1>7. ASSUME NEW a \in Sweepers, ReadHoldings(a) PROVE QueueInv'
  <2>1. flow' = flow
    BY <1>7 DEF ReadHoldings
  <2>2. ASSUME NEW held \in Holdings,
               sweep' = [sweep EXCEPT ![a] = [at |-> "waiting", batch |-> sweep[a].batch,
                                                   held |-> held, net |-> "pending"]],
               main' = main, job' = job, pending' = pending
        PROVE  QueueInv'
    <3>1. \A b \in Sweepers : sweep'[b].batch \subseteq sweep[b].batch
      BY <1>0, <2>2
    <3> QED
      BY <2>1, <2>2, <3>1, QueueSame DEF Settled, Has
  <2> QED
    BY <1>7, <2>1, <2>2, ReadDoes, SweepKeepsQueue
<1>8. ASSUME NEW a \in Sweepers, Swept(a) PROVE QueueInv'
  BY <1>8, SweepKeepsQueue DEF Swept
<1>9. CASE PoolSettles
  BY <1>9, Bounds, SweepKeepsQueue DEF PoolSettles
<1>10. ASSUME NEW a \in Sweepers, SweepThrows(a) PROVE QueueInv'
  <2>1. sweep' = [sweep EXCEPT ![a] = NoSweep] /\ NoSweep.batch = {} /\ pending' = pending
    BY <1>10 DEF SweepThrows, NoSweep
  <2>2. \A b \in Sweepers : sweep'[b].batch \subseteq sweep[b].batch
    BY <1>0, <2>1
  <2> QED
    BY <1>10, <2>1, <2>2, SweepThrowsSettles, QueueSame
<1> QED
  BY <1>1, <1>2, <1>3, <1>4, <1>5, <1>6, <1>7, <1>8, <1>9, <1>10, PushKeepsQueue, Zenon DEF Next

-----------------------------------------------------------------------------
\* HoldingsInv is kept.

LEMMA InHeld ==
  ASSUME Types, HoldingsInv, NEW a \in Sweepers, NEW i \in DOMAIN sweep[a].held
  PROVE  i \in Index /\ i \in sweep[a].batch /\ sweep[a].at \in {"waiting", "ok", "throws"}
<1>1. sweep[a] \in Sweeps /\ i \in Index
  BY HeldTypes
<1>2. sweep[a].at \in {"waiting", "ok", "throws"}
  BY <1>1 DEF HoldingsInv, HoldingOne, Sweeps
<1> QED
  BY <1>1, <1>2 DEF HoldingsInv, HoldingOne

LEMMA HoldingStays ==
  ASSUME NEW a \in Sweepers, HoldingOne(a), late \subseteq late',
         sweep'[a].batch = sweep[a].batch, sweep'[a].held = sweep[a].held,
         sweep'[a].net = sweep[a].net,
         \/ sweep'[a].at = sweep[a].at
         \/ /\ sweep[a].at = "waiting" /\ sweep'[a].at \in {"ok", "throws"}
            /\ sweep'[a].at = "ok" => sweep[a].net = "landed",
         \A i \in DOMAIN sweep[a].held :
           /\ wallet'[i] = wallet[i]
              \/ (wallet[i] \in Nat /\ wallet'[i] = wallet[i] + 1 /\ sweep[a].held[i] \in Nat /\ i \in late')
  PROVE  HoldingOne(a)'
<1>1. ASSUME NEW i \in DOMAIN sweep[a].held
      PROVE  /\ sweep[a].net = "pending" => sweep[a].held[i] <= wallet'[i]
             /\ sweep[a].net = "pending" /\ i \notin late' => wallet'[i] = sweep[a].held[i]
             /\ sweep[a].net = "landed" /\ i \notin late' => wallet'[i] = 0
  <2>1. /\ sweep[a].net = "pending" => sweep[a].held[i] <= wallet[i]
        /\ sweep[a].net = "pending" /\ i \notin late => wallet[i] = sweep[a].held[i]
        /\ sweep[a].net = "landed" /\ i \notin late => wallet[i] = 0
    BY DEF HoldingOne
  <2>2. CASE wallet'[i] = wallet[i]
    BY <2>1, <2>2
  <2>3. CASE wallet[i] \in Nat /\ wallet'[i] = wallet[i] + 1 /\ sweep[a].held[i] \in Nat /\ i \in late'
    BY <2>1, <2>3
  <2> QED
    BY <2>2, <2>3
<1>2. /\ sweep'[a].at = "none" => sweep[a].batch = {}
      /\ sweep'[a].at \in {"none", "reading"} => DOMAIN sweep[a].held = {} /\ sweep[a].net = "none"
      /\ sweep'[a].at \in {"waiting", "ok", "throws"} => DOMAIN sweep[a].held = sweep[a].batch
      /\ sweep'[a].at = "ok" => sweep[a].net = "landed"
  BY DEF HoldingOne
<1> QED
  BY <1>1, <1>2 DEF HoldingOne

LEMMA HoldingNew ==
  ASSUME NEW a \in Sweepers, sweep'[a].at \in {"none", "reading"}, DOMAIN sweep'[a].held = {},
         sweep'[a].net = "none", sweep'[a].at = "none" => sweep'[a].batch = {}
  PROVE  HoldingOne(a)'
BY DEF HoldingOne

LEMMA SweepHoldings ==
  ASSUME Types, HoldingsInv, NEW a \in Sweepers, NEW queue \in Seq(Index), SweepBatches(a, queue),
         wallet' = wallet, late' = late
  PROVE  HoldingsInv'
<1>1. sweep \in [Sweepers -> Sweeps]
  BY DEF Types
<1>2. PICK h : h = <<>> /\ DOMAIN h = {}
  BY NoHoldings
<1>3. \E at \in {"none", "reading"} : \E batch :
        /\ sweep' = [sweep EXCEPT ![a] = [at |-> at, batch |-> batch, held |-> h, net |-> "none"]]
        /\ at = "none" => batch = {}
  <2>1. CASE GoesOn(a, queue)
    <3>1. sweep' = [sweep EXCEPT ![a] = [at |-> "none", batch |-> {}, held |-> h, net |-> "none"]]
      BY <1>2, <2>1, Zenon DEF GoesOn, NoSweep
    <3> QED
      BY <3>1
  <2>2. ASSUME NEW n \in Nat, TakesBatch(a, queue, n)
        PROVE  \E batch : sweep' = [sweep EXCEPT ![a] =
                 [at |-> "reading", batch |-> batch, held |-> h, net |-> "none"]]
    BY <1>2, <2>2, Zenon DEF TakesBatch
  <2> QED
    BY <2>1, <2>2, SweepBatchesDoes
<1>n. PICK at \in {"none", "reading"} : \E batch :
        /\ sweep' = [sweep EXCEPT ![a] = [at |-> at, batch |-> batch, held |-> h, net |-> "none"]]
        /\ at = "none" => batch = {}
  BY <1>3
<1>m. PICK batch :
        /\ sweep' = [sweep EXCEPT ![a] = [at |-> at, batch |-> batch, held |-> h, net |-> "none"]]
        /\ at = "none" => batch = {}
  BY <1>n
<1>4. sweep'[a] = [at |-> at, batch |-> batch, held |-> h, net |-> "none"]
  BY <1>1, <1>m
<1>5. HoldingOne(a)'
  BY <1>2, <1>n, <1>m, <1>4, HoldingNew
<1>6. ASSUME NEW b \in Sweepers, b # a PROVE HoldingOne(b)'
  <2>1. sweep'[b] = sweep[b]
    BY <1>1, <1>m, <1>6
  <2> QED
    BY <2>1, HoldingStays DEF HoldingsInv
<1> QED
  BY <1>5, <1>6 DEF HoldingsInv

LEMMA LandSweepHoldings ==
  ASSUME Types, QueueInv, HoldingsInv, NEW a \in Sweepers, LandSweep(a)
  PROVE  HoldingsInv'
<1>1. sweep \in [Sweepers -> Sweeps] /\ sweep[a] \in Sweeps /\ wallet \in [Index -> Nat]
  BY DEF Types
<1>2. PICK what \in {"landed", "failed"} :
        /\ sweep' = [sweep EXCEPT ![a].net = what]
        /\ \A i \in Index : wallet'[i] = IF what = "landed" /\ i \in sweep[a].batch
                                         THEN wallet[i] - sweep[a].held[i] ELSE wallet[i]
  BY LandSweepWallet
<1>3. late' = late
  BY DEF LandSweep
<1>4. /\ sweep[a].net = "pending" /\ sweep[a].at \in {"waiting", "ok", "throws"}
      /\ DOMAIN sweep[a].held = sweep[a].batch
      /\ \A i \in sweep[a].batch :
           i \in Index /\ sweep[a].held[i] \in Nat /\ sweep[a].held[i] <= wallet[i]
  BY LandSweepDoes
<1>5. /\ sweep'[a].net = what /\ sweep'[a].at = sweep[a].at /\ sweep'[a].batch = sweep[a].batch
      /\ sweep'[a].held = sweep[a].held
  <2>1. sweep'[a] = [sweep[a] EXCEPT !.net = what]
    BY <1>1, <1>2
  <2> QED
    BY <1>1, <2>1 DEF Sweeps
<1>6. HoldingOne(a)'
  <2>1. sweep[a].at # "ok"
    BY <1>4 DEF HoldingsInv, HoldingOne
  <2>2. ASSUME NEW i \in sweep[a].batch, what = "landed", i \notin late PROVE wallet'[i] = 0
    <3>1. wallet[i] = sweep[a].held[i]
      BY <1>4, <2>2 DEF HoldingsInv, HoldingOne
    <3>2. wallet'[i] = wallet[i] - sweep[a].held[i] /\ wallet[i] \in Nat
      BY <1>1, <1>2, <1>4, <2>2
    <3> QED
      BY <3>1, <3>2
  <2> QED
    BY <1>2, <1>3, <1>4, <1>5, <2>1, <2>2 DEF HoldingOne
<1>7. ASSUME NEW b \in Sweepers, b # a PROVE HoldingOne(b)'
  <2>1. sweep'[b] = sweep[b]
    BY <1>1, <1>2, <1>7
  <2>2. ASSUME NEW i \in DOMAIN sweep[b].held PROVE wallet'[i] = wallet[i]
    <3>1. i \in Index /\ i \in sweep[b].batch
      BY InHeld
    <3>2. i \notin sweep[a].batch
      BY <1>7, <3>1 DEF QueueInv
    <3> QED
      BY <1>2, <3>1, <3>2
  <2> QED
    BY <1>3, <2>1, <2>2, HoldingStays DEF HoldingsInv
<1> QED
  BY <1>6, <1>7 DEF HoldingsInv

LEMMA StepHoldingsInv ==
  ASSUME Types, FlowInv, PoolInv, QueueInv, HoldingsInv, Next
  PROVE  HoldingsInv'
<1>0. /\ pending \in Seq(Index) /\ sweep \in [Sweepers -> Sweeps] /\ wallet \in [Index -> Nat]
      /\ \A a \in Sweepers : sweep[a] \in Sweeps
  BY DEF Types
<1>1. CASE Setup \/ PlanReceived \/ CreatorReceived
  BY <1>1, HoldingStays DEF Setup, PlanReceived, CreatorReceived, chain, HoldingsInv
<1>2. ASSUME NEW over \in SUBSET Awaiting, NEW overSweeps \in SUBSET AwaitedSweeps,
             Poll(over, overSweeps)
      PROVE  HoldingsInv'
  <2>1. wallet' = wallet /\ late' = late
    BY <1>2, Zenon DEF Poll, chain
  <2>2. ASSUME NEW a \in Sweepers PROVE HoldingOne(a)'
    BY <1>2, <2>1, PollSweeps, HoldingStays DEF HoldingsInv
  <2> QED
    BY <2>2 DEF HoldingsInv
<1>3. ASSUME sweep' = sweep, wallet' = wallet, late' = late PROVE HoldingsInv'
  BY <1>3, HoldingStays DEF HoldingsInv
<1>4. ASSUME NEW w \in Workers, Take(w) PROVE HoldingsInv'
  BY <1>3, <1>4 DEF Take, chain
<1>5. ASSUME NEW i \in Index, RunSupporter(i) PROVE HoldingsInv'
  BY <1>3, <1>5 DEF RunSupporter, driver, chain
<1>6. ASSUME NEW i \in Index, Land(i) PROVE HoldingsInv'
  <2>1. sweep' = sweep /\ late' = late
    BY <1>6 DEF Land, driver
  <2>2. CASE flow[i].step = "topUp"
    <3>1. \A a \in Sweepers : i \notin DOMAIN sweep[a].held
      BY <2>2, InHeld DEF QueueInv, Settled
    <3>2. \A j \in Index : j # i => wallet'[j] = wallet[j]
      BY <1>0, <1>6 DEF Land
    <3>3. ASSUME NEW a \in Sweepers PROVE HoldingOne(a)'
      <4>1. \A j \in DOMAIN sweep[a].held : wallet'[j] = wallet[j]
        BY <3>1, <3>2, InHeld
      <4> QED
        BY <2>1, <4>1, HoldingStays DEF HoldingsInv
    <3> QED
      BY <3>3 DEF HoldingsInv
  <2>3. CASE flow[i].step # "topUp"
    BY <1>3, <1>6, <2>1, <2>3 DEF Land
  <2> QED
    BY <2>2, <2>3
<1>7. ASSUME NEW i \in Index, LandStray(i) PROVE HoldingsInv'
  <2>1. sweep' = sweep /\ late \subseteq late'
    BY <1>7 DEF LandStray, driver
  <2>2. wallet' = wallet \/ (/\ wallet' = [wallet EXCEPT ![i] = @ + 1]
                             /\ HoldingsRead(i) => i \in late')
    BY <1>7 DEF LandStray
  <2>3. ASSUME NEW a \in Sweepers PROVE HoldingOne(a)'
    <3>1. ASSUME NEW j \in DOMAIN sweep[a].held
          PROVE  \/ wallet'[j] = wallet[j]
                 \/ (wallet[j] \in Nat /\ wallet'[j] = wallet[j] + 1 /\ sweep[a].held[j] \in Nat /\ j \in late')
      <4>1. j \in Index /\ wallet[j] \in Nat /\ sweep[a].held[j] \in Nat
        BY <1>0, InHeld, HeldTypes
      <4>2. HoldingsRead(j)
        BY DEF HoldingsRead
      <4> QED
        BY <1>0, <2>2, <4>1, <4>2
    <3> QED
      BY <2>1, <3>1, HoldingStays DEF HoldingsInv
  <2> QED
    BY <2>3 DEF HoldingsInv
<1>8. ASSUME NEW a \in Sweepers, ReadHoldings(a) PROVE HoldingsInv'
  <2>1. wallet' = wallet /\ late' = late
    BY <1>8 DEF ReadHoldings
  <2>2. ASSUME NEW held \in Holdings, DOMAIN held = sweep[a].batch,
               \A i \in sweep[a].batch : held[i] = wallet[i],
               sweep' = [sweep EXCEPT ![a] = [at |-> "waiting", batch |-> sweep[a].batch,
                                                   held |-> held, net |-> "pending"]]
        PROVE  HoldingsInv'
    <3>1. sweep'[a] = [at |-> "waiting", batch |-> sweep[a].batch, held |-> held, net |-> "pending"]
      BY <1>0, <2>2
    <3>2. \A i \in sweep[a].batch : held[i] <= wallet[i]
      <4>1. sweep[a].batch \subseteq Index
        BY <1>0 DEF Sweeps
      <4> QED
        BY <1>0, <2>2, <4>1
    <3>3. HoldingOne(a)'
      BY <2>1, <2>2, <3>1, <3>2 DEF HoldingOne
    <3>4. ASSUME NEW b \in Sweepers, b # a PROVE HoldingOne(b)'
      <4>1. sweep'[b] = sweep[b]
        BY <1>0, <2>2, <3>4
      <4> QED
        BY <2>1, <4>1, HoldingStays DEF HoldingsInv
    <3> QED
      BY <3>3, <3>4 DEF HoldingsInv
  <2> QED
    BY <1>0, <1>8, <2>1, <2>2, ReadDoes, SweepHoldings
<1>9. ASSUME NEW a \in Sweepers, Swept(a) PROVE HoldingsInv'
  BY <1>0, <1>9, SweepHoldings DEF Swept, chain
<1>10. CASE PoolSettles
  BY <1>0, <1>10, Bounds, SweepHoldings DEF PoolSettles, chain
<1>11. ASSUME NEW w \in Workers, Push(w) PROVE HoldingsInv'
  <2>1. job[w].with \in Index
    <3>1. job[w].with \in 0..next - 1 /\ next \in 0..Supporters
      BY <1>11 DEF PoolInv, Types, Push
    <3> QED
      BY <3>1, Bounds DEF Index
  <2>2. w \in Sweepers /\ Append(pending, job[w].with) \in Seq(Index)
    BY <1>0, <2>1, Bounds
  <2> QED
    BY <1>11, <2>2, SweepHoldings DEF Push, chain
<1>12. ASSUME NEW a \in Sweepers, SweepThrows(a) PROVE HoldingsInv'
  <2>1. /\ sweep' = [sweep EXCEPT ![a] = NoSweep] /\ wallet' = wallet /\ late' = late
    BY <1>12 DEF SweepThrows, chain
  <2>2. sweep'[a] = NoSweep /\ \A b \in Sweepers : b # a => sweep'[b] = sweep[b]
    BY <1>0, <2>1
  <2>3. HoldingOne(a)'
    BY <2>2, NoHoldings, HoldingNew DEF NoSweep
  <2>4. ASSUME NEW b \in Sweepers, b # a PROVE HoldingOne(b)'
    BY <2>1, <2>2, <2>4, HoldingStays DEF HoldingsInv
  <2> QED
    BY <2>3, <2>4 DEF HoldingsInv
<1> QED
  BY <1>1, <1>2, <1>4, <1>5, <1>6, <1>7, <1>8, <1>9, <1>10, <1>11, <1>12, LandSweepHoldings,
     Zenon DEF Next

-----------------------------------------------------------------------------
\* SolInv is kept.

LEMMA HasJob ==
  ASSUME Types, NEW w \in Workers, NEW i
  PROVE  Has(w, i) <=> job[w] = [at |-> "supporter", with |-> i]
<1>1. job[w] \in Jobs
  BY DEF Types
<1> QED
  BY <1>1 DEF Has, Jobs

\* Who is covered stays so in a step that leaves him where he is.
LEMMA CoveredStays ==
  ASSUME Types, Types', NEW i \in Index, Running, Covered(i),
         \A w \in Workers : Has(w, i) => Has(w, i)',
         i \in Range(pending) => i \in Range(pending)',
         \A a \in Sweepers : /\ i \in DOMAIN sweep[a].held => i \in DOMAIN sweep'[a].held
                             /\ sweep[a].at = "reading" /\ i \in sweep[a].batch =>
                                  \/ sweep'[a].at = "reading" /\ i \in sweep'[a].batch
                                  \/ i \in DOMAIN sweep'[a].held,
         Rejected => Rejected'
  PROVE  Covered(i)'
<1>1. CASE ToBeRead(i)
  <2>1. CASE \E w \in Workers : Has(w, i)
    <3>1. PICK w \in Workers : Has(w, i)'
      BY <2>1
    <3>2. (job[w] = [at |-> "supporter", with |-> i])'
      BY <3>1, HasJob, PTL
    <3> QED
      BY <3>2 DEF Covered, ToBeRead
  <2>2. CASE i \in Range(pending)
    BY <2>2 DEF Covered, ToBeRead
  <2>3. CASE \E a \in Sweepers : sweep[a].at = "reading" /\ i \in sweep[a].batch
    BY <2>3 DEF Covered, ToBeRead, HoldingsRead
  <2> QED
    BY <1>1, <2>1, <2>2, <2>3, HasJob DEF ToBeRead
<1>2. CASE HoldingsRead(i)
  BY <1>2 DEF Covered, HoldingsRead
<1>3. CASE Rejected
  BY <1>3 DEF Covered
<1> QED
  BY <1>1, <1>2, <1>3 DEF Covered, Running

LEMMA QueueGoesOn ==
  ASSUME Types, NEW a \in Sweepers, NEW queue \in Seq(Index), SweepBatches(a, queue),
         NEW i \in Range(queue)
  PROVE  i \in Range(pending)' \/ (sweep'[a].at = "reading" /\ i \in sweep'[a].batch)
<1>1. sweep \in [Sweepers -> Sweeps]
  BY DEF Types
<1>2. PICK k \in 1..Len(queue) : i = queue[k]
  BY DEF Range
<1>3. CASE GoesOn(a, queue)
  BY <1>3 DEF GoesOn
<1>4. ASSUME NEW n \in Nat, TakesBatch(a, queue, n)
      PROVE  i \in Range(pending)' \/ (sweep'[a].at = "reading" /\ i \in sweep'[a].batch)
  <2>1. CASE k <= n
    <3>1. PICK batch, h : batch = {queue[j] : j \in 1..n} /\ h = <<>>
      OBVIOUS
    <3>2. sweep' = [sweep EXCEPT ![a] = [at |-> "reading", batch |-> batch, held |-> h, net |-> "none"]]
      BY <1>4, <3>1, Zenon DEF TakesBatch
    <3>3. sweep'[a].at = "reading" /\ sweep'[a].batch = batch
      BY <1>1, <3>2
    <3>4. i \in batch
      BY <1>2, <2>1, <3>1
    <3> QED
      BY <3>3, <3>4
  <2>2. CASE ~(k <= n)
    <3>1. /\ n \in 1..Len(queue) /\ pending' \in Seq(Index) /\ Len(pending') = Len(queue) - n
          /\ \A j \in 1..Len(queue) - n : pending'[j] = queue[j + n]
      BY <1>4 DEF TakesBatch
    <3>2. PICK j \in Nat : j = k - n
      BY <2>2
    <3>3. j \in 1..Len(queue) - n /\ j + n = k
      BY <1>2, <2>2, <3>1, <3>2
    <3>4. DOMAIN pending' = 1..Len(pending')
      BY <3>1
    <3>5. pending'[j] = i
      BY <1>2, <3>1, <3>3
    <3>6. j \in DOMAIN pending'
      BY <3>1, <3>3, <3>4
    <3> QED
      BY <3>5, <3>6 DEF Range
  <2> QED
    BY <2>1, <2>2
<1> QED
  BY <1>3, <1>4, SweepBatchesDoes

LEMMA SolQueue ==
  ASSUME Types, Types', SolInv, Running, NEW a \in Sweepers, NEW queue \in Seq(Index),
         SweepBatches(a, queue), wallet' = wallet, late' = late,
         Range(pending) \subseteq Range(queue),
         a \in Workers => job[a].at # "threw" /\ \A i \in Index : Has(a, i) => i \in Range(queue),
         \A i \in Index : wallet[i] > 0 /\ i \notin late =>
           /\ i \notin DOMAIN sweep[a].held
           /\ sweep[a].at = "reading" => i \notin sweep[a].batch
  PROVE  SolInv'
<1>1. sweep \in [Sweepers -> Sweeps] /\ job \in [Workers -> Jobs]
  BY DEF Types
<1>2. \A b \in Sweepers : b # a => sweep'[b] = sweep[b]
  <2>1. \E s : sweep' = [sweep EXCEPT ![a] = s]
    BY SweepBatchesDoes, Zenon DEF TakesBatch, GoesOn
  <2> QED
    BY <1>1, <2>1
<1>3. \A v \in Workers : v # a => job'[v] = job[v]
  <2>1. Enters(a) \/ Leaves(a)
    BY SweepBatchesDoes DEF TakesBatch, GoesOn
  <2>2. job' = job \/ (a \in Workers /\ \E at : job' = [job EXCEPT ![a].at = at])
    BY <2>1 DEF Enters, Leaves
  <2> QED
    BY <1>1, <2>2
<1>4. Rejected => Rejected'
  <2>1. CASE a \in Workers
    BY <1>3, <2>1 DEF Rejected
  <2>2. CASE a \notin Workers
    BY <1>3, <2>2 DEF Rejected
  <2> QED
    BY <2>1, <2>2
<1> SUFFICES ASSUME NEW i \in Index, wallet[i] > 0, i \notin late PROVE Covered(i)'
  BY DEF SolInv
<1>5. Covered(i)
  BY DEF SolInv
<1>6. CASE i \in Range(queue)
  <2>1. i \in Range(pending)' \/ (sweep'[a].at = "reading" /\ i \in sweep'[a].batch)
    BY <1>6, QueueGoesOn
  <2> QED
    BY <2>1 DEF Covered, ToBeRead
<1>7. CASE i \notin Range(queue)
  <2>1. i \notin Range(pending) /\ (a \in Workers => ~Has(a, i))
    BY <1>7
  <2>2. \A w \in Workers : Has(w, i) => Has(w, i)'
    BY <1>3, <2>1 DEF Has
  <2>3. \A b \in Sweepers : /\ i \in DOMAIN sweep[b].held => i \in DOMAIN sweep'[b].held
                            /\ sweep[b].at = "reading" /\ i \in sweep[b].batch =>
                                 \/ sweep'[b].at = "reading" /\ i \in sweep'[b].batch
                                 \/ i \in DOMAIN sweep'[b].held
    BY <1>2
  <2> QED
    BY <1>4, <1>5, <2>1, <2>2, <2>3, CoveredStays
<1> QED
  BY <1>6, <1>7

\* A step that leaves everybody where he is, with nobody's wallet the fuller unless late.
LEMMA SolStays ==
  ASSUME Types, Types', SolInv, Running, late \subseteq late',
         \A i \in Index : wallet'[i] > 0 /\ i \notin late' => wallet[i] > 0 \/ Covered(i),
         \A w \in Workers, i \in Index : Has(w, i) => Has(w, i)',
         pending' = pending,
         \A a \in Sweepers, i \in Index :
           /\ i \in DOMAIN sweep[a].held => i \in DOMAIN sweep'[a].held
           /\ sweep[a].at = "reading" /\ i \in sweep[a].batch =>
                \/ sweep'[a].at = "reading" /\ i \in sweep'[a].batch
                \/ i \in DOMAIN sweep'[a].held,
         Rejected => Rejected'
  PROVE  SolInv'
<1> SUFFICES ASSUME NEW i \in Index, wallet'[i] > 0, i \notin late' PROVE Covered(i)'
  BY DEF SolInv
<1>1. Covered(i)
  BY DEF SolInv
<1>2. i \in Range(pending) => i \in Range(pending)'
  OBVIOUS
<1> QED
  BY <1>1, <1>2, CoveredStays

LEMMA StepSolInv ==
  ASSUME Types, Types', FlowInv, PoolInv, QueueInv, HoldingsInv, SolInv, Next
  PROVE  SolInv'
<1>0. /\ pending \in Seq(Index) /\ sweep \in [Sweepers -> Sweeps] /\ wallet \in [Index -> Nat]
      /\ job \in [Workers -> Jobs] /\ \A a \in Sweepers : sweep[a] \in Sweeps
  BY DEF Types
<1>1. CASE Setup \/ PlanReceived \/ CreatorReceived
  <2>1. Running /\ job' = job /\ pending' = pending /\ sweep' = sweep /\ wallet' = wallet /\ late' = late
    BY <1>1 DEF Setup, PlanReceived, CreatorReceived, chain, Running
  <2> QED
    BY <2>1, SolStays DEF Has, Rejected
<1>2. ASSUME NEW over \in SUBSET Awaiting, NEW overSweeps \in SUBSET AwaitedSweeps,
             Poll(over, overSweeps)
      PROVE  SolInv'
  <2>1. Running /\ job' = job /\ pending' = pending /\ wallet' = wallet /\ late' = late
    BY <1>2, Zenon DEF Poll, chain
  <2>2. \A a \in Sweepers, i \in Index :
           /\ i \in DOMAIN sweep[a].held => i \in DOMAIN sweep'[a].held
           /\ sweep[a].at = "reading" /\ i \in sweep[a].batch =>
                sweep'[a].at = "reading" /\ i \in sweep'[a].batch
    BY <1>2, PollSweeps
  <2> QED
    BY <2>1, <2>2, SolStays DEF Has, Rejected
<1>3. ASSUME NEW w \in Workers, Take(w) PROVE SolInv'
  <2>1. /\ Running /\ pending' = pending /\ sweep' = sweep /\ wallet' = wallet /\ late' = late
        /\ job[w].at = "next"
    BY <1>3 DEF Take, chain, Running
  <2>2. \A v \in Workers : v # w => job'[v] = job[v]
    BY <1>0, <1>3 DEF Take
  <2>3. Rejected => Rejected'
    BY <2>1, <2>2 DEF Rejected
  <2>4. \A v \in Workers, i \in Index : Has(v, i) => Has(v, i)'
    BY <2>1, <2>2 DEF Has
  <2> QED
    BY <2>1, <2>3, <2>4, SolStays
<1>4. ASSUME NEW i \in Index, RunSupporter(i) PROVE SolInv'
  BY <1>4, SolStays DEF RunSupporter, driver, chain, Has, Rejected
<1>5. ASSUME NEW i \in Index, Land(i) PROVE SolInv'
  <2>1. Running /\ job' = job /\ pending' = pending /\ sweep' = sweep /\ late' = late
    BY <1>5 DEF Land, driver
  <2>2. \A j \in Index : wallet'[j] > 0 /\ j \notin late' => wallet[j] > 0 \/ Covered(j)
    <3>1. CASE flow[i].step = "topUp"
      <4>1. Covered(i)
        <5>1. PICK w \in Workers : Has(w, i)
          BY <3>1 DEF PoolInv
        <5> QED
          BY <5>1, HasJob DEF Covered, ToBeRead
      <4>2. \A j \in Index : j # i => wallet'[j] = wallet[j]
        BY <1>0, <1>5 DEF Land
      <4> QED
        BY <4>1, <4>2
    <3>2. CASE flow[i].step # "topUp"
      BY <1>5, <3>2 DEF Land
    <3> QED
      BY <3>1, <3>2
  <2> QED
    BY <2>1, <2>2, SolStays DEF Has, Rejected
<1>6. ASSUME NEW i \in Index, LandStray(i) PROVE SolInv'
  <2>1. Running /\ job' = job /\ pending' = pending /\ sweep' = sweep /\ late \subseteq late'
    BY <1>6 DEF LandStray, driver
  <2>2. wallet' = wallet \/ (/\ wallet' = [wallet EXCEPT ![i] = @ + 1]
                             /\ ToBeRead(i) \/ i \in late')
    BY <1>6 DEF LandStray
  <2>3. \A j \in Index : wallet'[j] > 0 /\ j \notin late' => wallet[j] > 0 \/ Covered(j)
    BY <1>0, <2>2 DEF Covered
  <2> QED
    BY <2>1, <2>3, SolStays DEF Has, Rejected
<1>7. ASSUME NEW a \in Sweepers, sweep[a].at # "none" PROVE a \in Workers => job[a].at = "sweeping"
  BY <1>7 DEF PoolInv
<1>8. ASSUME NEW a \in Sweepers, ReadHoldings(a) PROVE SolInv'
  <2>1. Running /\ sweep[a].at = "reading" /\ wallet' = wallet /\ late' = late
    BY <1>8 DEF ReadHoldings
  <2>2. ASSUME NEW held \in Holdings, DOMAIN held = sweep[a].batch,
               sweep' = [sweep EXCEPT ![a] = [at |-> "waiting", batch |-> sweep[a].batch,
                                                   held |-> held, net |-> "pending"]],
               job' = job, pending' = pending
        PROVE  SolInv'
    <3>1. sweep'[a].held = held /\ \A b \in Sweepers : b # a => sweep'[b] = sweep[b]
      BY <1>0, <2>2
    <3>2. DOMAIN sweep[a].held = {}
      BY <2>1 DEF HoldingsInv, HoldingOne
    <3>3. \A b \in Sweepers, i \in Index :
           /\ i \in DOMAIN sweep[b].held => i \in DOMAIN sweep'[b].held
           /\ sweep[b].at = "reading" /\ i \in sweep[b].batch =>
                \/ sweep'[b].at = "reading" /\ i \in sweep'[b].batch
                \/ i \in DOMAIN sweep'[b].held
      BY <2>2, <3>1, <3>2
    <3> QED
      BY <2>1, <2>2, <3>3, SolStays DEF Has, Rejected
  <2>3. CASE (\A i \in sweep[a].batch : wallet[i] = 0) /\ SweepBatches(a, pending)
    <3>1. \A i \in Index : wallet[i] > 0 /\ i \notin late =>
           /\ i \notin DOMAIN sweep[a].held
           /\ sweep[a].at = "reading" => i \notin sweep[a].batch
      BY <2>1, <2>3 DEF HoldingsInv, HoldingOne
    <3>2. a \in Workers => job[a].at # "threw" /\ \A i \in Index : ~Has(a, i)
      BY <1>7, <2>1 DEF Has
    <3> QED
      BY <1>0, <2>1, <2>3, <3>1, <3>2, SolQueue
  <2> QED
    BY <1>8, <2>2, <2>3, ReadDoes
<1>9. ASSUME NEW a \in Sweepers, Swept(a) PROVE SolInv'
  <2>1. Running /\ sweep[a].at = "ok" /\ wallet' = wallet /\ late' = late /\ SweepBatches(a, pending)
    BY <1>9 DEF Swept, chain
  <2>2. \A i \in Index : wallet[i] > 0 /\ i \notin late =>
           /\ i \notin DOMAIN sweep[a].held
           /\ sweep[a].at = "reading" => i \notin sweep[a].batch
    BY <2>1 DEF HoldingsInv, HoldingOne
  <2>3. a \in Workers => job[a].at # "threw" /\ \A i \in Index : ~Has(a, i)
    BY <1>7, <2>1 DEF Has
  <2> QED
    BY <1>0, <2>1, <2>2, <2>3, SolQueue
<1>10. CASE PoolSettles
  <2>1. Running /\ wallet' = wallet /\ late' = late /\ SweepBatches("main", pending) /\ main = "pool"
    BY <1>10 DEF PoolSettles, chain, Running
  <2>2. "main" \in Sweepers /\ "main" \notin Workers
    BY Bounds
  <2>3. DOMAIN sweep["main"].held = {} /\ sweep["main"].at = "none"
    BY <2>1, <2>2 DEF PoolInv, HoldingsInv, HoldingOne
  <2> QED
    BY <1>0, <2>1, <2>2, <2>3, SolQueue
<1>11. ASSUME NEW w \in Workers, Push(w) PROVE SolInv'
  <2>1. /\ Running /\ wallet' = wallet /\ late' = late /\ job[w].at = "supporter"
        /\ SweepBatches(w, Append(pending, job[w].with))
    BY <1>11 DEF Push, chain
  <2>2. PICK i : i = job[w].with
    OBVIOUS
  <2>3. i \in Index
    <3>1. job[w].with \in 0..next - 1 /\ next \in 0..Supporters
      BY <2>1 DEF PoolInv, Types
    <3> QED
      BY <2>2, <3>1, Bounds DEF Index
  <2>4. PICK queue : queue = Append(pending, i)
    OBVIOUS
  <2>5. queue \in Seq(Index) /\ SweepBatches(w, queue)
    BY <1>0, <2>1, <2>2, <2>3, <2>4
  <2>6. Range(pending) \subseteq Range(queue) /\ i \in Range(queue)
    <3>1. /\ Len(queue) = Len(pending) + 1 /\ queue[Len(queue)] = i /\ Len(pending) \in Nat
          /\ \A k \in 1..Len(pending) : queue[k] = pending[k]
      BY <1>0, <2>3, <2>4
    <3>2. DOMAIN queue = 1..Len(queue) /\ DOMAIN pending = 1..Len(pending)
      BY <1>0, <2>5
    <3>3. \A k \in DOMAIN pending : k \in DOMAIN queue /\ queue[k] = pending[k]
      BY <3>1, <3>2
    <3>4. Len(queue) \in DOMAIN queue
      BY <3>1, <3>2
    <3> QED
      BY <3>1, <3>3, <3>4 DEF Range
  <2>7. w \in Sweepers /\ sweep[w].at = "none"
    BY <2>1, Bounds DEF PoolInv
  <2>8. DOMAIN sweep[w].held = {}
    BY <2>7 DEF HoldingsInv, HoldingOne
  <2>9. job[w].at # "threw" /\ \A j \in Index : Has(w, j) => j \in Range(queue)
    BY <2>1, <2>2, <2>6 DEF Has
  <2> QED
    BY <2>1, <2>5, <2>6, <2>7, <2>8, <2>9, SolQueue
<1>12. ASSUME NEW a \in Sweepers, LandSweep(a) PROVE SolInv'
  <2>1. Running /\ job' = job /\ pending' = pending /\ late' = late
    BY <1>12 DEF LandSweep
  <2>2. PICK what \in {"landed", "failed"} :
          /\ sweep' = [sweep EXCEPT ![a].net = what]
          /\ \A i \in Index : wallet'[i] = IF what = "landed" /\ i \in sweep[a].batch
                                           THEN wallet[i] - sweep[a].held[i] ELSE wallet[i]
    BY <1>12, LandSweepWallet
  <2>3. \A i \in Index : wallet'[i] > 0 => wallet[i] > 0
    <3>1. \A i \in sweep[a].batch : sweep[a].held[i] \in Nat
      BY <1>12, LandSweepDoes
    <3> QED
      BY <1>0, <2>2, <3>1
  <2>4. sweep'[a] = [sweep[a] EXCEPT !.net = what] /\ \A b \in Sweepers : b # a => sweep'[b] = sweep[b]
    BY <1>0, <2>2
  <2>5. sweep'[a].at = sweep[a].at /\ sweep'[a].batch = sweep[a].batch /\ sweep'[a].held = sweep[a].held
    BY <1>0, <2>4 DEF Sweeps
  <2>6. \A b \in Sweepers, i \in Index :
           /\ i \in DOMAIN sweep[b].held => i \in DOMAIN sweep'[b].held
           /\ sweep[b].at = "reading" /\ i \in sweep[b].batch =>
                sweep'[b].at = "reading" /\ i \in sweep'[b].batch
    BY <2>4, <2>5
  <2> QED
    BY <2>1, <2>3, <2>6, SolStays DEF Has, Rejected
<1>13. ASSUME NEW a \in Sweepers, SweepThrows(a) PROVE SolInv'
  <2>1. CASE a \in Workers
    <3>1. (job' = [job EXCEPT ![a].at = "threw"])
      BY <1>13, <2>1 DEF SweepThrows
    <3>2. Rejected'
      BY <1>0, <2>1, <3>1 DEF Rejected, Jobs
    <3> QED
      BY <3>2 DEF SolInv, Covered
  <2>2. CASE a \notin Workers
    BY <1>13, <2>2 DEF SweepThrows, SolInv, Covered
  <2> QED
    BY <2>1, <2>2
<1> QED
  BY <1>1, <1>2, <1>3, <1>4, <1>5, <1>6, <1>8, <1>9, <1>10, <1>11, <1>12, <1>13, Zenon DEF Next

-----------------------------------------------------------------------------
\* The invariant, and what follows from it.

LEMMA InitInv == Init => DemoInv
<1> SUFFICES ASSUME Init PROVE DemoInv
  OBVIOUS
<1>1. Types
  <2>1. pending \in Seq(Index)
    BY DEF Init
  <2>2. \A i \in Index : [step |-> "new", attempt |-> 1, given |-> 0, error |-> FALSE] \in Flows
    BY DEF Flows, Steps
  <2>3. [at |-> "next", with |-> 0] \in Jobs
    BY DEF Jobs
  <2>4. /\ main \in {"setup", "pool", "sweeping", "receiving", "applying", "done", "failed"}
        /\ next \in 0..Supporters /\ tx \in [Index -> Nets]
        /\ stray \in [Index -> SUBSET (Steps \X Nat)] /\ wallet \in [Index -> Nat]
    BY Bounds DEF Init, Nets
  <2>5. flow \in [Index -> Flows] /\ job \in [Workers -> Jobs]
    BY <2>2, <2>3 DEF Init
  <2>6. sweep \in [Sweepers -> Sweeps]
    BY NoSweepType DEF Init
  <2> QED
    BY <2>1, <2>4, <2>5, <2>6 DEF Types
<1>2. \A i \in Index : flow[i].step = "new" /\ flow[i].given = 0 /\ ~flow[i].error /\ tx[i] = "none"
                       /\ stray[i] = {} /\ wallet[i] = 0
  BY DEF Init
<1>3. \A a \in Sweepers : sweep[a] = NoSweep
  BY DEF Init
<1>4. /\ NoSweep.at = "none" /\ NoSweep.batch = {} /\ DOMAIN NoSweep.held = {} /\ NoSweep.net = "none"
  BY NoHoldings DEF NoSweep
<1>5. \A w \in Workers : job[w].at = "next"
  BY DEF Init
<1>6. main = "setup" /\ next = 0 /\ pending = <<>> /\ paid = {}
  BY DEF Init
<1>7. FlowInv
  <2>1. \A i \in Index : Contributions(i) = {}
    BY <1>2 DEF Contributions
  <2>2. \A i \in Index : FlowOne(i)
    BY <1>2, <2>1, KindsLen DEF FlowOne
  <2> QED
    BY <1>6, <2>2 DEF FlowInv
<1>8. PoolInv
  BY <1>2, <1>3, <1>4, <1>5, <1>6, Bounds DEF PoolInv, Has
<1>9. QueueInv
  BY <1>3, <1>4, <1>6 DEF QueueInv
<1>10. HoldingsInv
  BY <1>3, <1>4 DEF HoldingsInv, HoldingOne
<1>11. SolInv
  BY <1>2 DEF SolInv
<1> QED
  BY <1>1, <1>6, <1>7, <1>8, <1>9, <1>10, <1>11 DEF DemoInv, ReceivedInv

\* When creatorReceived is called, everybody is done.
LEMMA AllDone ==
  ASSUME DemoInv, main \in {"receiving", "applying", "done"}
  PROVE  /\ \A i \in Index : flow[i].step = "done"
         /\ \A a \in Sweepers : sweep[a].at = "none"
         /\ pending = <<>> /\ ~Rejected /\ \A w \in Workers : \A i : ~Has(w, i)
<1>1. Resolved /\ pending = <<>>
  BY DEF DemoInv, PoolInv
<1>2. \A w \in Workers : job[w].at = "left"
  BY <1>1 DEF Resolved
<1>3. \A w \in Workers : \A i : ~Has(w, i)
  BY <1>2 DEF Has
<1>4. PICK w \in Workers : TRUE
  BY Bounds
<1>5. next = Supporters
  BY <1>2, <1>4 DEF DemoInv, PoolInv
<1>6. \A i \in Index : i < next
  BY <1>5, Bounds DEF Index
<1>7. \A i \in Index : flow[i].step = "done"
  BY <1>3, <1>6 DEF DemoInv, PoolInv
<1>8. \A a \in Workers : sweep[a].at = "none"
  BY <1>2 DEF DemoInv, PoolInv
<1>9. sweep["main"].at = "none"
  BY DEF DemoInv, PoolInv
<1> QED
  BY <1>1, <1>2, <1>3, <1>7, <1>8, <1>9 DEF Sweepers, Rejected

\* Whoever is done moves no more: only a transaction that was given up may still land.
LEMMA QuietStep ==
  ASSUME DemoInv, Next, main \in {"applying", "done"}
  PROVE  flow' = flow /\ paid \subseteq paid' /\ received' = received
<1>1. /\ \A i \in Index : flow[i].step = "done"
      /\ \A a \in Sweepers : sweep[a].at = "none"
      /\ \A w \in Workers : job[w].at = "left"
  BY AllDone DEF DemoInv, PoolInv, Resolved
<1>2. flow \in [Index -> Flows]
  BY DEF DemoInv, Types
<1>3. CASE Setup \/ PlanReceived \/ CreatorReceived \/ PoolSettles
  BY <1>3 DEF Setup, PlanReceived, CreatorReceived, PoolSettles, chain
<1>4. ASSUME NEW over \in SUBSET Awaiting, NEW overSweeps \in SUBSET AwaitedSweeps,
             Poll(over, overSweeps)
      PROVE  flow' = flow /\ paid' = paid /\ received' = received
  <2>1. Awaiting = {}
    BY <1>1 DEF Awaiting
  <2>2. flow' = [i \in Index |-> flow[i]]
    BY <1>4, <2>1 DEF Poll
  <2> QED
    BY <1>2, <1>4, <2>2, Zenon DEF Poll, chain
<1>5. ASSUME NEW w \in Workers, Take(w) \/ Push(w) PROVE FALSE
  BY <1>1, <1>5 DEF Take, Push
<1>6. ASSUME NEW i \in Index, RunSupporter(i) PROVE FALSE
  BY <1>1, <1>6 DEF RunSupporter, RequestFaucet, RetryFaucet, ToppedUp, Prepare, Contribute,
                    Verify, Throws
<1>7. ASSUME NEW i \in Index, Land(i) \/ LandStray(i)
      PROVE  flow' = flow /\ paid \subseteq paid' /\ received' = received
  BY <1>7 DEF Land, LandStray, driver
<1>8. ASSUME NEW a \in Sweepers, ReadHoldings(a) \/ Swept(a) \/ SweepThrows(a) PROVE FALSE
  BY <1>1, <1>8 DEF ReadHoldings, Swept, SweepThrows
<1>9. ASSUME NEW a \in Sweepers, LandSweep(a)
      PROVE  flow' = flow /\ paid' = paid /\ received' = received
  BY <1>9 DEF LandSweep
<1> QED
  BY <1>3, <1>4, <1>5, <1>6, <1>7, <1>8, <1>9, Zenon DEF Next

\* The balance is named by PlanReceived alone.
LEMMA OnlyPlanNames ==
  ASSUME DemoInv, Next, main \notin {"applying", "done"}, ~PlanReceived
  PROVE  main' \notin {"applying", "done"}
<1>0. pending \in Seq(Index)
  BY DEF DemoInv, Types
<1>1. ASSUME NEW a \in Sweepers, NEW queue \in Seq(Index), SweepBatches(a, queue)
      PROVE  main' \notin {"applying", "done"}
  <2>1. Enters(a) \/ Leaves(a)
    BY <1>1, SweepBatchesDoes DEF TakesBatch, GoesOn
  <2>2. main' \in {main, "sweeping", "failed", "receiving"}
    BY <2>1 DEF Enters, Leaves
  <2> QED
    BY <2>2
<1>2. CASE Setup \/ CreatorReceived
  BY <1>2 DEF Setup, CreatorReceived
<1>3. ASSUME NEW over \in SUBSET Awaiting, NEW overSweeps \in SUBSET AwaitedSweeps,
             Poll(over, overSweeps)
      PROVE  main' = main
  BY <1>3, Zenon DEF Poll
<1>4. ASSUME NEW w \in Workers, Take(w) PROVE main' = main
  BY <1>4 DEF Take
<1>5. ASSUME NEW i \in Index, RunSupporter(i) \/ Land(i) \/ LandStray(i) PROVE main' = main
  BY <1>5 DEF RunSupporter, Land, LandStray, driver
<1>6. ASSUME NEW a \in Sweepers, ReadHoldings(a) PROVE main' \notin {"applying", "done"}
  <2>1. main' = main \/ SweepBatches(a, pending)
    BY <1>6, ReadDoes DEF DemoInv
  <2> QED
    BY <1>0, <1>1, <2>1
<1>7. ASSUME NEW a \in Sweepers, LandSweep(a) PROVE main' = main
  BY <1>7 DEF LandSweep
<1>8. ASSUME NEW a \in Sweepers, Swept(a) PROVE main' \notin {"applying", "done"}
  BY <1>0, <1>1, <1>8 DEF Swept
<1>9. ASSUME NEW a \in Sweepers, SweepThrows(a) PROVE main' \in {main, "failed"}
  BY <1>9 DEF SweepThrows
<1>10. CASE PoolSettles
  BY <1>0, <1>1, <1>10, Bounds DEF PoolSettles
<1>11. ASSUME NEW w \in Workers, Push(w) PROVE main' \notin {"applying", "done"}
  <2>1. job[w].with \in Index
    <3>1. job[w].with \in 0..next - 1 /\ next \in 0..Supporters
      BY <1>11 DEF DemoInv, PoolInv, Types, Push
    <3> QED
      BY <3>1, Bounds DEF Index
  <2>2. w \in Sweepers /\ Append(pending, job[w].with) \in Seq(Index)
    BY <1>0, <2>1, Bounds
  <2> QED
    BY <1>1, <1>11, <2>2 DEF Push
<1> QED
  BY <1>2, <1>3, <1>4, <1>5, <1>6, <1>7, <1>8, <1>9, <1>10, <1>11, Zenon DEF Next

\* What was paid is listed or of a supporter with an error, once everybody is done.
LEMMA PaidIsAccountedFor ==
  ASSUME DemoInv, \A i \in Index : flow[i].step = "done"
  PROVE  AccountedFor(paid)
<1>1. Listed \subseteq paid
  BY DEF DemoInv, FlowInv, FlowOne, Listed
<1>2. ASSUME NEW c \in paid \ Listed PROVE flow[c[1]].error
  <2>1. PICK i \in Index : Accounts(i, c)
    BY DEF DemoInv, FlowInv
  <2>2. c \notin Contributions(i)
    BY <1>2 DEF Listed
  <2> QED
    BY <2>1, <2>2 DEF Accounts
<1> QED
  BY <1>1, <1>2 DEF AccountedFor

LEMMA ReceivedStays ==
  ASSUME ReceivedInv, main \in {"applying", "done"}, flow' = flow, paid \subseteq paid',
         received' = received
  PROVE  ReceivedInv'
<1>1. PICK S \in SUBSET paid : AccountedFor(S) /\ received = Total(S)
  BY DEF ReceivedInv
<1>2. Listed' = Listed
  BY DEF Listed, Contributions
<1>3. AccountedFor(S)'
  BY <1>1, <1>2 DEF AccountedFor
<1>4. S \in SUBSET paid' /\ received' = Total(S)
  BY <1>1
<1> QED
  BY <1>3, <1>4 DEF ReceivedInv

LEMMA StepReceived ==
  ASSUME DemoInv, Next
  PROVE  ReceivedInv'
<1>1. CASE main \in {"applying", "done"}
  BY <1>1, QuietStep, ReceivedStays DEF DemoInv
<1>2. CASE PlanReceived
  <2>1. main = "receiving" /\ flow' = flow /\ paid' = paid
    BY <1>2 DEF PlanReceived, chain
  <2>2. AccountedFor(paid)
    BY <2>1, AllDone, PaidIsAccountedFor
  <2>3. Listed' = Listed
    BY <2>1 DEF Listed, Contributions
  <2>4. AccountedFor(paid)'
    BY <2>1, <2>2, <2>3 DEF AccountedFor
  <2>5. main' = "failed" \/ received' = Total(paid)
    BY <1>2 DEF PlanReceived
  <2> QED
    BY <2>1, <2>4, <2>5 DEF ReceivedInv
<1>3. CASE main \notin {"applying", "done"} /\ ~PlanReceived
  BY <1>3, OnlyPlanNames DEF ReceivedInv
<1> QED
  BY <1>1, <1>2, <1>3

LEMMA NextInv == DemoInv /\ [Next]_vars => DemoInv'
<1> SUFFICES ASSUME DemoInv, [Next]_vars PROVE DemoInv'
  OBVIOUS
<1> USE DEF DemoInv
<1>1. CASE Next
  <2>1. Types'
    BY <1>1, StepTypes
  <2>2. FlowInv' /\ PoolInv' /\ QueueInv' /\ HoldingsInv'
    BY <1>1, StepFlowInv, StepPoolInv, StepQueueInv, StepHoldingsInv
  <2>3. SolInv'
    BY <1>1, <2>1, StepSolInv
  <2>4. ReceivedInv'
    BY <1>1, StepReceived
  <2> QED
    BY <2>1, <2>2, <2>3, <2>4
<1>2. CASE UNCHANGED vars
  <2>1. Types'
    BY <1>2 DEF vars, Types
  <2>2. FlowInv'
    BY <1>2 DEF vars, FlowInv, FlowOne, Accounts, At, Contributions
  <2>3. PoolInv'
    BY <1>2, PoolFlow DEF vars
  <2>4. QueueInv'
    BY <1>2 DEF vars, QueueInv, Settled, Has
  <2>5. HoldingsInv'
    BY <1>2 DEF vars, HoldingsInv, HoldingOne
  <2>6. SolInv'
    BY <1>2, Zenon DEF vars, SolInv, Covered, ToBeRead, HoldingsRead, Rejected
  <2>7. ReceivedInv'
    BY <1>2, ReceivedStays, Zenon DEF vars, ReceivedInv
  <2> QED
    BY <2>1, <2>2, <2>3, <2>4, <2>5, <2>6, <2>7
<1> QED
  BY <1>1, <1>2

\* us1.ts:335-400 and supporters.ts:239-290: the invariant holds in every state of a run.
THEOREM DemoInvariant == Spec => []DemoInv
BY InitInv, NextInv, PTL DEF Spec

\* supporters.ts:67-88: what a result lists was paid, a result without an error lists all that was
\* planned, and a run that ends well has every result.
THEOREM ResultsAreTrueCorrect == Spec => []ResultsAreTrue
<1>1. DemoInv => ResultsAreTrue
  <2> SUFFICES ASSUME DemoInv PROVE ResultsAreTrue
    OBVIOUS
  <2>1. main = "done" => \A i \in Index : flow[i].step = "done"
    BY AllDone
  <2> QED
    BY <2>1 DEF DemoInv, FlowInv, FlowOne, ResultsAreTrue
<1> QED
  BY <1>1, DemoInvariant, PTL

\* us1.ts:194-195, 387-396: the creator's balance grows by the sum of the contributions the results
\* list and of others only of a supporter whose result carries an error: what is pending when
\* the balance is named was paid, and nobody is under way by then.
THEOREM ReceivedIsTheSumCorrect == Spec => []ReceivedIsTheSum
<1>1. DemoInv => ReceivedIsTheSum
  <2> SUFFICES ASSUME DemoInv, main = "done"
               PROVE  /\ \E more \in SUBSET {c \in paid \ Listed : flow[c[1]].error} :
                           received = Total(Listed \cup more)
                      /\ (\A i \in Index : ~flow[i].error) => received = Expected
    BY DEF ReceivedIsTheSum
  <2>1. PICK S \in SUBSET paid : AccountedFor(S) /\ received = Total(S)
    BY DEF DemoInv, ReceivedInv
  <2>2. S = Listed \cup (S \ Listed) /\ S \ Listed \subseteq {c \in paid \ Listed : flow[c[1]].error}
    BY <2>1 DEF AccountedFor
  <2>3. \E more \in SUBSET {c \in paid \ Listed : flow[c[1]].error} : received = Total(Listed \cup more)
    BY <2>1, <2>2, Zenon
  <2>4. ASSUME \A i \in Index : ~flow[i].error PROVE received = Expected
    <3>1. \A c \in paid : c[1] \in Index
      <4> SUFFICES ASSUME NEW c \in paid PROVE c[1] \in Index
        OBVIOUS
      <4>1. PICK i \in Index : Accounts(i, c)
        BY DEF DemoInv, FlowInv
      <4> QED
        BY <4>1 DEF Accounts, Contributions, At
    <3>2. S = Listed
      BY <2>1, <2>4, <3>1 DEF AccountedFor
    <3> QED
      BY <2>1, <3>2 DEF Expected
  <2> QED
    BY <2>3, <2>4
<1> QED
  BY <1>1, DemoInvariant, PTL

\* us1.ts:220-221: after a run that ends well a wallet holds SOL only of a top-up that came after
\* its holdings had been read.
THEOREM SolComesBackCorrect == Spec => []SolComesBack
<1>1. DemoInv => SolComesBack
  <2> SUFFICES ASSUME DemoInv, main = "done", NEW i \in Index, wallet[i] > 0, i \notin late
               PROVE  FALSE
    BY DEF SolComesBack
  <2>1. /\ \A a \in Sweepers : sweep[a].at = "none"
        /\ pending = <<>> /\ ~Rejected /\ \A w \in Workers : \A j : ~Has(w, j)
    BY AllDone
  <2>2. ~HoldingsRead(i)
    BY <2>1 DEF DemoInv, HoldingsInv, HoldingOne, HoldingsRead
  <2>3. ~ToBeRead(i)
    <3>1. \A w \in Workers : job[w] # [at |-> "supporter", with |-> i]
      BY <2>1, HasJob DEF DemoInv
    <3>2. i \notin Range(pending)
      BY <2>1 DEF Range
    <3> QED
      BY <2>1, <3>1, <3>2 DEF ToBeRead
  <2>4. Covered(i)
    BY DEF DemoInv, SolInv
  <2> QED
    BY <2>1, <2>2, <2>3, <2>4 DEF Covered
<1> QED
  BY <1>1, DemoInvariant, PTL
=============================================================================
