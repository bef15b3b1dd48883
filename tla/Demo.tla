-------------------------------- MODULE Demo --------------------------------
(***************************************************************************)
(* The demo run against devnet: a pool of workers takes synthetic          *)
(* supporters one by one through the faucet, the preparation of their      *)
(* account and their contributions, and sends what is left of the SOL back *)
(* to the faucet in batches.  One sender serves everybody: it polls the    *)
(* status of every transaction that somebody waits for at once.  The       *)
(* program is one event loop, so that each await is a point where the      *)
(* others may move.                                                        *)
(*                                                                         *)
(* External: the network, where a transaction may land, fail or vanish, at *)
(* any time, also long after its sender has given up; and the api, seen    *)
(* from outside: a request is answered well, or with an error that says    *)
(* nothing about what the api had sent.  SOL is counted in portions of the *)
(* faucet; fees are below a portion, but a wallet that paid one holds less *)
(* than was read of it, and an empty wallet can pay none.                  *)
(*                                                                         *)
(* Abstractions: an account is read as of all that had landed by then.     *)
(* The code reads at "confirmed" and a node that is behind may answer with *)
(* less (send.ts:112-113 works around one that does not know a blockhash); *)
(* such an answer would miss a top-up or a contribution.  One poll asks    *)
(* for all that is waited for: the code asks for 256 signatures at a time, *)
(* oldest first, and what is further back waits for the ones before it to  *)
(* be settled or over.                                                     *)
(***************************************************************************)
EXTENDS Integers, FiniteSets, FiniteSetsExt, Functions, Sequences

CONSTANTS Supporters,      \* --supporters: how many
          Repeats,         \* --repeats: how many of them contribute twice
          Workers,         \* as many as --concurrency
          SweepBatch,      \* SWEEP_BATCH
          FaucetAttempts,  \* FAUCET_ATTEMPTS
          MaxFaults        \* bound on errors and failures; past it only deadlines go by

ASSUME DemoAssumption ==
  /\ \A n \in {Supporters, SweepBatch, FaucetAttempts} : n \in Nat \ {0}
  /\ MaxFaults \in Nat /\ Repeats \in 0..Supporters
  /\ Workers # {} /\ "main" \notin Workers

Index == 0..Supporters - 1
Sweepers == Workers \cup {"main"}

VARIABLES main,      \* where runUs1 is
          next,      \* the pool's next item
          job,       \* of each worker: where it is and with which supporter
          flow,      \* of each supporter: its locals in runSupporter
          tx,        \* the transaction it waits for: the network's view and the sender's
          stray,     \* transactions it gave up on that may still land
          pending,   \* pendingSweep
          sweep,     \* of each worker and of finally: the sweep under way
          wallet,    \* portions of SOL in a supporter's wallet
          spent,     \* supporters that paid a fee since their holdings were read
          late,      \* history: supporters whose top-up landed after that
          paid,      \* the chain: contributions that reached the creator
          received,  \* the balance that is named for the creator, and returned
          faults     \* how many things went wrong

vars == <<main, next, job, flow, tx, stray, pending, sweep, wallet, spent, late,
          paid, received, faults>>
chain == <<wallet, spent, late, paid>>
driver == <<main, next, job, pending, sweep, received>>

-----------------------------------------------------------------------------
\* contributionPlan: amounts are fixed by the index, and never round.
Entry(index, salt) ==
  1000000 * (3 + ((index * 7 + salt) % 40)) + 10000 * ((index * 37 + salt) % 99) + 1000
Kinds(i) == IF i < Repeats THEN <<"first", "repeat">> ELSE <<"first">>
Units(c) == Entry(c[1], IF c[2] = "first" THEN 0 ELSE 11)
Total(contributions) == MapThenSumSet(Units, contributions)

\* The contribution that i is at, and the ones its result lists.
At(i) == <<i, Kinds(i)[flow[i].given + 1]>>
Contributions(i) == {<<i, Kinds(i)[k]>> : k \in 1..flow[i].given}

NoSweep == [at |-> "none", batch |-> {}, held |-> <<>>, net |-> "none"]

Fault(n) == faults + n <= MaxFaults /\ faults' = faults + n
Deadline(n) == faults' = Min({MaxFaults, faults + n})
Running == main \notin {"done", "failed"}
Awaiting == {i \in Index : flow[i].step \in {"preparing", "transferring"}}
AwaitedSweeps == {a \in Sweepers : sweep[a].at = "waiting"}

Init ==
  /\ main = "setup" /\ next = 0 /\ received = 0 /\ faults = 0
  /\ job = [w \in Workers |-> [at |-> "next", with |-> 0]]
  /\ flow = [i \in Index |-> [step |-> "new", attempt |-> 1, given |-> 0, error |-> FALSE]]
  /\ tx = [i \in Index |-> "none"]
  /\ stray = [i \in Index |-> {}]
  /\ pending = <<>>
  /\ sweep = [a \in Sweepers |-> NoSweep]
  /\ wallet = [i \in Index |-> 0]
  /\ spent = {} /\ late = {} /\ paid = {}

-----------------------------------------------------------------------------
\* A send that nobody waits for any more: what is under way stays with the network, where,
\* within the bound on faults, it may still land.
Dropped(i) ==
  IF tx[i] = "pending" /\ faults < MaxFaults THEN stray[i] \cup {<<flow[i].step, flow[i].given>>} ELSE stray[i]

\* createSender: what a status says to the one who waits for it, and when its deadline is
\* over, which is up to the clock.
AnsweredOnly(net, over) ==   \* mutant: no deadline
  IF net = "landed" THEN "ok" ELSE IF net = "failed" THEN "throws" ELSE "waiting"
AnsweredAnyway(net, over) ==   \* mutant: no status at the deadline passes for success
  IF net = "landed" \/ over THEN "ok" ELSE IF net = "failed" THEN "throws" ELSE "waiting"
Answered(net, over) ==
  CASE net = "landed" -> "ok"
    [] net = "failed" -> "throws"
    [] OTHER -> IF over THEN "throws" ELSE "waiting"

After(i, answer) ==
  CASE answer = "throws" -> [flow[i] EXCEPT !.step = "done", !.error = TRUE]
    [] answer = "waiting" -> flow[i]
    [] OTHER -> [flow[i] EXCEPT !.step = IF @ = "preparing" THEN "proofs" ELSE "close"]

\* pollOnce reads the status of everything that is tracked, and resolves what is settled or
\* over: the ones who waited go on before anything else happens.  A sweep that is resolved
\* goes on in a step of its own.
Poll(over, overSweeps) ==
  LET answer == [i \in Awaiting |-> Answered(tx[i], i \in over)]
      Ends(i) == i \in Awaiting /\ answer[i] # "waiting"
  IN  /\ Running
      /\ over \subseteq {i \in Awaiting : tx[i] = "pending"}
      /\ overSweeps \subseteq {a \in AwaitedSweeps : sweep[a].net = "pending"}
      /\ Deadline(Cardinality(over) + Cardinality(overSweeps))
      /\ flow' = [i \in Index |-> IF i \in Awaiting THEN After(i, answer[i]) ELSE flow[i]]
      /\ tx' = [i \in Index |-> IF Ends(i) THEN "none" ELSE tx[i]]
      /\ stray' = [i \in Index |-> IF Ends(i) THEN Dropped(i) ELSE stray[i]]
      /\ sweep' = [a \in Sweepers |->
           IF a \notin AwaitedSweeps THEN sweep[a]
           ELSE [sweep[a] EXCEPT !.at = Answered(sweep[a].net, a \in overSweeps)]]
      /\ UNCHANGED <<main, next, job, pending, chain, received>>

\* The network settles what it has of a supporter: the SOL of a top-up, a contribution.
Land(i) ==
  /\ Running /\ tx[i] = "pending"
  /\ \E outcome \in {"landed", "failed"} :
       /\ tx' = [tx EXCEPT ![i] = outcome]
       /\ Fault(IF outcome = "failed" THEN 1 ELSE 0)
       /\ wallet' = IF outcome = "landed" /\ flow[i].step = "topUp"
                    THEN [wallet EXCEPT ![i] = @ + 1] ELSE wallet
       /\ paid' = IF outcome = "landed" /\ flow[i].step = "transferring"
                  THEN paid \cup {At(i)} ELSE paid
  /\ UNCHANGED <<driver, flow, stray, spent, late>>

\* Holdings of i were read and are on their way.
HoldingsRead(i) == \E a \in Sweepers : i \in DOMAIN sweep[a].held
ToBeRead(i) ==
  \/ \E w \in Workers : job[w] = [at |-> "supporter", with |-> i]
  \/ i \in Range(pending)
  \/ \E a \in Sweepers : sweep[a].at = "reading" /\ i \in sweep[a].batch

\* So it does with a transaction that was given up.
LandStray(i) ==
  /\ Running
  /\ \E s \in stray[i] :
       /\ stray' = [stray EXCEPT ![i] = @ \ {s}]
       /\ \/ /\ s[1] = "topUp"
             /\ wallet' = [wallet EXCEPT ![i] = @ + 1]
             /\ late' = IF HoldingsRead(i) \/ ~ToBeRead(i) THEN late \cup {i} ELSE late
             /\ UNCHANGED <<spent, paid>>
          \/ /\ s[1] # "topUp" /\ wallet[i] > 0
             /\ spent' = IF HoldingsRead(i) THEN spent \cup {i} ELSE spent
             /\ paid' \in IF s[1] = "transferring" THEN {paid, paid \cup {<<i, Kinds(i)[s[2] + 1]>>}}
                          ELSE {paid}
             /\ UNCHANGED <<wallet, late>>
  /\ UNCHANGED <<driver, flow, tx, faults>>

-----------------------------------------------------------------------------
\* runSupporter, step by step.
Goes(i, step) == flow' = [flow EXCEPT ![i].step = step]
Sends(i) == tx' = [tx EXCEPT ![i] = "pending"] /\ UNCHANGED stray
Drops(i) == tx' = [tx EXCEPT ![i] = "none"] /\ stray' = [stray EXCEPT ![i] = Dropped(i)]

\* requestFaucet: the api builds, sends and confirms a top-up.
RequestFaucet(i) ==
  /\ flow[i].step = "faucet" /\ Goes(i, "topUp") /\ Sends(i) /\ UNCHANGED faults

\* INTERNAL, which the api answers to whatever it did not see confirmed: once more.
RetryFaucet(i) ==
  /\ flow[i].step = "topUp" /\ flow[i].attempt < FaucetAttempts
  /\ flow' = [flow EXCEPT ![i].step = "faucet", ![i].attempt = @ + 1]
  /\ Drops(i) /\ Fault(1)

ToppedUp(i) ==
  /\ flow[i].step = "topUp" /\ tx[i] = "landed"
  /\ Goes(i, "prepare") /\ Drops(i) /\ UNCHANGED faults

\* prepare: the steps of the plan in one transaction.
Prepare(i) ==
  /\ flow[i].step = "prepare" /\ Goes(i, "preparing") /\ Sends(i) /\ UNCHANGED faults

\* contribute: the proofs go through the relay, then the transfer is sent.
Contribute(i) ==
  /\ flow[i].step = "proofs" /\ Goes(i, "transferring") /\ Sends(i) /\ UNCHANGED faults

\* The proof accounts are closed and verify passes: the contribution joins the result.
Verify(i) ==
  /\ flow[i].step = "close"
  /\ flow' = [flow EXCEPT ![i].given = @ + 1,
                          ![i].step = IF flow[i].given + 1 < Len(Kinds(i)) THEN "proofs" ELSE "done"]
  /\ UNCHANGED <<tx, stray, faults>>

\* Anything else throws: an answer of the api or the rpc, before the transfer or after it.
\* The result carries the error; what the api had sent may still land.
Throws(i) ==
  /\ flow[i].step \in {"faucet", "topUp", "prepare", "proofs", "close"}
  /\ flow' = [flow EXCEPT ![i].step = "done", ![i].error = TRUE]
  /\ Drops(i)
  /\ IF tx[i] \in {"pending", "failed"} THEN Deadline(1) ELSE Fault(1)

RunSupporter(i) ==
  /\ Running
  /\ \/ RequestFaucet(i) \/ RetryFaucet(i) \/ ToppedUp(i) \/ Prepare(i) \/ Contribute(i)
     \/ Verify(i) \/ Throws(i)
  /\ UNCHANGED <<driver, chain>>

-----------------------------------------------------------------------------
\* A worker that threw rejects the pool, and finally runs with the exception under way.
Rejected == \E w \in Workers : job[w].at = "threw"

\* sweepBatch: takes a batch off the queue, or returns.  A worker goes on to the next
\* item; finally leaves the run, or the exception goes on its way.
Leaves(a) ==
  IF a \in Workers THEN /\ job' = [job EXCEPT ![a].at = "next"] /\ UNCHANGED main
  ELSE /\ main' = IF Rejected THEN "failed" ELSE "receiving"
       /\ UNCHANGED job
Enters(a) ==
  IF a \in Workers THEN /\ job' = [job EXCEPT ![a].at = "sweeping"] /\ UNCHANGED main
  ELSE main' = "sweeping" /\ UNCHANGED job

FullOnly(queue, all) == Len(queue) >= SweepBatch   \* mutant: the rest is never swept
IsDue(queue, all) == Len(queue) >= SweepBatch \/ (all /\ queue # <<>>)
Splice(queue) == SubSeq(queue, 1, Min({SweepBatch, Len(queue)}))

SweepBatches(a, queue) ==
  IF IsDue(queue, a = "main")
  THEN LET batch == Splice(queue)
       IN  /\ pending' = SubSeq(queue, Len(batch) + 1, Len(queue))
           /\ sweep' = [sweep EXCEPT ![a] =
                [NoSweep EXCEPT !.at = "reading", !.batch = Range(batch)]]
           /\ Enters(a)
  ELSE pending' = queue /\ sweep' = [sweep EXCEPT ![a] = NoSweep] /\ Leaves(a)

\* sweep reads what every wallet of the batch holds and sends it in one transaction; a
\* batch that holds nothing is skipped.
ReadHoldings(a) ==
  LET batch == sweep[a].batch
  IN  /\ Running /\ sweep[a].at = "reading"
      /\ IF \A i \in batch : wallet[i] = 0
         THEN SweepBatches(a, pending)
         ELSE /\ sweep' = [sweep EXCEPT ![a] =
                   [@ EXCEPT !.at = "waiting", !.held = [i \in batch |-> wallet[i]], !.net = "pending"]]
              /\ UNCHANGED <<main, job, pending>>
      /\ spent' = spent \ batch
      /\ UNCHANGED <<next, flow, tx, stray, wallet, late, paid, received, faults>>

\* It moves what was read of each; a wallet with less makes it fail as a whole.
LandSweep(a) ==
  LET batch == sweep[a].batch
      Becomes(what) == sweep' = [sweep EXCEPT ![a].net = what]
  IN  /\ Running /\ sweep[a].net = "pending"
      /\ \/ /\ batch \cap spent = {} /\ Becomes("landed")
            /\ wallet' = [i \in Index |-> IF i \in batch THEN wallet[i] - sweep[a].held[i] ELSE wallet[i]]
            /\ UNCHANGED faults
         \/ Becomes("failed") /\ UNCHANGED wallet /\ Fault(IF batch \cap spent = {} THEN 1 ELSE 0)
      /\ UNCHANGED <<main, next, job, flow, tx, stray, pending, spent, late, paid, received>>

Swept(a) ==
  /\ Running /\ sweep[a].at = "ok"
  /\ SweepBatches(a, pending)
  /\ UNCHANGED <<next, flow, tx, stray, chain, received, faults>>

\* Reading or sending throws: the pool is rejected, or finally is.  The batch is off the queue.
SweepThrows(a) ==
  /\ Running /\ sweep[a].at \in {"reading", "throws"}
  /\ Fault(IF sweep[a].at = "reading" THEN 1 ELSE 0)
  /\ sweep' = [sweep EXCEPT ![a] = NoSweep]
  /\ IF a \in Workers THEN job' = [job EXCEPT ![a].at = "threw"] /\ UNCHANGED main
     ELSE main' = "failed" /\ UNCHANGED job
  /\ UNCHANGED <<next, flow, tx, stray, pending, chain, received>>

-----------------------------------------------------------------------------
\* pool: the workers share the next index.
Take(w) ==
  /\ main \in {"pool", "sweeping"} /\ job[w].at = "next"
  /\ IF next < Supporters
     THEN /\ job' = [job EXCEPT ![w] = [at |-> "supporter", with |-> next]]
          /\ next' = next + 1
          /\ flow' = [flow EXCEPT ![next].step = "faucet"]
     ELSE /\ job' = [job EXCEPT ![w].at = "left"]
          /\ UNCHANGED <<next, flow>>
  /\ UNCHANGED <<main, tx, stray, pending, sweep, chain, received, faults>>

\* The callback of runUs1, when runSupporter returned: push, and sweep as we go.
Push(w) ==
  /\ Running /\ job[w].at = "supporter" /\ flow[job[w].with].step = "done"
  /\ SweepBatches(w, Append(pending, job[w].with))
  /\ UNCHANGED <<next, flow, tx, stray, chain, received, faults>>

\* requireFaucetStock and setupCreator.
Setup ==
  /\ main = "setup" /\ main' \in {"pool", "failed"}
  /\ UNCHANGED <<next, job, flow, tx, stray, pending, sweep, chain, received, faults>>

AnyLeft == \E w \in Workers : job[w].at = "left"   \* mutant: Promise.race
Resolved == \A w \in Workers : job[w].at = "left"

\* Promise.all: every worker left, or the first one threw while the others go on.
PoolSettles ==
  /\ main = "pool"
  /\ Rejected \/ Resolved
  /\ SweepBatches("main", pending)
  /\ UNCHANGED <<next, flow, tx, stray, chain, received, faults>>

\* creatorReceived reads the creator's account and plans the one transaction that applies the
\* pending balance: it names the balance the account will decrypt to, with what is pending at
\* this point.  Counted from availableBefore, which setupCreator read with nothing pending.
PlanReceived ==
  /\ main = "receiving"
  /\ \/ main' = "applying" /\ received' = Total(paid)
     \/ main' = "failed" /\ UNCHANGED received
  /\ UNCHANGED <<next, job, flow, tx, stray, pending, sweep, chain, faults>>

\* The transaction is sent and waited for, and the account is read again and decrypted: what
\* landed in between is applied too, and is not in the balance that was named.
CreatorReceived ==
  /\ main = "applying" /\ main' \in {"done", "failed"}
  /\ UNCHANGED <<next, job, flow, tx, stray, pending, sweep, chain, received, faults>>

Listed == UNION {Contributions(i) : i \in Index}
Expected == Total(Listed)

Next ==
  \/ Setup \/ PoolSettles \/ PlanReceived \/ CreatorReceived
  \/ \E over \in SUBSET Awaiting, overSweeps \in SUBSET AwaitedSweeps : Poll(over, overSweeps)
  \/ \E w \in Workers : Take(w) \/ Push(w)
  \/ \E i \in Index : RunSupporter(i) \/ Land(i) \/ LandStray(i)
  \/ \E a \in Sweepers : ReadHoldings(a) \/ LandSweep(a) \/ Swept(a) \/ SweepThrows(a)

Spec == Init /\ [][Next]_vars

\* The event loop runs whatever is ready, a poll that does not throw comes again and again,
\* and no deadline stays ahead of the clock for ever.  The network owes nothing.
PollsLate == Poll({i \in Awaiting : tx[i] = "pending"}, {a \in AwaitedSweeps : sweep[a].net = "pending"})
FairSpec ==
  /\ Spec /\ WF_vars(Setup) /\ WF_vars(PoolSettles)
  /\ WF_vars(PlanReceived) /\ WF_vars(CreatorReceived) /\ WF_vars(PollsLate)
  /\ \A w \in Workers : WF_vars(Take(w) \/ Push(w))
  /\ \A i \in Index : WF_vars(RunSupporter(i))
  /\ \A a \in Sweepers : WF_vars(ReadHoldings(a) \/ Swept(a) \/ SweepThrows(a))

-----------------------------------------------------------------------------
\* supporters.ts:67-88: what a result lists was paid, and a result without an error lists
\* all that was planned; a run that ends well has every result.
ResultsAreTrue ==
  /\ \A i \in Index :
       /\ Contributions(i) \subseteq paid
       /\ flow[i].step = "done" /\ ~flow[i].error => flow[i].given = Len(Kinds(i))
  /\ main = "done" => \A i \in Index : flow[i].step = "done"

\* us1.ts:194-195, 387-396: whatever was retried, given up and landed late, the creator's balance
\* grows by exactly the sum of the contributions the results list, and of others only of a
\* supporter whose result carries an error; without errors it is the sum the run expects.
ReceivedIsTheSum ==
  main = "done" =>
    /\ \E more \in SUBSET {c \in paid \ Listed : flow[c[1]].error} :
         received = Total(Listed \cup more)
    /\ (\A i \in Index : ~flow[i].error) => received = Expected

\* us1.ts:220-221: when the run ends well, the SOL is back in the faucet, but for a top-up
\* that came after its wallet had been swept.
SolComesBack == main = "done" => \A i \in Index : wallet[i] > 0 => i \in late

\* A run ends, whatever the network does to its transactions.
RunEnds == <>(main \in {"done", "failed"})
=============================================================================
