------------------------------ MODULE Cabinet ------------------------------
(***************************************************************************)
(* The creator's cabinet: the sealed contributions are read from the index *)
(* page by page while it grows, a pool of web workers decrypts them with   *)
(* the keys that the tab holds, and the screen shows what was recovered.   *)
(* Messages between the page and a worker are asynchronous; the page's     *)
(* handlers are not interrupted.                                           *)
(*                                                                         *)
(* A row of the index is its signature; Key orders rows as the index does, *)
(* by slot and signature.  Rows arrive in any order and are never removed. *)
(*                                                                         *)
(* External: the browser.  It starts a worker in its own time, drops what  *)
(* was posted to it before its module ran, and may report an error of it.  *)
(***************************************************************************)
EXTENDS Integers, SequencesExt

CONSTANTS Sigs,      \* contributions, by the signature of their transaction
          Key,       \* their order in the index, (slot, sig)
          PageLimit, \* PAGE_LIMIT_MAX: rows in a page at most
          Size,      \* poolSize: how many workers a pool spawns
          MaxArrivals, \* bound on rows that arrive while the cabinet is open
          MaxPools   \* bound on pools, one for each time keys are derived

ASSUME CabinetAssumption ==
  /\ IsFiniteSet(Sigs) /\ Key \in [Sigs -> Nat] /\ IsInjective(Key)
  /\ PageLimit \in Nat \ {0} /\ Size \in Nat \ {0} /\ MaxPools \in Nat /\ MaxArrivals \in Nat

Slots == 1..Size
None == "none"
ASSUME SigsAreSigs == Sigs \cap {None, "init", "ready", "error"} = {}

VARIABLES
          pool,      \* "off" | "on"
          pools,     \* how many there were
          slots,     \* those with a live worker
          ready,     \* slots whose worker said so
          current,   \* the job of each slot, or None
          queue,     \* jobs no worker has yet
          promise,   \* of each job: "none" | "waiting" | "resolved" | "rejected"
          module,    \* of each worker: "loading" | "running" | "dead"
          key,       \* whether the worker has the secret
          inbox,     \* messages posted to each worker
          outbox,    \* messages from each worker: "ready", a job's result, "error"
          index,     \* the rows of the creator's contributions
          walk,      \* fetchAllContributions: "idle" | "reading"
          cursor,    \* of the next page, or None
          got,       \* rows of the pages read
          since,     \* history: the index when the walk began, {} without a walk
          loaded,    \* whether the query has data
          items,     \* the data, newest first, or NONE before them
          effect,    \* the effect over them: "due" | "run"
          subscribed,\* promises that the last run of the effect waits for
          recovered  \* amounts recovered in this tab

page == <<pool, pools, slots, ready, current, queue, promise>>
browser == <<module, key, inbox, outbox>>
query == <<walk, cursor, got, since, loaded>>
screen == <<effect, subscribed, recovered>>
vars == <<page, browser, index, query, items, screen>>

Init ==
  /\ pool = "off" /\ pools = 0 /\ slots = {} /\ ready = {} /\ queue = <<>>
  /\ current = [s \in Slots |-> None]
  /\ promise = [g \in Sigs |-> "none"]
  /\ module = [s \in Slots |-> "loading"] /\ key = {}
  /\ inbox = [s \in Slots |-> <<>>] /\ outbox = [s \in Slots |-> <<>>]
  /\ index \in {held \in SUBSET Sigs : Cardinality(Sigs \ held) <= MaxArrivals}
  /\ walk = "idle" /\ cursor = None /\ got = <<>> /\ since = {}
  /\ loaded = FALSE /\ items = <<>>
  /\ effect = "due" /\ subscribed = {} /\ recovered = {}

-----------------------------------------------------------------------------
(* Order, by counting what comes first: such definitions can be reasoned   *)
(* about, which the recursive ones of the library cannot.                  *)

\* The place of x among the arguments of f, by their values.
Place(f, x) == Cardinality({y \in DOMAIN f : f[y] <= f[x]})
Ordered(f) == [i \in 1..Cardinality(DOMAIN f) |-> CHOOSE x \in DOMAIN f : Place(f, x) = i]

\* The jobs of a sequence that are in a set, in their order.
Kept(jobs, set) ==
  LET at == Ordered([i \in {j \in DOMAIN jobs : jobs[j] \in set} |-> i])
  IN  [i \in DOMAIN at |-> jobs[at[i]]]

-----------------------------------------------------------------------------
(* The contributions: the pages of the api and the walk over them.         *)

\* The worker of the index writes a row.
Contribute ==
  /\ \E g \in Sigs \ index : index' = index \cup {g}
  /\ UNCHANGED <<page, browser, query, items, screen>>

\* contributionsPage: keyset, newest first.
After(c) == {g \in index : c # None => Key[g] < Key[c]}
Rows(c, limit) ==
  LET all == Ordered([g \in After(c) |-> 0 - Key[g]])
  IN  SubSeq(all, 1, IF Len(all) < limit THEN Len(all) ELSE limit)

\* page: one row past the limit tells whether a next page exists.
PageOfLimit(c) ==   \* mutant: the row past the limit is not asked for
  [rows |-> Rows(c, PageLimit), next |-> None]
PageOf(c) ==
  LET rows == Rows(c, PageLimit + 1)
      more == Len(rows) > PageLimit
  IN  [rows |-> IF more THEN Front(rows) ELSE rows,
       next |-> IF more THEN rows[PageLimit] ELSE None]

\* The query is asked, at first and every POLL_MS.
StartWalk ==
  /\ walk = "idle"
  /\ walk' = "reading" /\ cursor' = None /\ got' = <<>> /\ since' = index
  /\ UNCHANGED <<page, browser, index, loaded, items, screen>>

\* A page is read; after the last one the query has its data.  Rows that differ from the
\* old ones make the effect over them run again; until then the old run records results.
ReadPage ==
  /\ walk = "reading"
  /\ LET read == PageOf(cursor)
         rows == got \o read.rows
     IN  IF read.next # None
           THEN /\ got' = rows /\ cursor' = read.next
                /\ UNCHANGED <<walk, since, loaded, items, screen>>
           ELSE /\ walk' = "idle" /\ cursor' = None /\ got' = <<>> /\ since' = {}
                /\ loaded' = TRUE /\ items' = rows
                /\ effect' = IF rows = items THEN effect ELSE "due"
                /\ UNCHANGED <<subscribed, recovered>>
  /\ UNCHANGED <<page, browser, index>>

\* A page is refused or not answered: nothing is retried, and the old data stay.
WalkFails ==
  /\ walk = "reading"
  /\ walk' = "idle" /\ cursor' = None /\ got' = <<>> /\ since' = {}
  /\ UNCHANGED <<page, browser, index, loaded, items, screen>>

-----------------------------------------------------------------------------
(* pump: the queue's first jobs go to the free slots that are ready.       *)

FreeAtOnce(rdy, cur) == {s \in slots : cur[s] = None}   \* mutant: ready or not
Free(rdy, cur) == {s \in slots : s \in rdy /\ cur[s] = None}

\* The jobs that pump hands out, to the slots in their order.
Taking(rdy, cur, waiting) ==
  LET free == [s \in Free(rdy, cur) |-> s]
  IN  [s \in {t \in Free(rdy, cur) : Place(free, t) <= Len(waiting)} |->
         waiting[Place(free, s)]]

\* What was posted to a worker before its module ran is lost.
Post(box, s, messages) == IF module[s] = "running" THEN box[s] \o messages ELSE box[s]

\* pump after the slots in `rdy` are ready, `cur` are at work, `waiting` is queued, and
\* `first[s]` was posted to worker s.
Pump(rdy, cur, waiting, first) ==
  LET taking == Taking(rdy, cur, waiting)
  IN  /\ ready' = rdy
      /\ current' = [s \in Slots |-> IF s \in DOMAIN taking THEN taking[s] ELSE cur[s]]
      /\ queue' = SubSeq(waiting, Cardinality(DOMAIN taking) + 1, Len(waiting))
      /\ inbox' = [s \in Slots |->
           Post(inbox, s, first[s] \o (IF s \in DOMAIN taking THEN <<taking[s]>> ELSE <<>>))]

Nothing == [s \in Slots |-> <<>>]

-----------------------------------------------------------------------------
(* The keys, and the effects of useAmounts.                                *)

\* The keys are derived: the effect spawns a pool, none of whose workers runs yet.
CreatePool ==
  /\ pool = "off" /\ pools < MaxPools
  /\ pool' = "on" /\ pools' = pools + 1
  /\ slots' = Slots /\ ready' = {} /\ queue' = <<>>
  /\ current' = [s \in Slots |-> None]
  /\ promise' = [g \in Sigs |-> "none"]
  /\ module' = [s \in Slots |-> "loading"] /\ key' = {}
  /\ inbox' = Nothing /\ outbox' = Nothing
  /\ effect' = "due"
  /\ UNCHANGED <<index, query, items, subscribed, recovered>>

\* The keys are forgotten or the screen is left: terminate, and the effect is cleaned up.
RejectCurrent(g) == \E s \in slots : current[s] = g   \* mutant: the queue is left alone
Rejected(g) == (\E s \in slots : current[s] = g) \/ \E i \in DOMAIN queue : queue[i] = g

Terminate ==
  /\ pool = "on"
  /\ pool' = "off"
  /\ promise' = [g \in Sigs |-> IF Rejected(g) THEN "rejected" ELSE promise[g]]
  /\ slots' = {} /\ ready' = {} /\ queue' = <<>>
  /\ current' = [s \in Slots |-> None]
  /\ inbox' = Nothing /\ outbox' = Nothing
  /\ subscribed' = {}
  /\ UNCHANGED <<pools, module, key, index, query, items, effect, recovered>>

\* The effect asks for every amount that is not recovered; a job in flight is shared.
InFlight(g) == promise[g] = "waiting"
NotInFlight(todo) == {g \in todo : ~InFlight(g)}

\* The promises that the effect waits for from now on; its last run is cancelled.
AwaitedFresh(todo) == NotInFlight(todo)   \* mutant: not the shared ones
Awaited(todo) == todo

RunEffect ==
  /\ pool = "on" /\ effect = "due"
  /\ effect' = "run"
  /\ LET todo == Range(items) \ recovered
         fresh == NotInFlight(todo)
     IN  /\ subscribed' = Awaited(todo)
         /\ promise' = [g \in Sigs |-> IF g \in fresh THEN "waiting" ELSE promise[g]]
         /\ \E jobs \in {queue \o Kept(items, fresh)} : Pump(ready, current, jobs, Nothing)
  /\ UNCHANGED <<pool, pools, slots, module, key, outbox, index, query, items, recovered>>

-----------------------------------------------------------------------------
(* The page's handlers of a worker's messages.                             *)

Take(s) == outbox' = [outbox EXCEPT ![s] = Tail(@)]

\* ready: the secret is posted, then the slot counts as ready, then the queue is pumped.
OnReady(s) ==
  /\ s \in slots /\ outbox[s] # <<>> /\ Head(outbox[s]) = "ready"
  /\ Take(s)
  /\ Pump(ready \cup {s}, current, queue, [Nothing EXCEPT ![s] = <<"init">>])
  /\ UNCHANGED <<pool, pools, slots, promise, module, key, index, query, items, screen>>

\* result: the job's promise is resolved, and the effect that waits for it records it.
OnResult(s) ==
  LET g == Head(outbox[s])
  IN  /\ s \in slots /\ outbox[s] # <<>> /\ g \in Sigs
      /\ Take(s)
      /\ IF current[s] = g
           THEN /\ promise' = [promise EXCEPT ![g] = "resolved"]
                /\ recovered' = IF g \in subscribed THEN recovered \cup {g} ELSE recovered
                /\ subscribed' = subscribed \ {g}
                /\ Pump(ready, [current EXCEPT ![s] = None], queue, Nothing)
           ELSE /\ Pump(ready, current, queue, Nothing)
                /\ UNCHANGED <<promise, recovered, subscribed>>
      /\ UNCHANGED <<pool, pools, slots, module, key, index, query, items, effect>>

\* error: drop; with the last worker go the jobs that are still queued.
OnErrorQueueKept(s) ==   \* mutant: they do not
  /\ s \in slots /\ outbox[s] # <<>> /\ Head(outbox[s]) = "error"
  /\ slots' = slots \ {s}
  /\ promise' = [g \in Sigs |-> IF current[s] = g THEN "rejected" ELSE promise[g]]
  /\ subscribed' = {g \in subscribed : promise'[g] # "rejected"}
  /\ current' = [current EXCEPT ![s] = None]
  /\ inbox' = [inbox EXCEPT ![s] = <<>>] /\ outbox' = [outbox EXCEPT ![s] = <<>>]
  /\ UNCHANGED <<queue, pool, pools, ready, module, key, index, query, items, effect, recovered>>
OnError(s) ==
  /\ s \in slots /\ outbox[s] # <<>> /\ Head(outbox[s]) = "error"
  /\ slots' = slots \ {s}
  /\ LET queued == {queue[i] : i \in DOMAIN queue}
         dropped == {g \in Sigs : current[s] = g \/ (slots' = {} /\ g \in queued)}
     IN  /\ promise' = [g \in Sigs |-> IF g \in dropped THEN "rejected" ELSE promise[g]]
         /\ subscribed' = subscribed \ dropped
  /\ queue' = IF slots' = {} THEN <<>> ELSE queue
  /\ current' = [current EXCEPT ![s] = None]
  /\ inbox' = [inbox EXCEPT ![s] = <<>>] /\ outbox' = [outbox EXCEPT ![s] = <<>>]
  /\ UNCHANGED <<pool, pools, ready, module, key, index, query, items, effect, recovered>>

-----------------------------------------------------------------------------
(* A worker: decrypt.worker.ts.                                            *)

Say(s, what) == outbox' = [outbox EXCEPT ![s] = Append(@, what)]

\* The module has run: from now on messages arrive.
WorkerStarts(s) ==
  /\ s \in slots /\ module[s] = "loading"
  /\ module' = [module EXCEPT ![s] = "running"]
  /\ Say(s, "ready")
  /\ UNCHANGED <<page, key, inbox, index, query, items, screen>>

\* onmessage: the secret is kept, a job is answered; a job before the secret throws.
WorkerTakes(s) ==
  /\ s \in slots /\ inbox[s] # <<>>
  /\ inbox' = [inbox EXCEPT ![s] = Tail(@)]
  /\ IF Head(inbox[s]) = "init"
       THEN key' = key \cup {s} /\ UNCHANGED outbox
       ELSE Say(s, IF s \in key THEN Head(inbox[s]) ELSE "error") /\ UNCHANGED key
  /\ UNCHANGED <<page, module, index, query, items, screen>>

\* A worker that cannot load or dies of something else reports an error, and nothing more.
WorkerFails(s) ==
  /\ s \in slots /\ module[s] # "dead"
  /\ inbox' = [inbox EXCEPT ![s] = <<>>]
  /\ module' = [module EXCEPT ![s] = "dead"]
  /\ Say(s, "error")
  /\ UNCHANGED <<page, key, index, query, items, screen>>

Handle(s) == OnReady(s) \/ OnResult(s) \/ OnError(s)
Work(s) == WorkerStarts(s) \/ WorkerTakes(s)

Next ==
  \/ Contribute \/ StartWalk \/ ReadPage \/ WalkFails
  \/ CreatePool \/ Terminate \/ RunEffect
  \/ \E s \in Slots : Handle(s) \/ Work(s) \/ WorkerFails(s)

Spec == Init /\ [][Next]_vars

\* The page's event loop and the workers run; a worker loads or reports that it did not.
FairSpec ==
  /\ Spec
  /\ WF_vars(RunEffect)
  /\ \A s \in Slots : WF_vars(Handle(s)) /\ WF_vars(Work(s))

-----------------------------------------------------------------------------

\* pool.ts:67-68: no message is lost.  A job that a slot is at is with its worker, before or
\* after the work, or the worker has failed; and no worker gets work before its key.
JobsReachTheirWorker ==
  \A s \in slots :
    /\ current[s] # None =>
         \/ \E i \in DOMAIN inbox[s] : inbox[s][i] = current[s]
         \/ \E i \in DOMAIN outbox[s] : outbox[s][i] \in {current[s], "error"}
    /\ \A i \in DOMAIN inbox[s] :
         inbox[s][i] # "init" => s \in key \/ \E j \in 1..i - 1 : inbox[s][j] = "init"

\* A promise is open exactly as long as its job is in the queue or with one worker: no
\* logarithm is computed twice at a time, and termination leaves no promise open.
OneWorkerPerJob ==
  \A g \in Sigs :
    Cardinality({s \in Slots : current[s] = g}) + Cardinality({i \in DOMAIN queue : queue[i] = g})
      = IF promise[g] = "waiting" THEN 1 ELSE 0

\* creators.ts:53-76, queries/creators.ts:32: a contribution that lands between two requests
\* does not shift the pages.  A walk that ends brings every row that was in the index when
\* it began, and none twice.
WalkIsWhole ==
  [][walk' = "idle" /\ ReadPage =>
       since \subseteq Range(items') /\ IsInjective(items')]_vars

\* Contributions that are fetched while others are being decrypted cost no amount: once the
\* effect has run, each one is recovered, awaited, or was rejected.
NoAmountIsMissed ==
  pool = "on" /\ effect = "run" =>
    \A g \in Range(items) :
                     \/ g \in recovered
                     \/ promise[g] = "waiting" /\ g \in subscribed
                     \/ promise[g] = "rejected"

\* A promise made while a worker lives is settled: by its result, by the failure of its
\* worker or of the last one, or by termination.
EveryJobSettles ==
  \A g \in Sigs : promise[g] = "waiting" /\ slots # {} ~> promise[g] # "waiting"
=============================================================================
