------------------------------ MODULE Indexer ------------------------------
(***************************************************************************)
(* The worker: one queue that the websocket subscription and the backfill  *)
(* both feed, a cursor in memory and a durable one, and the index that the *)
(* handler writes.  A transaction is named by its position in History, its *)
(* place in chain order; its slot is all the order the worker can see.     *)
(*                                                                         *)
(* The order of a node's answers and the loss of its notifications are     *)
(* external: a listing is complete up to the moment of its first page, a   *)
(* socket delivers in order what it does not lose.                         *)
(***************************************************************************)
EXTENDS Applier, Integers, Sequences, FiniteSets

CONSTANTS History,    \* the program's transactions, in chain order
          Recent,     \* RECENT_SIGNATURES: signatures remembered around the cursor
          WsServed,   \* whether the websocket endpoint takes connections
          Faults,     \* what may fail besides the rpc: "handler", "save", "notification"
          MaxStops    \* bound on crashes and shutdowns

Txs == 1..Len(History)
Slot(n) == History[n].slot

ASSUME IndexerAssumption ==
  /\ Recent \in Nat /\ MaxStops \in Nat /\ WsServed \in BOOLEAN
  /\ Faults \subseteq {"handler", "save", "notification"}
  /\ Len(History) \in Nat
  /\ \A n \in Txs : History[n].sig = n /\ Slot(n) \in Nat
  /\ \A m, n \in Txs : m <= n => Slot(m) <= Slot(n)
  \* A slot's transactions fit the memory of signatures.
  /\ \A n \in Txs : Cardinality({m \in Txs : Slot(m) = Slot(n)}) <= Recent

VARIABLES landed,    \* how many transactions have been confirmed
          socket,    \* "closed" | "up"
          wire,      \* notifications on their way over the socket
          worker,    \* "down" | "starting" | "listening" | "stopping"
          cursor,    \* the transaction the cursor is at, 0 for none
          recent,    \* the signatures remembered
          queue,     \* the jobs: [tx, from], the first one running
          saving,    \* whether the first job waits for store.save
          pass,      \* the backfill pass: [st, since, todo]
          draining,  \* jobs that stop() still waits for
          stored,    \* the durable cursor, 0 for none
          index,     \* the database
          stops,     \* crashes and shutdowns so far
          applied,   \* history: transactions applied, in this life of the worker or before
          done,      \* history: those applied in this life
          failed,    \* history: those whose handler failed
          unheard,   \* history: those of which no notification reached the worker
          overtaken  \* history: those of them that a notified transaction overtook

life == <<worker, cursor, recent, queue, saving, pass, draining, done>>
net == <<landed, socket, wire, unheard>>
vars == <<life, net, stored, index, stops, applied, failed, overtaken>>

Idle == [st |-> "idle", since |-> 0, todo |-> <<>>]
Job(n, from) == [tx |-> n, from |-> from]

Init ==
  /\ landed = 0 /\ socket = "closed" /\ wire = <<>>
  /\ worker = "down" /\ cursor = 0 /\ recent = <<>> /\ queue = <<>> /\ saving = FALSE
  /\ pass = Idle /\ draining = 0
  /\ stored = 0 /\ index = EmptyIndex /\ stops = 0
  /\ applied = {} /\ done = {} /\ failed = {}
  /\ unheard = {} /\ overtaken = {}

-----------------------------------------------------------------------------
(* The chain and the socket.                                               *)

\* A transaction is confirmed.  Its notification goes out on an open socket, or is lost.
Land ==
  /\ landed < Len(History)
  /\ landed' = landed + 1
  /\ \/ socket = "up" /\ wire' = Append(wire, landed + 1) /\ UNCHANGED unheard
     \/ /\ socket = "closed" \/ "notification" \in Faults
        /\ unheard' = unheard \cup {landed + 1}
        /\ UNCHANGED wire
  /\ UNCHANGED <<socket, life, stored, index, stops, applied, failed, overtaken>>

\* subscribeLogs, on start or after the retry delay: only new transactions will be notified.
SocketOpen ==
  /\ WsServed
  /\ worker = "listening"
  /\ socket = "closed"
  /\ socket' = "up"
  /\ UNCHANGED <<landed, wire, unheard, life, stored, index, stops, applied, failed, overtaken>>

\* The connection ends; what it had not delivered is gone, and so is what `lost` holds of it.
CloseSocket(lost) ==
  /\ socket' = "closed"
  /\ wire' = <<>>
  /\ unheard' = unheard \cup {wire[i] : i \in DOMAIN wire}
                        \cup {lost[i].tx : i \in {j \in DOMAIN lost : lost[j].from = "push"}}

SocketDrop ==
  /\ "notification" \in Faults
  /\ socket = "up"
  /\ CloseSocket(<<>>)
  /\ UNCHANGED <<landed, life, stored, index, stops, applied, failed, overtaken>>

\* onTransaction: push puts the notified transaction at the end of the queue.
Deliver ==
  /\ worker = "listening"
  /\ wire # <<>>
  /\ wire' = Tail(wire)
  /\ queue' = Append(queue, Job(Head(wire), "push"))
  /\ UNCHANGED <<landed, socket, unheard, worker, cursor, recent, saving, pass, draining, done,
                 stored, index, stops, applied, failed, overtaken>>

-----------------------------------------------------------------------------
(* The worker's life: startWorker, stop, and a crash.                      *)

\* startWorker: the durable cursor is loaded and a backfill pass starts from it.
Boot ==
  /\ worker = "down"
  /\ worker' = "starting"
  /\ cursor' = stored
  /\ recent' = IF stored = 0 THEN <<>> ELSE <<stored>>
  /\ pass' = [st |-> "list", since |-> stored, todo |-> <<>>]
  /\ UNCHANGED <<queue, saving, draining, done, net,
                 stored, index, stops, applied, failed, overtaken>>

\* The subscription and the timer start once the first pass has ended, however it ended.
Listen ==
  /\ worker = "starting"
  /\ pass.st = "idle"
  /\ worker' = "listening"
  /\ UNCHANGED <<cursor, recent, queue, saving, pass, draining, done,
                 net, stored, index, stops, applied, failed, overtaken>>

\* stop: timer and socket end; the jobs queued now are waited for.
Stop ==
  /\ worker = "listening"
  /\ stops < MaxStops
  /\ stops' = stops + 1
  /\ worker' = "stopping"
  /\ draining' = Len(queue)
  /\ CloseSocket(<<>>)
  /\ UNCHANGED <<landed, cursor, recent, queue, saving, pass, done,
                 stored, index, applied, failed, overtaken>>

\* The process ends: whatever was only in memory is lost, the queued notifications too.
ProcessEnds ==
  /\ worker' = "down"
  /\ cursor' = 0 /\ recent' = <<>> /\ queue' = <<>> /\ saving' = FALSE
  /\ pass' = Idle /\ draining' = 0 /\ done' = {}
  /\ CloseSocket(queue)
  /\ UNCHANGED <<landed, stored, index, applied, failed, overtaken>>

Exit == worker = "stopping" /\ draining = 0 /\ ProcessEnds /\ UNCHANGED stops

Crash ==
  /\ worker # "down"
  /\ stops < MaxStops
  /\ stops' = stops + 1
  /\ ProcessEnds

-----------------------------------------------------------------------------
(* backfillPass and backfill.                                              *)

\* The timer starts a pass unless one is running (`passing`).
PassStart ==
  /\ worker = "listening"
  /\ pass.st = "idle"
  /\ pass' = [st |-> "list", since |-> cursor, todo |-> <<>>]
  /\ UNCHANGED <<worker, cursor, recent, queue, saving, draining, done,
                 net, stored, index, stops, applied, failed, overtaken>>

\* The pages from the tip back to `since`, oldest first.
ListedAfterNext(since) == [i \in 1..landed - since - 1 |-> since + 1 + i]   \* mutant: one too few
Listed(since) == [i \in 1..landed - since |-> since + i]

\* What is left of a pass after a transaction of it, or after its listing.
PassWith(todo) == IF todo = <<>> THEN Idle ELSE [pass EXCEPT !.st = "fetch", !.todo = todo]

PassList ==
  /\ pass.st = "list"
  /\ pass' = PassWith(Listed(pass.since))
  /\ UNCHANGED <<worker, cursor, recent, queue, saving, draining, done,
                 net, stored, index, stops, applied, failed, overtaken>>

\* rpc.transaction answers: the pass hands the transaction over and awaits its job.
PassFetch ==
  /\ pass.st = "fetch"
  /\ queue' = Append(queue, Job(Head(pass.todo), "pass"))
  /\ pass' = [pass EXCEPT !.st = "wait"]
  /\ UNCHANGED <<worker, cursor, recent, saving, draining, done,
                 net, stored, index, stops, applied, failed, overtaken>>

\* Mutant: a pass that breaks leaves `passing` set.
PassBreakStuck ==
  /\ pass.st \in {"list", "fetch"}
  /\ pass' = [pass EXCEPT !.st = "wait"]
  /\ UNCHANGED <<worker, cursor, recent, queue, saving, draining, done,
                 net, stored, index, stops, applied, failed, overtaken>>

\* An rpc call throws, or a listed transaction is not served yet: the pass ends.
PassBreak ==
  /\ pass.st \in {"list", "fetch"}
  /\ pass' = Idle
  /\ UNCHANGED <<worker, cursor, recent, queue, saving, draining, done,
                 net, stored, index, stops, applied, failed, overtaken>>

-----------------------------------------------------------------------------
(* process, for the first job of the queue.                                *)

\* isBehind, and mutants of it: siblings taken for duplicates, duplicates taken for siblings,
\* and the memory of signatures alone.
BehindBySlot(n) == cursor # 0 /\ Slot(n) <= Slot(cursor)
BehindOlderSlot(n) == cursor # 0 /\ Slot(n) < Slot(cursor)
Behind(n) ==
  /\ cursor # 0
  /\ \/ Slot(n) < Slot(cursor)
     \/ Slot(n) = Slot(cursor) /\ \E i \in DOMAIN recent : recent[i] = n

Remembered(n) ==
  LET longer == Append(recent, n) IN IF Len(longer) > Recent THEN Tail(longer) ELSE longer

\* The first job ends; the pass that awaited it goes on, or ends with it when it threw.
JobEnds(threw) ==
  /\ queue' = Tail(queue)
  /\ pass' = IF Head(queue).from = "push" THEN pass
             ELSE IF threw THEN Idle
             ELSE PassWith(Tail(pass.todo))
  /\ draining' = IF draining > 0 THEN draining - 1 ELSE 0

Skip ==
  /\ queue # <<>> /\ ~saving
  /\ Behind(Head(queue).tx)
  /\ JobEnds(FALSE)
  /\ UNCHANGED <<worker, cursor, recent, saving, done, net,
                 stored, index, stops, applied, failed, overtaken>>

\* A notified transaction takes the cursor past those before it that nobody notified and no
\* pass has brought yet.  A pass brings the log in order and overtakes none.
Overtakes(job) ==
  IF job.from = "push" THEN {k \in unheard : k < job.tx} \ (applied \cup failed) ELSE {}

\* options.handle succeeds: its database transaction commits, then the cursor moves.  No
\* step of the queue lies between the two; a pass that reads the cursor in between reads
\* what it would have read before.
HandleOk ==
  LET n == Head(queue).tx
  IN  /\ queue # <<>> /\ ~saving
      /\ ~Behind(n)
      /\ Accepts(index, History[n])
      /\ index' = Apply(index, History[n])
      /\ cursor' = n
      /\ recent' = Remembered(n)
      /\ saving' = TRUE
      /\ applied' = applied \cup {n}
      /\ done' = done \cup {n}
      /\ overtaken' = overtaken \cup Overtakes(Head(queue))
      /\ UNCHANGED <<worker, queue, pass, draining, net, stored, stops, failed>>

\* options.handle throws: logged, and the job ends as if it had succeeded.
HandleFail ==
  LET n == Head(queue).tx
  IN  /\ queue # <<>> /\ ~saving
      /\ ~Behind(n)
      /\ "handler" \in Faults \/ ~Accepts(index, History[n])
      /\ failed' = failed \cup {n}
      /\ JobEnds(FALSE)
      /\ UNCHANGED <<worker, cursor, recent, saving, done, net,
                     stored, index, stops, applied, overtaken>>

\* store.save: the cursor in memory has moved whether or not the durable one follows.
Save ==
  /\ saving
  /\ saving' = FALSE
  /\ \/ stored' = cursor /\ JobEnds(FALSE)
     \/ "save" \in Faults /\ UNCHANGED stored /\ JobEnds(TRUE)
  /\ UNCHANGED <<worker, cursor, recent, done, net, index, stops, applied, failed, overtaken>>

Process == Skip \/ HandleOk \/ HandleFail \/ Save

Next ==
  \/ Land \/ SocketOpen \/ SocketDrop \/ Deliver
  \/ Boot \/ Listen \/ Stop \/ Exit \/ Crash
  \/ PassStart \/ PassList \/ PassFetch \/ PassBreak
  \/ Process

Spec == Init /\ [][Next]_vars

\* The event loop runs what is runnable, the timer fires, a supervisor starts a process
\* that ended, and an rpc node that is asked again and again answers now and then.
Fairness ==
  /\ WF_vars(Boot) /\ WF_vars(Listen) /\ WF_vars(Exit)
  /\ WF_vars(PassStart) /\ SF_vars(PassList) /\ SF_vars(PassFetch)
  /\ WF_vars(Process)

FairSpec == Spec /\ Fairness

-----------------------------------------------------------------------------

\* cursor.ts:69-71, as far as it holds: a transaction that the cursor has passed is in the
\* index, or its handler failed, or it was never notified and a notified one was handled
\* before a pass had brought it.  Passes, restarts, crashes, failing saves, a broken listing
\* and the pushes lost with a process lose no transaction for another reason.
GapsHaveACause ==
  \A n \in 1..landed :
    n < cursor \/ n < stored => n \in applied \cup failed \cup overtaken

\* Socket and backfill deliver the same transactions; whatever their order, the handler runs
\* to success at most once per transaction in a life of the worker.
AppliedOncePerLife == [][saving' /\ ~saving => cursor' \notin done]_vars

\* ... and every transaction gets into it.
EventuallyIndexed == \A n \in Txs : landed >= n ~> n \in applied

\* The index as a replica of the log: what it copied is what was ever applied.
Replica == INSTANCE LogReplica WITH copied <- Cardinality(applied)
IsReplica == Replica!ReplicaSpec

\* cursor.ts:69-71: "A failed handler leaves the cursor in place so the next backfill pass
\* retries the same transaction; the index stops instead of silently missing a pledge."
StopsAtFailure ==
  \A n \in failed : stored # 0 /\ Slot(n) < Slot(stored) => n \in applied

=============================================================================
