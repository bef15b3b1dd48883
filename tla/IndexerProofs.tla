---------------------------- MODULE IndexerProofs ----------------------------
(***************************************************************************)
(* The worker, for any history, any memory of signatures and any faults:   *)
(* what its cursor passed has a place in the index or a reason not to, no  *)
(* transaction is applied twice in a life of the worker, and as long as    *)
(* nothing is missed the index is a replica of the log.                    *)
(***************************************************************************)
EXTENDS Indexer, FiniteSetTheorems, TLAPS

Landed == 1..landed
Jobs == [tx : Nat, from : {"push", "pass"}]
Passes == [st : {"idle", "list", "fetch", "wait"}, since : Nat, todo : Seq(Nat)]

Types ==
  /\ landed \in 0..Len(History)
  /\ wire \in Seq(Nat) /\ \A i \in 1..Len(wire) : wire[i] \in Landed
  /\ cursor \in 0..landed /\ stored \in 0..landed
  /\ recent \in Seq(Nat)
  /\ queue \in Seq(Jobs) /\ \A i \in 1..Len(queue) : queue[i].tx \in Landed
  /\ saving \in BOOLEAN
  /\ pass \in Passes /\ pass.since <= landed
  /\ \A i \in 1..Len(pass.todo) : pass.todo[i] \in Landed
  /\ draining \in Nat
  /\ applied \subseteq Landed /\ done \subseteq applied
  /\ failed \subseteq Landed /\ unheard \subseteq Landed /\ overtaken \subseteq Landed

\* What the worker need not see again.
Settled == applied \cup failed \cup overtaken

InPushes(m) == \E i \in 1..Len(queue) : queue[i].from = "push" /\ queue[i].tx = m
OnWire(m) == \E i \in 1..Len(wire) : wire[i] = m

\* A notification arrives in the order of the log, or there was none.
PushesInOrder ==
  /\ \A i, j \in 1..Len(wire) : i < j => wire[i] < wire[j]
  /\ \A i, j \in 1..Len(queue) :
       i < j /\ queue[i].from = "push" /\ queue[j].from = "push" => queue[i].tx < queue[j].tx
  /\ \A i \in 1..Len(queue), j \in 1..Len(wire) : queue[i].from = "push" => queue[i].tx < wire[j]
NothingUnaccounted ==
  IF WsServed THEN \A m \in Landed : m \in Settled \cup unheard \/ OnWire(m) \/ InPushes(m)
  ELSE socket = "closed" /\ wire = <<>> /\ \A i \in 1..Len(queue) : queue[i].from = "pass"

\* A backfill pass has all of the log before its first transaction behind it, and at most one
\* job, for that transaction.
PassIsContiguous ==
  /\ pass.st = "list" => \A m \in Landed : m <= pass.since => m \in Settled
  /\ pass.st \in {"fetch", "wait"} =>
       /\ Len(pass.todo) > 0
       /\ \A i \in 1..Len(pass.todo) : pass.todo[i] = (pass.todo[1] + i) - 1
       /\ \A m \in Landed : m < pass.todo[1] => m \in Settled
PassHasOneJob ==
  /\ \A i \in 1..Len(queue) :
       queue[i].from = "pass" => pass.st = "wait" /\ queue[i].tx = pass.todo[1]
  /\ \A i, j \in 1..Len(queue) : queue[i].from = "pass" /\ queue[j].from = "pass" => i = j

\* Both cursors stand at a transaction that was applied, behind them nothing is unsettled.
PassedIsSettled ==
  /\ cursor # 0 => cursor \in applied
  /\ stored # 0 => stored \in applied
  /\ \A m \in Landed : m <= cursor \/ m <= stored => m \in Settled
RecentIsApplied == \A i \in 1..Len(recent) : recent[i] \in applied
SavingIsOfTheFirst == saving => Len(queue) > 0 /\ queue[1].tx = cursor /\ cursor # 0
DownIsIdle == worker = "down" => queue = <<>> /\ ~saving /\ pass.st = "idle" /\ done = {}

IInv ==
  /\ Types /\ PushesInOrder /\ NothingUnaccounted
  /\ PassIsContiguous /\ PassHasOneJob
  /\ PassedIsSettled /\ RecentIsApplied /\ SavingIsOfTheFirst
  /\ DownIsIdle

\* The memory of signatures holds every transaction applied in this life from the cursor's
\* slot, in the order of their slots and each once.
RecentIsSorted ==
  /\ \A i, j \in 1..Len(recent) : i < j => Slot(recent[i]) <= Slot(recent[j])
  /\ \A i, j \in 1..Len(recent) : recent[i] = recent[j] => i = j
RecentEndsAtTheCursor ==
  /\ Len(recent) <= Recent
  /\ cursor = 0 => recent = <<>> /\ done = {}
  /\ cursor # 0 => Len(recent) > 0 /\ recent[Len(recent)] = cursor
DoneIsRemembered ==
  \A m \in done :
    /\ Slot(m) <= Slot(cursor)
    /\ Slot(m) = Slot(cursor) => \E i \in 1..Len(recent) : recent[i] = m
MemoryInv == RecentIsSorted /\ RecentEndsAtTheCursor /\ DoneIsRemembered

\* Nothing was overtaken, and no handler failed.
NothingMissed == failed = {} /\ overtaken = {}
AppliedIsAPrefix == \E k \in 0..landed : applied = 1..k
ReplicaInv == NothingMissed => AppliedIsAPrefix

-----------------------------------------------------------------------------
(* Sequences, and what no step undoes.                                     *)

LEMMA TailOfASequence ==
  ASSUME NEW S, NEW s \in Seq(S), s # <<>>
  PROVE  /\ Len(s) > 0 /\ Head(s) = s[1]
         /\ Tail(s) \in Seq(S) /\ Len(Tail(s)) = Len(s) - 1
         /\ \A i \in 1..Len(s) - 1 : Tail(s)[i] = s[i + 1]
  OBVIOUS

LEMMA AppendToASequence ==
  ASSUME NEW S, NEW s \in Seq(S), NEW x \in S
  PROVE  /\ Append(s, x) \in Seq(S) /\ Len(Append(s, x)) = Len(s) + 1
         /\ \A i \in 1..Len(s) : Append(s, x)[i] = s[i]
         /\ Append(s, x)[Len(s) + 1] = x
  OBVIOUS

LEMMA SettledStays ==
  ASSUME applied \subseteq applied', failed \subseteq failed', overtaken \subseteq overtaken'
  PROVE  Settled \subseteq Settled'
BY DEF Settled

LEMMA InitIInv == Init => IInv
<1> SUFFICES ASSUME Init PROVE IInv
  OBVIOUS
<1>1. Types
  <2>1. /\ landed = 0 /\ wire = <<>> /\ cursor = 0 /\ stored = 0 /\ recent = <<>> /\ queue = <<>>
        /\ saving = FALSE /\ pass = Idle /\ draining = 0
        /\ applied = {} /\ done = {} /\ failed = {} /\ unheard = {} /\ overtaken = {}
        /\ Len(History) \in Nat
    BY IndexerAssumption DEF Init
  <2>2. Idle \in Passes /\ Idle.since = 0 /\ Idle.todo = <<>>
    BY DEF Idle, Passes
  <2>3. Len(<<>>) = 0 /\ <<>> \in Seq(Nat) /\ <<>> \in Seq(Jobs)
    OBVIOUS
  <2>4. /\ pass \in Passes /\ pass.since <= landed
        /\ \A i \in 1..Len(pass.todo) : pass.todo[i] \in Landed
    BY <2>1, <2>2, <2>3
  <2>5. /\ landed \in 0..Len(History)
        /\ cursor \in 0..landed /\ stored \in 0..landed
    BY <2>1
  <2>6. /\ wire \in Seq(Nat) /\ \A i \in 1..Len(wire) : wire[i] \in Landed
        /\ recent \in Seq(Nat)
        /\ queue \in Seq(Jobs) /\ \A i \in 1..Len(queue) : queue[i].tx \in Landed
    BY <2>1, <2>3
  <2> QED
    BY <2>1, <2>4, <2>5, <2>6 DEF Types
<1>2. PushesInOrder /\ NothingUnaccounted
  BY DEF Init, PushesInOrder, NothingUnaccounted, Landed
<1>3. PassIsContiguous /\ PassHasOneJob /\ PassedIsSettled
  BY DEF Init, Idle, PassIsContiguous, PassHasOneJob, PassedIsSettled, Landed
<1>4. RecentIsApplied /\ SavingIsOfTheFirst /\ DownIsIdle
  BY DEF Init, RecentIsApplied, SavingIsOfTheFirst, DownIsIdle, Idle
<1> QED
  BY <1>1, <1>2, <1>3, <1>4 DEF IInv

-----------------------------------------------------------------------------
(* The chain and the socket.                                               *)

LEMMA LandKeeps == IInv /\ Land => IInv'
<1> SUFFICES ASSUME IInv, Land PROVE IInv'
  OBVIOUS
<1>1. /\ landed' = landed + 1 /\ landed < Len(History) /\ landed \in Nat
      /\ Len(History) \in Nat /\ Landed \subseteq Landed' /\ landed + 1 \in Landed'
      /\ \A m \in Landed' : m \in Landed \/ m = landed + 1
  BY IndexerAssumption DEF Land, IInv, Types, Landed
<1>2. /\ cursor' = cursor /\ stored' = stored /\ recent' = recent /\ queue' = queue
      /\ saving' = saving /\ pass' = pass /\ draining' = draining
      /\ applied' = applied /\ done' = done /\ failed' = failed /\ overtaken' = overtaken
      /\ socket' = socket
  BY DEF Land, life
<1>3. \/ /\ socket = "up" /\ wire' = Append(wire, landed + 1) /\ unheard' = unheard
      \/ /\ socket = "closed" \/ "notification" \in Faults
         /\ wire' = wire /\ unheard' = unheard \cup {landed + 1}
  BY DEF Land
<1>4. /\ wire' \in Seq(Nat)
      /\ \A i \in 1..Len(wire') : \/ i \in 1..Len(wire) /\ wire'[i] = wire[i]
                                  \/ i = Len(wire) + 1 /\ wire'[i] = landed + 1
      /\ \A i \in 1..Len(wire) : i \in 1..Len(wire') /\ wire'[i] = wire[i]
  <2>1. wire \in Seq(Nat) /\ landed + 1 \in Nat
    BY <1>1 DEF IInv, Types
  <2>2. CASE wire' = wire
    BY <2>1, <2>2
  <2>3. CASE wire' = Append(wire, landed + 1)
    BY <2>1, <2>3, AppendToASequence
  <2> QED
    BY <1>3, <2>2, <2>3
<1>5. Types'
  <2>1. \A i \in 1..Len(wire') : wire'[i] \in Landed'
    BY <1>1, <1>4 DEF IInv, Types
  <2>2. unheard' \subseteq Landed' /\ landed' \in 0..Len(History)
    BY <1>1, <1>3 DEF IInv, Types
  <2>3. /\ \A i \in 1..Len(queue) : queue[i].tx \in Landed'
        /\ \A i \in 1..Len(pass.todo) : pass.todo[i] \in Landed'
        /\ applied \subseteq Landed' /\ failed \subseteq Landed' /\ overtaken \subseteq Landed'
    BY <1>1 DEF IInv, Types
  <2>4. cursor \in 0..landed' /\ stored \in 0..landed'
    BY <1>1 DEF IInv, Types
  <2>5. pass.since <= landed'
    <3>1. pass.since \in Nat /\ pass.since <= landed
      BY DEF IInv, Types, Passes
    <3> QED
      BY <1>1, <3>1
  <2> QED
    BY <1>2, <1>4, <2>1, <2>2, <2>3, <2>4, <2>5 DEF IInv, Types
<1>6. Settled \subseteq Settled' /\ unheard \subseteq unheard'
  BY <1>2, <1>3, SettledStays
<1>7. PushesInOrder'
  <2>1. /\ \A i \in 1..Len(wire) : wire[i] \in Nat /\ wire[i] < landed + 1
        /\ \A i \in 1..Len(queue) : queue[i].tx \in Nat /\ queue[i].tx < landed + 1
        /\ Len(wire) \in Nat /\ Len(queue) \in Nat
    <3>1. \A m \in Landed : m \in Nat /\ m < landed + 1
      BY <1>1 DEF Landed
    <3> QED
      BY <3>1 DEF IInv, Types
  <2>2. ASSUME NEW i \in 1..Len(wire'), NEW j \in 1..Len(wire'), i < j
        PROVE  wire'[i] < wire'[j]
    <3>1. CASE i \in 1..Len(wire) /\ j \in 1..Len(wire)
      BY <1>4, <2>2, <3>1 DEF IInv, PushesInOrder
    <3>2. CASE i \in 1..Len(wire) /\ j = Len(wire) + 1
      BY <1>4, <2>1, <3>2
    <3>3. ~(i = Len(wire) + 1 /\ j \in 1..Len(wire)) /\ ~(i = Len(wire) + 1 /\ j = Len(wire) + 1)
      BY <2>1, <2>2
    <3> QED
      BY <1>4, <3>1, <3>2, <3>3
  <2>3. \A i \in 1..Len(queue), j \in 1..Len(wire') :
          queue[i].from = "push" => queue[i].tx < wire'[j]
    BY <1>4, <2>1 DEF IInv, PushesInOrder
  <2> QED
    BY <1>2, <2>2, <2>3 DEF IInv, PushesInOrder
<1>8. NothingUnaccounted'
  <2>1. CASE WsServed
    <3>1. \A m \in Landed : m \in Settled' \cup unheard' \/ OnWire(m)' \/ InPushes(m)'
      BY <1>2, <1>4, <1>6, <2>1 DEF IInv, NothingUnaccounted, OnWire, InPushes
    <3>2. ASSUME NEW m \in Landed', m = landed + 1 PROVE m \in unheard' \/ OnWire(m)'
      <4>1. CASE wire' = Append(wire, landed + 1)
        <5>1. Len(wire) + 1 \in 1..Len(wire') /\ wire'[Len(wire) + 1] = m
          BY <1>1, <3>2, <4>1, AppendToASequence DEF IInv, Types
        <5> QED
          BY <5>1 DEF OnWire
      <4>2. CASE unheard' = unheard \cup {landed + 1}
        BY <3>2, <4>2
      <4> QED
        BY <1>3, <4>1, <4>2
    <3>3. \A m \in Landed' : m \in Settled' \cup unheard' \/ OnWire(m)' \/ InPushes(m)'
      BY <1>1, <3>1, <3>2
    <3> QED
      BY <2>1, <3>3 DEF NothingUnaccounted
  <2>2. CASE ~WsServed
    BY <1>2, <1>3, <2>2 DEF IInv, NothingUnaccounted
  <2> QED
    BY <2>1, <2>2
<1>9. PassIsContiguous' /\ PassHasOneJob'
  <2>1. PassHasOneJob'
    BY <1>2 DEF IInv, PassHasOneJob
  <2>2. PassIsContiguous'
    <3>1. \A m \in Landed' : m = landed + 1 => ~(m <= pass.since)
      BY <1>1 DEF IInv, Types, Passes
    <3>2. ASSUME pass.st \in {"fetch", "wait"} PROVE pass.todo[1] \in Landed
      <4>1. Len(pass.todo) > 0 /\ Len(pass.todo) \in Nat
        BY <3>2 DEF IInv, Types, Passes, PassIsContiguous
      <4> QED
        BY <4>1 DEF IInv, Types
    <3>3. ASSUME pass.st \in {"fetch", "wait"}, NEW m \in Landed', m < pass.todo[1]
          PROVE  m \in Settled'
      <4>1. m \in Landed
        BY <1>1, <3>2, <3>3 DEF Landed
      <4> QED
        BY <1>6, <3>3, <4>1 DEF IInv, PassIsContiguous
    <3>4. ASSUME pass.st = "list", NEW m \in Landed', m <= pass.since PROVE m \in Settled'
      BY <1>1, <1>6, <3>1, <3>4 DEF IInv, PassIsContiguous
    <3> QED
      BY <1>2, <3>3, <3>4 DEF IInv, PassIsContiguous
  <2> QED
    BY <2>1, <2>2
<1>10. PassedIsSettled'
  BY <1>1, <1>2, <1>6 DEF IInv, Types, PassedIsSettled, Landed
<1>11. RecentIsApplied' /\ SavingIsOfTheFirst' /\ DownIsIdle'
  BY <1>2 DEF Land, life, IInv, RecentIsApplied, SavingIsOfTheFirst, DownIsIdle
<1> QED
  BY <1>5, <1>7, <1>8, <1>9, <1>10, <1>11 DEF IInv

LEMMA SocketOpenKeeps == IInv /\ SocketOpen => IInv'
<1> SUFFICES ASSUME IInv, SocketOpen PROVE IInv'
  OBVIOUS
<1>1. /\ WsServed
      /\ UNCHANGED <<landed, wire, unheard, cursor, recent, queue, saving, pass, draining, done,
                     stored, applied, failed, overtaken>>
  BY DEF SocketOpen, life
<1>2. Types' /\ PushesInOrder' /\ PassHasOneJob'
  BY <1>1 DEF IInv, Types, Landed, PushesInOrder, PassHasOneJob
<1>3. Settled' = Settled /\ Landed' = Landed
  BY <1>1 DEF Settled, Landed
<1>4. NothingUnaccounted'
  BY <1>1, <1>3 DEF IInv, NothingUnaccounted, OnWire, InPushes
<1>5. PassIsContiguous' /\ PassedIsSettled'
  BY <1>1, <1>3 DEF IInv, PassIsContiguous, PassedIsSettled
<1>6. RecentIsApplied' /\ SavingIsOfTheFirst' /\ DownIsIdle'
  BY <1>1 DEF SocketOpen, life, IInv, RecentIsApplied, SavingIsOfTheFirst, DownIsIdle
<1> QED
  BY <1>2, <1>4, <1>5, <1>6 DEF IInv

\* The socket ends: what was on the wire is unheard now, and so are the pushes given up.
LEMMA Closing ==
  ASSUME IInv, NEW lost, lost \in {<<>>, queue}, CloseSocket(lost), landed' = landed
  PROVE  /\ socket' = "closed" /\ wire' = <<>>
         /\ unheard \subseteq unheard' /\ unheard' \subseteq Landed
         /\ \A m \in Landed : OnWire(m) => m \in unheard'
         /\ lost = queue => \A m \in Landed : InPushes(m) => m \in unheard'
<1>1. /\ wire \in Seq(Nat) /\ queue \in Seq(Jobs)
      /\ DOMAIN wire = 1..Len(wire) /\ DOMAIN queue = 1..Len(queue) /\ DOMAIN <<>> = {}
  BY DEF IInv, Types
<1>2. /\ \A i \in 1..Len(wire) : wire[i] \in Landed
      /\ \A i \in DOMAIN lost : lost[i].tx \in Landed
  BY <1>1 DEF IInv, Types
<1>3. /\ socket' = "closed" /\ wire' = <<>>
      /\ unheard' = unheard \cup {wire[i] : i \in DOMAIN wire}
                            \cup {lost[i].tx : i \in {j \in DOMAIN lost : lost[j].from = "push"}}
  BY DEF CloseSocket
<1>4. unheard' \subseteq Landed
  BY <1>1, <1>2, <1>3 DEF IInv, Types
<1>5. \A m \in Landed : OnWire(m) => m \in unheard'
  BY <1>1, <1>3 DEF OnWire
<1>6. lost = queue => \A m \in Landed : InPushes(m) => m \in unheard'
  BY <1>1, <1>3 DEF InPushes
<1> QED
  BY <1>3, <1>4, <1>5, <1>6

\* The socket ends and the queue stays: SocketDrop and Stop.
LEMMA ClosingKeeps ==
  ASSUME IInv, CloseSocket(<<>>), draining' \in Nat,
         UNCHANGED <<landed, cursor, recent, queue, saving, pass, done, stored, applied,
                   failed, overtaken>>,
         worker' = "down" => worker = "down"
  PROVE  IInv'
<1>1. /\ socket' = "closed" /\ wire' = <<>>
      /\ unheard \subseteq unheard' /\ unheard' \subseteq Landed
      /\ \A m \in Landed : OnWire(m) => m \in unheard'
  BY Closing
<1>2. Landed' = Landed
  BY DEF Landed
<1>3. Settled \subseteq Settled'
  BY <1>1, SettledStays
<1>4. wire' \in Seq(Nat) /\ Len(wire') = 0
  BY <1>1
<1>5. Types'
  BY <1>1, <1>2, <1>4 DEF IInv, Types
<1>6. PushesInOrder' /\ PassHasOneJob'
  BY <1>4 DEF IInv, PushesInOrder, PassHasOneJob
<1>7. NothingUnaccounted'
  <2>1. CASE WsServed
    <3>1. ASSUME NEW m \in Landed PROVE m \in Settled' \cup unheard' \/ InPushes(m)'
      <4>1. CASE OnWire(m)
        BY <1>1, <4>1
      <4>2. CASE ~OnWire(m)
        BY <1>1, <1>3, <2>1, <4>2 DEF IInv, NothingUnaccounted, InPushes
      <4> QED
        BY <4>1, <4>2
    <3> QED
      BY <1>2, <2>1, <3>1 DEF NothingUnaccounted
  <2>2. CASE ~WsServed
    BY <1>1, <2>2 DEF IInv, NothingUnaccounted
  <2> QED
    BY <2>1, <2>2
<1>8. PassIsContiguous' /\ PassedIsSettled'
  BY <1>2, <1>3 DEF IInv, PassIsContiguous, PassedIsSettled
<1>9. RecentIsApplied' /\ SavingIsOfTheFirst' /\ DownIsIdle'
  BY DEF IInv, RecentIsApplied, SavingIsOfTheFirst, DownIsIdle
<1> QED
  BY <1>5, <1>6, <1>7, <1>8, <1>9 DEF IInv

LEMMA SocketDropKeeps == IInv /\ SocketDrop => IInv'
<1> SUFFICES ASSUME IInv, SocketDrop PROVE IInv'
  OBVIOUS
<1>1. draining' \in Nat
  BY DEF IInv, Types, SocketDrop, life
<1> QED
  BY <1>1, ClosingKeeps DEF SocketDrop, life

LEMMA StopKeeps == IInv /\ Stop => IInv'
<1> SUFFICES ASSUME IInv, Stop PROVE IInv'
  OBVIOUS
<1>1. draining' \in Nat
  BY DEF IInv, Types, Stop
<1> QED
  BY <1>1, ClosingKeeps DEF Stop

\* A notification moves from the wire to the end of the queue.
LEMMA DeliverKeeps == IInv /\ Deliver => IInv'
<1> SUFFICES ASSUME IInv, Deliver PROVE IInv'
  OBVIOUS
<1> DEFINE job == Job(wire[1], "push")
<1>1. UNCHANGED <<landed, socket, unheard, cursor, recent, saving, pass, draining, done,
                  stored, applied, failed, overtaken>>
  BY DEF Deliver
<1>2. /\ wire \in Seq(Nat) /\ queue \in Seq(Jobs) /\ wire # <<>>
      /\ wire' = Tail(wire) /\ queue' = Append(queue, Job(Head(wire), "push"))
  BY DEF Deliver, IInv, Types
<1>3. /\ Len(wire) > 0 /\ Len(wire) \in Nat /\ Head(wire) = wire[1]
      /\ wire' \in Seq(Nat) /\ Len(wire') = Len(wire) - 1
      /\ \A i \in 1..Len(wire) - 1 : wire'[i] = wire[i + 1]
  BY <1>2, TailOfASequence
<1>4. wire[1] \in Landed /\ wire[1] \in Nat
  BY <1>3 DEF IInv, Types, Landed
<1>5. job \in Jobs /\ job.tx = wire[1] /\ job.from = "push"
  BY <1>4 DEF Job, Jobs
<1> HIDE DEF job
<1>6. queue' = Append(queue, job)
  BY <1>2, <1>3 DEF job
<1>7. /\ queue' \in Seq(Jobs) /\ Len(queue) \in Nat /\ Len(queue') = Len(queue) + 1
      /\ \A i \in 1..Len(queue) : queue'[i] = queue[i]
      /\ queue'[Len(queue) + 1] = job
  BY <1>2, <1>5, <1>6, AppendToASequence
<1>8. Landed' = Landed /\ Settled' = Settled
  BY <1>1 DEF Landed, Settled
<1>9. Types'
  <2>1. ASSUME NEW i \in 1..Len(wire') PROVE wire'[i] \in Landed
    <3>1. i + 1 \in 1..Len(wire) /\ wire'[i] = wire[i + 1]
      BY <1>3
    <3> QED
      BY <3>1 DEF IInv, Types
  <2>2. ASSUME NEW i \in 1..Len(queue') PROVE queue'[i].tx \in Landed
    <3>1. CASE i \in 1..Len(queue)
      BY <1>7, <3>1 DEF IInv, Types
    <3>2. CASE i = Len(queue) + 1
      BY <1>4, <1>5, <1>7, <3>2
    <3> QED
      BY <1>7, <3>1, <3>2
  <2> QED
    BY <1>1, <1>3, <1>7, <1>8, <2>1, <2>2 DEF IInv, Types
<1>10. PushesInOrder'
  <2>1. ASSUME NEW i \in 1..Len(wire'), NEW j \in 1..Len(wire'), i < j PROVE wire'[i] < wire'[j]
    <3>1. /\ i + 1 \in 1..Len(wire) /\ wire'[i] = wire[i + 1]
          /\ j + 1 \in 1..Len(wire) /\ wire'[j] = wire[j + 1] /\ i + 1 < j + 1
      BY <1>3, <2>1
    <3> QED
      BY <3>1 DEF IInv, PushesInOrder
  <2>2. ASSUME NEW i \in 1..Len(queue'), NEW j \in 1..Len(queue'), i < j,
               queue'[i].from = "push", queue'[j].from = "push"
        PROVE  queue'[i].tx < queue'[j].tx
    <3>1. i \in 1..Len(queue) /\ queue'[i] = queue[i]
      BY <1>7, <2>2
    <3>2. CASE j \in 1..Len(queue)
      BY <1>7, <2>2, <3>1, <3>2 DEF IInv, PushesInOrder
    <3>3. CASE j = Len(queue) + 1
      <4>1. queue[i].tx < wire[1]
        BY <1>3, <2>2, <3>1 DEF IInv, PushesInOrder
      <4> QED
        BY <1>5, <1>7, <3>1, <3>3, <4>1
    <3> QED
      BY <1>7, <3>2, <3>3
  <2>3. ASSUME NEW i \in 1..Len(queue'), NEW j \in 1..Len(wire'), queue'[i].from = "push"
        PROVE  queue'[i].tx < wire'[j]
    <3>1. j + 1 \in 1..Len(wire) /\ wire'[j] = wire[j + 1] /\ 1 < j + 1 /\ 1 \in 1..Len(wire)
      BY <1>3
    <3>2. CASE i \in 1..Len(queue)
      BY <1>7, <2>3, <3>1, <3>2 DEF IInv, PushesInOrder
    <3>3. CASE i = Len(queue) + 1
      <4>1. wire[1] < wire[j + 1]
        BY <3>1 DEF IInv, PushesInOrder
      <4> QED
        BY <1>5, <1>7, <3>1, <3>3, <4>1
    <3> QED
      BY <1>7, <3>2, <3>3
  <2> QED
    BY <2>1, <2>2, <2>3 DEF PushesInOrder
<1>11. NothingUnaccounted'
  <2>1. CASE WsServed
    <3>1. ASSUME NEW m \in Landed
          PROVE  m \in Settled' \cup unheard' \/ OnWire(m)' \/ InPushes(m)'
      <4>1. CASE m \in Settled \cup unheard
        BY <1>1, <1>8, <4>1
      <4>2. CASE OnWire(m)
        <5>1. PICK i \in 1..Len(wire) : wire[i] = m
          BY <4>2 DEF OnWire
        <5>2. CASE i = 1
          <6>1. Len(queue) + 1 \in 1..Len(queue') /\ queue'[Len(queue) + 1] = job
            BY <1>7
          <6> QED
            BY <1>5, <5>1, <5>2, <6>1 DEF InPushes
        <5>3. CASE i # 1
          <6>1. i - 1 \in 1..Len(wire') /\ wire'[i - 1] = wire[i]
            BY <1>3, <5>3
          <6> QED
            BY <5>1, <6>1 DEF OnWire
        <5> QED
          BY <5>2, <5>3
      <4>3. CASE InPushes(m)
        <5>1. PICK i \in 1..Len(queue) : queue[i].from = "push" /\ queue[i].tx = m
          BY <4>3 DEF InPushes
        <5>2. i \in 1..Len(queue') /\ queue'[i] = queue[i]
          BY <1>7
        <5> QED
          BY <5>1, <5>2 DEF InPushes
      <4> QED
        BY <2>1, <4>1, <4>2, <4>3 DEF IInv, NothingUnaccounted
    <3> QED
      BY <1>8, <2>1, <3>1 DEF NothingUnaccounted
  <2>2. CASE ~WsServed
    BY <1>2, <2>2 DEF IInv, NothingUnaccounted
  <2> QED
    BY <2>1, <2>2
<1>12. PassHasOneJob'
  <2>1. \A i \in 1..Len(queue') :
          queue'[i].from = "pass" => i \in 1..Len(queue) /\ queue'[i] = queue[i]
    BY <1>5, <1>7
  <2> QED
    BY <1>1, <2>1 DEF IInv, PassHasOneJob
<1>13. PassIsContiguous' /\ PassedIsSettled' /\ RecentIsApplied'
  BY <1>1, <1>8 DEF IInv, PassIsContiguous, PassedIsSettled, RecentIsApplied
<1>14. SavingIsOfTheFirst' /\ DownIsIdle'
  <2>1. worker = "listening" /\ worker' = worker
    BY DEF Deliver
  <2> QED
    BY <1>1, <1>7, <2>1 DEF IInv, SavingIsOfTheFirst, DownIsIdle
<1> QED
  BY <1>9, <1>10, <1>11, <1>12, <1>13, <1>14 DEF IInv

-----------------------------------------------------------------------------
(* The worker's life.                                                      *)

\* A step that touches neither the log nor the queue.
LEMMA QueueAloneKeeps ==
  ASSUME IInv, UNCHANGED <<landed, socket, wire, unheard, queue, saving, draining, done,
                           stored, applied, failed, overtaken>>,
         pass' \in Passes, pass'.since <= landed,
         \A i \in 1..Len(pass'.todo) : pass'.todo[i] \in Landed,
         PassIsContiguous', PassHasOneJob',
         cursor' \in {cursor, stored}, recent' \in Seq(Nat), RecentIsApplied',
         saving => cursor' = cursor, worker' # "down"
  PROVE  IInv'
<1>1. Landed' = Landed /\ Settled' = Settled
  BY DEF Landed, Settled
<1>2. cursor' \in 0..landed
  BY DEF IInv, Types
<1>3. Types'
  BY <1>1, <1>2 DEF IInv, Types
<1>4. PushesInOrder'
  BY DEF IInv, PushesInOrder
<1>5. NothingUnaccounted'
  BY <1>1 DEF IInv, NothingUnaccounted, OnWire, InPushes
<1>6. PassedIsSettled'
  BY <1>1 DEF IInv, PassedIsSettled
<1>7. SavingIsOfTheFirst' /\ DownIsIdle'
  BY DEF IInv, SavingIsOfTheFirst, DownIsIdle
<1> QED
  BY <1>3, <1>4, <1>5, <1>6, <1>7 DEF IInv

\* Only a pass that waits has a job.
LEMMA NoJobOfThePass ==
  ASSUME IInv, pass.st # "wait", UNCHANGED queue
  PROVE  PassHasOneJob'
BY DEF IInv, PassHasOneJob

LEMMA BootKeeps == IInv /\ Boot => IInv'
<1> SUFFICES ASSUME IInv, Boot PROVE IInv'
  OBVIOUS
<1>1. /\ worker = "down" /\ worker' = "starting" /\ cursor' = stored
      /\ recent' = IF stored = 0 THEN <<>> ELSE <<stored>>
      /\ pass' = [st |-> "list", since |-> stored, todo |-> <<>>]
      /\ UNCHANGED <<landed, socket, wire, unheard, queue, saving, draining, done,
                     stored, applied, failed, overtaken>>
  BY DEF Boot, net
<1>2. pass.st # "wait" /\ ~saving
  BY <1>1 DEF IInv, DownIsIdle
<1>3. stored \in 0..landed /\ stored \in Nat /\ landed \in Nat
  BY DEF IInv, Types
<1>4. pass'.st = "list" /\ pass'.since = stored /\ pass'.todo = <<>> /\ pass' \in Passes
  BY <1>1, <1>3 DEF Passes
<1>5. Landed' = Landed /\ Settled' = Settled
  BY <1>1 DEF Landed, Settled
<1>6. PassIsContiguous' /\ PassHasOneJob'
  <2>1. \A m \in Landed : m <= stored => m \in Settled
    BY DEF IInv, PassedIsSettled
  <2> QED
    BY <1>1, <1>2, <1>4, <1>5, <2>1, NoJobOfThePass DEF PassIsContiguous
<1>7. recent' \in Seq(Nat) /\ RecentIsApplied'
  <2>1. CASE stored = 0
    <3>1. recent' = <<>> /\ Len(recent') = 0 /\ recent' \in Seq(Nat)
      BY <1>1, <2>1
    <3> QED
      BY <3>1 DEF RecentIsApplied
  <2>2. CASE stored # 0
    <3>1. recent' = <<stored>> /\ Len(recent') = 1 /\ recent'[1] = stored /\ recent' \in Seq(Nat)
      BY <1>1, <1>3, <2>2
    <3>2. stored \in applied
      BY <2>2 DEF IInv, PassedIsSettled
    <3> QED
      BY <1>1, <3>1, <3>2 DEF RecentIsApplied
  <2> QED
    BY <2>1, <2>2
<1>8. pass'.since <= landed /\ \A i \in 1..Len(pass'.todo) : pass'.todo[i] \in Landed
  BY <1>3, <1>4
<1> QED
  BY <1>1, <1>2, <1>4, <1>6, <1>7, <1>8, QueueAloneKeeps

LEMMA ListenKeeps == IInv /\ Listen => IInv'
<1> SUFFICES ASSUME IInv, Listen PROVE IInv'
  OBVIOUS
<1>1. /\ worker' = "listening"
      /\ UNCHANGED <<landed, socket, wire, unheard, cursor, recent, queue, saving, pass, draining,
                     done, stored, applied, failed, overtaken>>
  BY DEF Listen, net
<1>2. PassIsContiguous' /\ PassHasOneJob' /\ RecentIsApplied'
  BY <1>1 DEF IInv, PassIsContiguous, PassHasOneJob, RecentIsApplied, Landed, Settled
<1> QED
  BY <1>1, <1>2, QueueAloneKeeps DEF IInv, Types

\* What was in memory is lost; pushes that were queued count as unheard.
LEMMA ProcessEndsKeeps == IInv /\ ProcessEnds => IInv'
<1> SUFFICES ASSUME IInv, ProcessEnds PROVE IInv'
  OBVIOUS
<1>1. /\ worker' = "down" /\ cursor' = 0 /\ recent' = <<>> /\ queue' = <<>> /\ saving' = FALSE
      /\ pass' = Idle /\ draining' = 0 /\ done' = {} /\ CloseSocket(queue)
      /\ UNCHANGED <<landed, stored, applied, failed, overtaken>>
  BY DEF ProcessEnds
<1>2. /\ socket' = "closed" /\ wire' = <<>>
      /\ unheard \subseteq unheard' /\ unheard' \subseteq Landed
      /\ \A m \in Landed : OnWire(m) => m \in unheard'
      /\ \A m \in Landed : InPushes(m) => m \in unheard'
  BY <1>1, Closing
<1>3. Landed' = Landed
  BY <1>1 DEF Landed
<1>4. Settled \subseteq Settled'
  BY <1>1, <1>2, SettledStays
<1>5. /\ wire' \in Seq(Nat) /\ Len(wire') = 0 /\ recent' \in Seq(Nat) /\ Len(recent') = 0
      /\ queue' \in Seq(Jobs) /\ Len(queue') = 0
  BY <1>1, <1>2
<1>6. pass' \in Passes /\ pass'.st = "idle" /\ pass'.since = 0 /\ Len(pass'.todo) = 0
  BY <1>1 DEF Idle, Passes
<1>7. Types'
  <2>1. /\ landed' \in 0..Len(History) /\ cursor' \in 0..landed' /\ stored' \in 0..landed'
        /\ pass'.since <= landed' /\ saving' \in BOOLEAN /\ draining' \in Nat
    <3>1. landed' = landed /\ stored' = stored /\ landed \in 0..Len(History) /\ stored \in 0..landed
      BY <1>1 DEF IInv, Types
    <3>2. 0 \in 0..landed /\ 0 <= landed
      BY <3>1, IndexerAssumption
    <3> QED
      BY <1>1, <1>6, <3>1, <3>2
  <2>2. /\ \A i \in 1..Len(wire') : wire'[i] \in Landed'
        /\ \A i \in 1..Len(queue') : queue'[i].tx \in Landed'
        /\ \A i \in 1..Len(pass'.todo) : pass'.todo[i] \in Landed'
    BY <1>5, <1>6
  <2>3. /\ applied' \subseteq Landed' /\ done' \subseteq applied' /\ failed' \subseteq Landed'
        /\ unheard' \subseteq Landed' /\ overtaken' \subseteq Landed'
    BY <1>1, <1>2, <1>3 DEF IInv, Types
  <2> QED
    BY <1>5, <1>6, <2>1, <2>2, <2>3 DEF Types
<1>8. PushesInOrder' /\ PassHasOneJob' /\ PassIsContiguous'
  BY <1>5, <1>6 DEF PushesInOrder, PassHasOneJob, PassIsContiguous
<1>9. NothingUnaccounted'
  <2>1. CASE WsServed
    <3>1. \A m \in Landed : m \in Settled' \cup unheard'
      BY <1>2, <1>4, <2>1 DEF IInv, NothingUnaccounted
    <3> QED
      BY <1>3, <2>1, <3>1 DEF NothingUnaccounted
  <2>2. CASE ~WsServed
    BY <1>2, <1>5, <2>2 DEF NothingUnaccounted
  <2> QED
    BY <2>1, <2>2
<1>10. PassedIsSettled'
  <2>1. \A m \in Landed : ~(m <= 0)
    BY DEF Landed
  <2> QED
    BY <1>1, <1>3, <1>4, <2>1 DEF IInv, PassedIsSettled
<1>11. RecentIsApplied' /\ SavingIsOfTheFirst' /\ DownIsIdle'
  BY <1>1, <1>5, <1>6 DEF RecentIsApplied, SavingIsOfTheFirst, DownIsIdle
<1> QED
  BY <1>7, <1>8, <1>9, <1>10, <1>11 DEF IInv

-----------------------------------------------------------------------------
(* The backfill.                                                           *)

LEMMA PassWithType ==
  ASSUME IInv, NEW todo \in Seq(Nat)
  PROVE  /\ PassWith(todo) \in Passes /\ PassWith(todo).since <= landed
         /\ PassWith(todo).st = IF todo = <<>> THEN "idle" ELSE "fetch"
         /\ PassWith(todo).todo = todo
<1>1. pass \in Passes /\ pass.since <= landed /\ landed \in Nat
  BY DEF IInv, Types
<1>2. CASE todo = <<>>
  BY <1>1, <1>2 DEF PassWith, Idle, Passes
<1>3. CASE todo # <<>>
  BY <1>1, <1>3 DEF PassWith, Passes
<1> QED
  BY <1>2, <1>3

\* A listing hands over the log from the cursor it was asked for to its end.
LEMMA PassListKeeps == IInv /\ PassList => IInv'
<1> SUFFICES ASSUME IInv, PassList PROVE IInv'
  OBVIOUS
<1> DEFINE todo == Listed(pass.since)
<1>1. /\ pass.st = "list" /\ pass' = PassWith(todo)
      /\ UNCHANGED <<landed, socket, wire, unheard, worker, cursor, recent, queue, saving, draining,
                     done, stored, applied, failed, overtaken>>
  BY DEF PassList, net
<1>2. pass.since \in Nat /\ landed \in Nat /\ pass.since <= landed
  BY DEF IInv, Types, Passes
<1>3. /\ todo \in Seq(Nat) /\ Len(todo) = landed - pass.since
      /\ \A i \in 1..Len(todo) : todo[i] = pass.since + i
  BY <1>2 DEF Listed
<1> HIDE DEF todo
<1>4. /\ pass' \in Passes /\ pass'.since <= landed /\ pass'.todo = todo
      /\ pass'.st = IF todo = <<>> THEN "idle" ELSE "fetch"
  BY <1>1, <1>3, PassWithType
<1>5. \A i \in 1..Len(todo) : todo[i] \in Landed
  BY <1>2, <1>3 DEF Landed
<1>6. Landed' = Landed /\ Settled' = Settled
  BY <1>1 DEF Landed, Settled
<1>7. PassIsContiguous'
  <2>1. CASE todo = <<>>
    BY <1>4, <2>1 DEF PassIsContiguous
  <2>2. CASE todo # <<>>
    <3>1. Len(todo) > 0 /\ Len(todo) \in Nat /\ 1 \in 1..Len(todo)
      BY <1>3, <2>2
    <3>2. todo[1] = pass.since + 1
      BY <1>3, <3>1
    <3>3. \A i \in 1..Len(todo) : todo[i] = (todo[1] + i) - 1
      BY <1>2, <1>3, <3>2
    <3>4. ASSUME NEW m \in Landed, m < todo[1] PROVE m \in Settled
      <4>1. m <= pass.since
        BY <1>2, <3>2, <3>4 DEF Landed
      <4> QED
        BY <1>1, <4>1 DEF IInv, PassIsContiguous
    <3> QED
      BY <1>4, <1>6, <2>2, <3>1, <3>3, <3>4 DEF PassIsContiguous
  <2> QED
    BY <2>1, <2>2
<1>8. PassHasOneJob' /\ recent' \in Seq(Nat) /\ RecentIsApplied'
  BY <1>1, NoJobOfThePass DEF IInv, Types, RecentIsApplied
<1>9. worker' # "down"
  BY <1>1 DEF IInv, DownIsIdle
<1> QED
  BY <1>1, <1>4, <1>5, <1>7, <1>8, <1>9, QueueAloneKeeps

LEMMA PassStartKeeps == IInv /\ PassStart => IInv'
<1> SUFFICES ASSUME IInv, PassStart PROVE IInv'
  OBVIOUS
<1>1. /\ worker' = "listening" /\ pass.st = "idle"
      /\ pass' = [st |-> "list", since |-> cursor, todo |-> <<>>]
      /\ UNCHANGED <<landed, socket, wire, unheard, cursor, recent, queue, saving, draining,
                     done, stored, applied, failed, overtaken>>
  BY DEF PassStart, net
<1>2. cursor \in 0..landed /\ cursor \in Nat /\ landed \in Nat
  BY DEF IInv, Types
<1>3. pass'.st = "list" /\ pass'.since = cursor /\ pass'.todo = <<>> /\ pass' \in Passes
  BY <1>1, <1>2 DEF Passes
<1>4. PassIsContiguous'
  <2>1. \A m \in Landed : m <= cursor => m \in Settled
    BY DEF IInv, PassedIsSettled
  <2>2. Landed' = Landed /\ Settled' = Settled
    BY <1>1 DEF Landed, Settled
  <2> QED
    BY <1>3, <2>1, <2>2 DEF PassIsContiguous
<1>5. PassHasOneJob' /\ recent' \in Seq(Nat) /\ RecentIsApplied'
  BY <1>1, NoJobOfThePass DEF IInv, Types, RecentIsApplied
<1>6. pass'.since <= landed /\ \A i \in 1..Len(pass'.todo) : pass'.todo[i] \in Landed
  BY <1>2, <1>3
<1> QED
  BY <1>1, <1>3, <1>4, <1>5, <1>6, QueueAloneKeeps

LEMMA PassBreakKeeps == IInv /\ PassBreak => IInv'
<1> SUFFICES ASSUME IInv, PassBreak PROVE IInv'
  OBVIOUS
<1>1. /\ pass.st \in {"list", "fetch"} /\ pass' = Idle
      /\ UNCHANGED <<landed, socket, wire, unheard, worker, cursor, recent, queue, saving, draining,
                     done, stored, applied, failed, overtaken>>
  BY DEF PassBreak, net
<1>2. pass'.st = "idle" /\ pass'.since = 0 /\ Len(pass'.todo) = 0 /\ pass' \in Passes
  BY <1>1 DEF Idle, Passes
<1>3. PassIsContiguous'
  BY <1>2 DEF PassIsContiguous
<1>4. PassHasOneJob' /\ recent' \in Seq(Nat) /\ RecentIsApplied'
  BY <1>1, NoJobOfThePass DEF IInv, Types, RecentIsApplied
<1>5. worker' # "down"
  BY <1>1 DEF IInv, DownIsIdle
<1>6. pass'.since <= landed /\ \A i \in 1..Len(pass'.todo) : pass'.todo[i] \in Landed
  BY <1>2 DEF IInv, Types
<1> QED
  BY <1>1, <1>2, <1>3, <1>4, <1>5, <1>6, QueueAloneKeeps

\* The pass hands its first transaction over and waits.
LEMMA PassFetchKeeps == IInv /\ PassFetch => IInv'
<1> SUFFICES ASSUME IInv, PassFetch PROVE IInv'
  OBVIOUS
<1> DEFINE job == Job(pass.todo[1], "pass")
<1>1. /\ pass.st = "fetch" /\ pass' = [pass EXCEPT !.st = "wait"]
      /\ queue' = Append(queue, Job(Head(pass.todo), "pass"))
      /\ UNCHANGED <<landed, socket, wire, unheard, worker, cursor, recent, saving, draining, done,
                     stored, applied, failed, overtaken>>
  BY DEF PassFetch, net
<1>2. pass \in Passes /\ pass.todo \in Seq(Nat) /\ Len(pass.todo) > 0
  BY <1>1 DEF IInv, Types, Passes, PassIsContiguous
<1>3. pass' \in Passes /\ pass'.st = "wait" /\ pass'.todo = pass.todo /\ pass'.since = pass.since
  BY <1>1, <1>2 DEF Passes
<1>4. Head(pass.todo) = pass.todo[1] /\ pass.todo[1] \in Landed /\ pass.todo[1] \in Nat
  BY <1>2 DEF IInv, Types, Landed
<1>5. job \in Jobs /\ job.tx = pass.todo[1] /\ job.from = "pass"
  BY <1>4 DEF Job, Jobs
<1>6. queue \in Seq(Jobs) /\ queue' = Append(queue, job)
  BY <1>1, <1>4 DEF IInv, Types
<1> HIDE DEF job
<1>7. /\ queue' \in Seq(Jobs) /\ Len(queue) \in Nat /\ Len(queue') = Len(queue) + 1
      /\ \A i \in 1..Len(queue) : queue'[i] = queue[i]
      /\ queue'[Len(queue) + 1] = job
  BY <1>5, <1>6, AppendToASequence
<1>8. \A i \in 1..Len(queue') :
        \/ i \in 1..Len(queue) /\ queue'[i] = queue[i]
        \/ i = Len(queue) + 1 /\ queue'[i] = job
  BY <1>7
<1>9. \A i \in 1..Len(queue) : queue[i].from = "push"
  <2>1. \A i \in 1..Len(queue) : queue[i].from # "pass"
    BY <1>1 DEF IInv, PassHasOneJob
  <2>2. \A i \in 1..Len(queue) : queue[i] \in Jobs
    BY <1>6
  <2> QED
    BY <2>1, <2>2 DEF Jobs
<1>10. Landed' = Landed /\ Settled' = Settled
  BY <1>1 DEF Landed, Settled
<1>11. Types'
  <2>1. \A i \in 1..Len(queue') : queue'[i].tx \in Landed
    BY <1>4, <1>5, <1>8 DEF IInv, Types
  <2> QED
    BY <1>1, <1>3, <1>7, <1>10, <2>1 DEF IInv, Types
<1>12. PushesInOrder'
  BY <1>1, <1>5, <1>8 DEF IInv, PushesInOrder
<1>13. NothingUnaccounted'
  <2>1. CASE WsServed
    <3>1. \A m \in Landed : InPushes(m) => InPushes(m)'
      <4>1. \A i \in 1..Len(queue) : i \in 1..Len(queue') /\ queue'[i] = queue[i]
        BY <1>7
      <4> QED
        BY <4>1 DEF InPushes
    <3> QED
      BY <1>1, <1>10, <2>1, <3>1 DEF IInv, NothingUnaccounted, OnWire
  <2>2. CASE ~WsServed
    BY <1>1, <1>5, <1>8, <2>2 DEF IInv, NothingUnaccounted
  <2> QED
    BY <2>1, <2>2
<1>14. PassIsContiguous'
  BY <1>1, <1>3, <1>10 DEF IInv, PassIsContiguous
<1>15. PassHasOneJob'
  BY <1>3, <1>5, <1>8, <1>9 DEF PassHasOneJob
<1>16. PassedIsSettled' /\ RecentIsApplied'
  BY <1>1, <1>10 DEF IInv, PassedIsSettled, RecentIsApplied
<1>17. SavingIsOfTheFirst' /\ DownIsIdle'
  BY <1>1, <1>7 DEF IInv, SavingIsOfTheFirst, DownIsIdle
<1> QED
  BY <1>11, <1>12, <1>13, <1>14, <1>15, <1>16, <1>17 DEF IInv

-----------------------------------------------------------------------------
(* The queue.                                                              *)

\* The first job ends, and its transaction is settled.
LEMMA JobEndsKeeps ==
  ASSUME IInv, queue # <<>>, NEW threw \in BOOLEAN, JobEnds(threw), saving' = FALSE,
         UNCHANGED <<landed, socket, wire, unheard, worker, cursor, recent, done, applied,
                   overtaken>>,
         failed \subseteq failed', failed' \subseteq Landed, stored' \in {stored, cursor},
         queue[1].tx \in Settled'
  PROVE  IInv'
<1>1. /\ queue \in Seq(Jobs) /\ Len(queue) > 0 /\ Len(queue) \in Nat /\ Head(queue) = queue[1]
      /\ queue' = Tail(queue) /\ queue' \in Seq(Jobs) /\ Len(queue') = Len(queue) - 1
      /\ \A i \in 1..Len(queue) - 1 : queue'[i] = queue[i + 1]
  <2>1. queue \in Seq(Jobs) /\ queue' = Tail(queue)
    BY DEF IInv, Types, JobEnds
  <2> QED
    BY <2>1, TailOfASequence
<1>2. \A i \in 1..Len(queue') :
        i + 1 \in 1..Len(queue) /\ i + 1 # 1 /\ queue'[i] = queue[i + 1]
  BY <1>1
<1>3. Landed' = Landed /\ Settled \subseteq Settled'
  BY SettledStays DEF Landed
<1>4. draining' \in Nat
  BY DEF IInv, Types, JobEnds
<1>5. \/ pass' = pass /\ queue[1].from = "push"
      \/ pass' = Idle
      \/ pass' = PassWith(Tail(pass.todo)) /\ queue[1].from = "pass"
  <2>1. queue[1] \in Jobs
    BY <1>1
  <2> QED
    BY <1>1, <2>1 DEF JobEnds, Jobs
<1>6. ASSUME queue[1].from = "pass"
      PROVE  /\ pass.st = "wait" /\ queue[1].tx = pass.todo[1]
             /\ pass.todo \in Seq(Nat) /\ Len(pass.todo) > 0 /\ pass.todo # <<>>
  <2>1. pass.st = "wait" /\ queue[1].tx = pass.todo[1]
    BY <1>1, <1>6 DEF IInv, PassHasOneJob
  <2> QED
    BY <2>1 DEF IInv, Types, Passes, PassIsContiguous
<1>7. /\ pass' \in Passes /\ pass'.since <= landed
      /\ \A i \in 1..Len(pass'.todo) : pass'.todo[i] \in Landed
      /\ PassIsContiguous'
  <2>1. CASE pass' = pass
    BY <1>3, <2>1 DEF IInv, Types, PassIsContiguous
  <2>2. CASE pass' = Idle
    <3>1. pass'.st = "idle" /\ pass'.since = 0 /\ Len(pass'.todo) = 0 /\ pass' \in Passes
      BY <2>2 DEF Idle, Passes
    <3> QED
      BY <3>1 DEF IInv, Types, PassIsContiguous
  <2>3. CASE pass' = PassWith(Tail(pass.todo)) /\ queue[1].from = "pass"
    <3> DEFINE todo == pass.todo
               rest == Tail(pass.todo)
    <3>1. pass.st = "wait" /\ queue[1].tx = todo[1] /\ todo \in Seq(Nat) /\ todo # <<>>
      BY <1>6, <2>3
    <3>2. /\ rest \in Seq(Nat) /\ Len(rest) = Len(todo) - 1 /\ Len(todo) \in Nat /\ Len(todo) > 0
          /\ \A i \in 1..Len(todo) - 1 : rest[i] = todo[i + 1]
      BY <3>1, TailOfASequence
    <3>3. /\ \A i \in 1..Len(todo) : todo[i] = (todo[1] + i) - 1
          /\ \A i \in 1..Len(todo) : todo[i] \in Landed
          /\ \A m \in Landed : m < todo[1] => m \in Settled
          /\ todo[1] \in Nat
      BY <3>1, <3>2 DEF IInv, Types, PassIsContiguous
    <3>4. /\ pass' \in Passes /\ pass'.since <= landed /\ pass'.todo = rest
          /\ pass'.st = IF rest = <<>> THEN "idle" ELSE "fetch"
      BY <2>3, <3>2, PassWithType
    <3> HIDE DEF todo, rest
    <3>5. ASSUME NEW i \in 1..Len(rest)
          PROVE  rest[i] \in Landed /\ rest[i] = todo[1] + i
      <4>1. i \in Nat /\ i + 1 \in 1..Len(todo) /\ rest[i] = todo[i + 1]
        BY <3>2
      <4>2. todo[i + 1] \in Landed /\ todo[i + 1] = (todo[1] + (i + 1)) - 1
        BY <3>3, <4>1
      <4>3. ASSUME NEW a \in Nat, NEW b \in Nat PROVE (a + (b + 1)) - 1 = a + b
        OBVIOUS
      <4>4. (todo[1] + (i + 1)) - 1 = todo[1] + i
        BY <3>3, <4>1, <4>3
      <4> QED
        BY <4>1, <4>2, <4>4
    <3>6. ASSUME rest # <<>> PROVE rest[1] = todo[1] + 1 /\ Len(rest) > 0
      <4>1. Len(rest) > 0 /\ 1 \in 1..Len(rest)
        BY <3>2, <3>6
      <4> QED
        BY <3>5, <4>1
    <3>7. ASSUME rest # <<>>, NEW m \in Landed, m < rest[1] PROVE m \in Settled'
      <4>1. m < todo[1] \/ m = todo[1]
        BY <3>3, <3>6, <3>7 DEF Landed
      <4> QED
        BY <1>3, <3>1, <3>3, <4>1
    <3>8. PassIsContiguous'
      <4>1. CASE rest = <<>>
        BY <3>4, <4>1 DEF PassIsContiguous
      <4>2. CASE rest # <<>>
        <5>1. ASSUME NEW i \in 1..Len(rest) PROVE rest[i] = (rest[1] + i) - 1
          <6>1. rest[i] = todo[1] + i /\ i \in Nat /\ todo[1] \in Nat
            BY <3>2, <3>3, <3>5
          <6>2. rest[1] = todo[1] + 1
            BY <3>6, <4>2
          <6> QED
            BY <6>1, <6>2
        <5> QED
          BY <1>3, <3>4, <3>6, <3>7, <4>2, <5>1 DEF PassIsContiguous
      <4> QED
        BY <4>1, <4>2
    <3> QED
      BY <3>4, <3>5, <3>8
  <2> QED
    BY <1>5, <2>1, <2>2, <2>3
<1>8. PassHasOneJob'
  <2>1. CASE queue[1].from = "push" /\ pass' = pass
    <3>1. ASSUME NEW i \in 1..Len(queue'), queue'[i].from = "pass"
          PROVE  pass'.st = "wait" /\ queue'[i].tx = pass'.todo[1]
      BY <1>2, <2>1, <3>1 DEF IInv, PassHasOneJob
    <3>2. ASSUME NEW i \in 1..Len(queue'), NEW j \in 1..Len(queue'),
                 queue'[i].from = "pass", queue'[j].from = "pass"
          PROVE  i = j
      <4>1. /\ i + 1 \in 1..Len(queue) /\ queue[i + 1].from = "pass"
            /\ j + 1 \in 1..Len(queue) /\ queue[j + 1].from = "pass"
        BY <1>2, <3>2
      <4>2. i + 1 = j + 1
        BY <4>1 DEF IInv, PassHasOneJob
      <4> QED
        BY <1>1, <4>2
    <3> QED
      BY <3>1, <3>2 DEF PassHasOneJob
  <2>2. CASE queue[1].from = "pass"
    <3>1. \A i \in 1..Len(queue') : queue'[i].from # "pass"
      BY <1>1, <1>2, <2>2 DEF IInv, PassHasOneJob
    <3> QED
      BY <3>1 DEF PassHasOneJob
  <2>3. queue[1].from = "push" => pass' = pass
    BY <1>1 DEF JobEnds
  <2>4. queue[1] \in Jobs
    BY <1>1
  <2>5. queue[1].from \in {"push", "pass"}
    BY <2>4 DEF Jobs
  <2> QED
    BY <2>1, <2>2, <2>3, <2>5
<1>9. Types'
  <2>1. \A i \in 1..Len(queue') : queue'[i].tx \in Landed
    BY <1>2 DEF IInv, Types
  <2>2. stored' \in 0..landed
    BY DEF IInv, Types
  <2> QED
    BY <1>1, <1>3, <1>4, <1>7, <2>1, <2>2 DEF IInv, Types
<1>10. PushesInOrder'
  <2>1. ASSUME NEW i \in 1..Len(queue'), NEW j \in 1..Len(queue'), i < j,
               queue'[i].from = "push", queue'[j].from = "push"
        PROVE  queue'[i].tx < queue'[j].tx
    <3>1. i + 1 < j + 1
      BY <1>1, <2>1
    <3> QED
      BY <1>2, <2>1, <3>1 DEF IInv, PushesInOrder
  <2>2. \A i \in 1..Len(queue'), j \in 1..Len(wire) :
          queue'[i].from = "push" => queue'[i].tx < wire[j]
    BY <1>2 DEF IInv, PushesInOrder
  <2> QED
    BY <2>1, <2>2 DEF IInv, PushesInOrder
<1>11. NothingUnaccounted'
  <2>1. CASE WsServed
    <3>1. ASSUME NEW m \in Landed, InPushes(m), m \notin Settled' PROVE InPushes(m)'
      <4>1. PICK i \in 1..Len(queue) : queue[i].from = "push" /\ queue[i].tx = m
        BY <3>1 DEF InPushes
      <4>2. i # 1
        BY <3>1, <4>1
      <4>3. i - 1 \in 1..Len(queue') /\ queue'[i - 1] = queue[i]
        BY <1>1, <4>2
      <4> QED
        BY <4>1, <4>3 DEF InPushes
    <3>2. \A m \in Landed : OnWire(m) => OnWire(m)'
      BY DEF OnWire
    <3> QED
      BY <1>3, <2>1, <3>1, <3>2 DEF IInv, NothingUnaccounted
  <2>2. CASE ~WsServed
    BY <1>2, <2>2 DEF IInv, NothingUnaccounted
  <2> QED
    BY <2>1, <2>2
<1>12. PassedIsSettled'
  BY <1>3 DEF IInv, PassedIsSettled
<1>13. RecentIsApplied' /\ SavingIsOfTheFirst'
  BY DEF IInv, RecentIsApplied, SavingIsOfTheFirst
<1>14. DownIsIdle'
  BY DEF IInv, DownIsIdle
<1> QED
  BY <1>7, <1>8, <1>9, <1>10, <1>11, <1>12, <1>13, <1>14 DEF IInv

\* A transaction taken for an old one is one: its slot is passed, or it is remembered.
LEMMA BehindIsSettled ==
  ASSUME IInv, NEW n \in Landed, Behind(n)
  PROVE  n \in Settled
<1>1. cursor \in Landed /\ cursor # 0 /\ Landed \subseteq Txs
  BY DEF Behind, IInv, Types, Landed, Txs
<1>2. CASE Slot(n) < Slot(cursor)
  <2>1. n \in Txs /\ cursor \in Txs /\ n \in Nat /\ cursor \in Nat
    BY <1>1 DEF Txs, Landed
  <2>2. Slot(n) \in Nat /\ Slot(cursor) \in Nat /\ (cursor <= n => Slot(cursor) <= Slot(n))
    BY <2>1, IndexerAssumption
  <2>3. n <= cursor
    BY <1>2, <2>1, <2>2
  <2> QED
    BY <2>3 DEF IInv, PassedIsSettled
<1>3. CASE \E i \in DOMAIN recent : recent[i] = n
  <2>1. DOMAIN recent = 1..Len(recent)
    BY DEF IInv, Types
  <2> QED
    BY <1>3, <2>1 DEF IInv, RecentIsApplied, Settled
<1> QED
  BY <1>2, <1>3 DEF Behind

LEMMA SkipKeeps == IInv /\ Skip => IInv'
<1> SUFFICES ASSUME IInv, Skip PROVE IInv'
  OBVIOUS
<1>1. /\ queue # <<>> /\ ~saving /\ Behind(Head(queue).tx) /\ JobEnds(FALSE)
      /\ UNCHANGED <<worker, cursor, recent, saving, done, landed, socket, wire, unheard,
                     stored, applied, failed, overtaken>>
  BY DEF Skip, net
<1>2. queue \in Seq(Jobs)
  BY DEF IInv, Types
<1>3. Len(queue) > 0 /\ Head(queue) = queue[1]
  BY <1>1, <1>2, TailOfASequence
<1>4. queue[1].tx \in Landed
  BY <1>2, <1>3 DEF IInv, Types
<1>5. queue[1].tx \in Settled
  BY <1>1, <1>3, <1>4, BehindIsSettled
<1>6. Settled \subseteq Settled' /\ failed' \subseteq Landed /\ saving' = FALSE
  BY <1>1, SettledStays DEF IInv, Types
<1> QED
  BY <1>1, <1>5, <1>6, JobEndsKeeps

LEMMA HandleFailKeeps == IInv /\ HandleFail => IInv'
<1> SUFFICES ASSUME IInv, HandleFail PROVE IInv'
  OBVIOUS
<1>1. /\ queue # <<>> /\ ~saving /\ JobEnds(FALSE)
      /\ failed' = failed \cup {Head(queue).tx}
      /\ UNCHANGED <<worker, cursor, recent, saving, done, landed, socket, wire, unheard,
                     stored, applied, overtaken>>
  BY DEF HandleFail, net
<1>2. queue \in Seq(Jobs)
  BY DEF IInv, Types
<1>3. Len(queue) > 0 /\ Head(queue) = queue[1]
  BY <1>1, <1>2, TailOfASequence
<1>4. queue[1].tx \in Landed
  BY <1>2, <1>3 DEF IInv, Types
<1>5. /\ queue[1].tx \in Settled' /\ failed \subseteq failed' /\ failed' \subseteq Landed
      /\ saving' = FALSE
  BY <1>1, <1>3, <1>4 DEF IInv, Types, Settled
<1> QED
  BY <1>1, <1>5, JobEndsKeeps

LEMMA SaveKeeps == IInv /\ Save => IInv'
<1> SUFFICES ASSUME IInv, Save PROVE IInv'
  OBVIOUS
<1>1. /\ saving /\ saving' = FALSE
      /\ stored' \in {stored, cursor} /\ \E threw \in BOOLEAN : JobEnds(threw)
      /\ UNCHANGED <<worker, cursor, recent, done, landed, socket, wire, unheard, applied, failed,
                     overtaken>>
  BY DEF Save, net
<1>2. Len(queue) > 0 /\ queue[1].tx = cursor /\ cursor # 0
  BY <1>1 DEF IInv, SavingIsOfTheFirst
<1>3. queue # <<>> /\ cursor \in applied /\ cursor \in Settled'
  BY <1>1, <1>2 DEF IInv, Types, PassedIsSettled, Settled
<1>4. failed' \subseteq Landed
  BY <1>1 DEF IInv, Types
<1> QED
  BY <1>1, <1>2, <1>3, <1>4, JobEndsKeeps

\* Whoever put the first job there, what landed before its transaction is settled, or the
\* job is a push that overtakes it.
LEMMA FirstIsNext ==
  ASSUME IInv, queue # <<>>, NEW m \in Landed, m < queue[1].tx
  PROVE  m \in Settled \cup Overtakes(queue[1])
<1>1. queue \in Seq(Jobs) /\ Len(queue) > 0 /\ Len(queue) \in Nat /\ 1 \in 1..Len(queue)
  BY DEF IInv, Types
<1>2. queue[1].tx \in Nat /\ queue[1].from \in {"push", "pass"} /\ m \in Nat
  <2>1. queue[1] \in Jobs /\ landed \in Nat
    BY <1>1 DEF IInv, Types
  <2> QED
    BY <2>1 DEF Jobs, Landed
<1>3. CASE queue[1].from = "pass"
  BY <1>1, <1>3 DEF IInv, PassHasOneJob, PassIsContiguous
<1>4. CASE queue[1].from = "push"
  <2>1. WsServed
    BY <1>1, <1>4 DEF IInv, NothingUnaccounted
  <2>2. m \in Settled \cup unheard \/ OnWire(m) \/ InPushes(m)
    BY <2>1 DEF IInv, NothingUnaccounted
  <2>3. ASSUME OnWire(m) PROVE FALSE
    <3>1. PICK j \in 1..Len(wire) : wire[j] = m
      BY <2>3 DEF OnWire
    <3>2. queue[1].tx < m
      BY <1>1, <1>4, <3>1 DEF IInv, PushesInOrder
    <3> QED
      BY <1>2, <3>2
  <2>4. ASSUME InPushes(m) PROVE FALSE
    <3>1. PICK i \in 1..Len(queue) : queue[i].from = "push" /\ queue[i].tx = m
      BY <2>4 DEF InPushes
    <3>2. i # 1 /\ 1 < i
      BY <1>1, <1>2, <3>1
    <3>3. queue[1].tx < m
      BY <1>1, <1>4, <3>1, <3>2 DEF IInv, PushesInOrder
    <3> QED
      BY <1>2, <3>3
  <2>5. m \in unheard /\ m \notin Settled => m \in Overtakes(queue[1])
    BY <1>4 DEF Overtakes, Settled
  <2> QED
    BY <2>2, <2>3, <2>4, <2>5
<1> QED
  BY <1>2, <1>3, <1>4

\* The memory of signatures takes one at its end; its first one goes when it is full.
LEMMA RememberedIs ==
  ASSUME IInv, NEW n \in Nat
  PROVE  /\ Remembered(n) \in Seq(Nat)
         /\ \/ /\ Len(recent) + 1 <= Recent
               /\ Len(Remembered(n)) = Len(recent) + 1
               /\ \A i \in 1..Len(recent) : Remembered(n)[i] = recent[i]
               /\ Remembered(n)[Len(recent) + 1] = n
            \/ /\ Len(recent) + 1 > Recent
               /\ Len(Remembered(n)) = Len(recent)
               /\ \A i \in 1..Len(recent) :
                    Remembered(n)[i] = IF i = Len(recent) THEN n ELSE recent[i + 1]
<1> DEFINE longer == Append(recent, n)
<1>1. recent \in Seq(Nat) /\ Recent \in Nat /\ Len(recent) \in Nat
  BY IndexerAssumption DEF IInv, Types
<1>2. /\ longer \in Seq(Nat) /\ Len(longer) = Len(recent) + 1
      /\ \A i \in 1..Len(recent) : longer[i] = recent[i]
      /\ longer[Len(recent) + 1] = n
  BY <1>1, AppendToASequence
<1>3. Remembered(n) = IF Len(longer) > Recent THEN Tail(longer) ELSE longer
  BY DEF Remembered
<1> HIDE DEF longer
<1>4. CASE Len(longer) > Recent
  <2>1. longer # <<>>
    BY <1>1, <1>2
  <2>2. /\ Tail(longer) \in Seq(Nat) /\ Len(Tail(longer)) = Len(recent)
        /\ \A i \in 1..Len(recent) : Tail(longer)[i] = longer[i + 1]
    BY <1>1, <1>2, <2>1, TailOfASequence
  <2>3. ASSUME NEW i \in 1..Len(recent)
        PROVE  Tail(longer)[i] = IF i = Len(recent) THEN n ELSE recent[i + 1]
    <3>1. CASE i = Len(recent)
      BY <1>2, <2>2, <3>1
    <3>2. CASE i # Len(recent)
      <4>1. i + 1 \in 1..Len(recent)
        BY <1>1, <3>2
      <4> QED
        BY <1>2, <2>2, <3>2, <4>1
    <3> QED
      BY <3>1, <3>2
  <2> QED
    BY <1>2, <1>3, <1>4, <2>2, <2>3
<1>5. CASE ~(Len(longer) > Recent)
  BY <1>1, <1>2, <1>3, <1>5
<1> QED
  BY <1>4, <1>5

LEMMA HandleOkKeeps == IInv /\ HandleOk => IInv'
<1> SUFFICES ASSUME IInv, HandleOk PROVE IInv'
  OBVIOUS
<1> DEFINE n == queue[1].tx
<1>1. queue \in Seq(Jobs) /\ queue # <<>>
  BY DEF IInv, Types, HandleOk
<1>2. Len(queue) > 0 /\ Len(queue) \in Nat /\ Head(queue) = queue[1] /\ 1 \in 1..Len(queue)
  BY <1>1, TailOfASequence
<1>3. /\ cursor' = n /\ recent' = Remembered(n) /\ saving' = TRUE
      /\ applied' = applied \cup {n} /\ done' = done \cup {n}
      /\ overtaken' = overtaken \cup Overtakes(queue[1])
      /\ UNCHANGED <<worker, queue, pass, draining, landed, socket, wire, unheard, stored, failed>>
  BY <1>2 DEF HandleOk, net
<1>4. n \in Landed /\ n \in Nat /\ n # 0 /\ n \in 0..landed /\ landed \in Nat
  BY <1>2 DEF IInv, Types, Landed
<1>5. \A m \in Landed : m < n => m \in Settled \cup Overtakes(queue[1])
  BY <1>1, FirstIsNext
<1> HIDE DEF n
<1>6. /\ Landed' = Landed /\ Settled \subseteq Settled' /\ n \in Settled'
      /\ Overtakes(queue[1]) \subseteq Settled'
  BY <1>3, SettledStays DEF Landed, Settled
<1>7. /\ recent' \in Seq(Nat)
      /\ \A i \in 1..Len(recent') : recent'[i] = n \/ \E j \in 1..Len(recent) : recent'[i] = recent[j]
  <2>1. recent \in Seq(Nat) /\ Len(recent) \in Nat
    BY DEF IInv, Types
  <2>2. recent' \in Seq(Nat)
    BY <1>3, <1>4, RememberedIs
  <2>3. CASE /\ Len(recent') = Len(recent) + 1
             /\ \A i \in 1..Len(recent) : recent'[i] = recent[i]
             /\ recent'[Len(recent) + 1] = n
    <3>1. \A i \in 1..Len(recent') : i \in 1..Len(recent) \/ i = Len(recent) + 1
      BY <2>1, <2>3
    <3> QED
      BY <2>2, <2>3, <3>1
  <2>4. CASE /\ Len(recent') = Len(recent)
             /\ \A i \in 1..Len(recent) :
                  recent'[i] = IF i = Len(recent) THEN n ELSE recent[i + 1]
    <3>1. \A i \in 1..Len(recent) : i # Len(recent) => i + 1 \in 1..Len(recent)
      BY <2>1
    <3> QED
      BY <2>2, <2>4, <3>1
  <2> QED
    BY <1>3, <1>4, <2>3, <2>4, RememberedIs
<1>8. Types'
  <2>1. applied' \subseteq Landed /\ done' \subseteq applied'
    BY <1>3, <1>4 DEF IInv, Types
  <2>2. overtaken' \subseteq Landed
    BY <1>3 DEF IInv, Types, Overtakes
  <2> QED
    BY <1>3, <1>4, <1>6, <1>7, <2>1, <2>2 DEF IInv, Types
<1>9. PushesInOrder' /\ PassHasOneJob'
  BY <1>3 DEF IInv, PushesInOrder, PassHasOneJob
<1>10. NothingUnaccounted'
  BY <1>3, <1>6 DEF IInv, NothingUnaccounted, OnWire, InPushes
<1>11. PassIsContiguous'
  BY <1>3, <1>6 DEF IInv, PassIsContiguous
<1>12. PassedIsSettled'
  <2>1. \A m \in Landed : m <= n => m \in Settled'
    <3>1. ASSUME NEW m \in Landed, m <= n PROVE m < n \/ m = n
      BY <1>4, <3>1 DEF Landed
    <3> QED
      BY <1>5, <1>6, <3>1
  <2>2. \A m \in Landed : m <= stored => m \in Settled'
    BY <1>6 DEF IInv, PassedIsSettled
  <2>3. n \in applied' /\ (stored # 0 => stored \in applied')
    BY <1>3 DEF IInv, PassedIsSettled
  <2> QED
    BY <1>3, <1>6, <2>1, <2>2, <2>3 DEF PassedIsSettled
<1>13. RecentIsApplied'
  BY <1>3, <1>7 DEF IInv, RecentIsApplied
<1>14. SavingIsOfTheFirst'
  BY <1>2, <1>3, <1>4 DEF SavingIsOfTheFirst, n
<1>15. DownIsIdle'
  BY <1>1, <1>3 DEF IInv, DownIsIdle
<1> QED
  BY <1>8, <1>9, <1>10, <1>11, <1>12, <1>13, <1>14, <1>15 DEF IInv

-----------------------------------------------------------------------------

LEMMA StutterKeeps == IInv /\ UNCHANGED vars => IInv'
<1> SUFFICES ASSUME IInv, UNCHANGED vars PROVE IInv'
  OBVIOUS
<1>1. UNCHANGED <<landed, socket, wire, unheard, worker, cursor, recent, queue, saving, pass,
                  draining, done, stored, applied, failed, overtaken>>
  BY DEF vars, life, net
<1>2. /\ Types' /\ PushesInOrder' /\ PassHasOneJob' /\ RecentIsApplied' /\ SavingIsOfTheFirst'
      /\ DownIsIdle'
  BY <1>1 DEF IInv, Types, Landed, PushesInOrder, PassHasOneJob, RecentIsApplied,
              SavingIsOfTheFirst, DownIsIdle
<1>3. Landed' = Landed /\ Settled' = Settled
  BY <1>1 DEF Landed, Settled
<1>4. NothingUnaccounted' /\ PassIsContiguous' /\ PassedIsSettled'
  BY <1>1, <1>3 DEF IInv, NothingUnaccounted, OnWire, InPushes, PassIsContiguous, PassedIsSettled
<1> QED
  BY <1>2, <1>4 DEF IInv

LEMMA NextKeeps == IInv /\ [Next]_vars => IInv'
<1> SUFFICES ASSUME IInv, [Next]_vars PROVE IInv'
  OBVIOUS
<1>1. CASE Land \/ SocketOpen \/ SocketDrop \/ Deliver
  BY <1>1, LandKeeps, SocketOpenKeeps, SocketDropKeeps, DeliverKeeps
<1>2. CASE Boot \/ Listen \/ Stop
  BY <1>2, BootKeeps, ListenKeeps, StopKeeps
<1>3. CASE Exit \/ Crash
  <2>1. ProcessEnds
    BY <1>3 DEF Exit, Crash
  <2> QED
    BY <2>1, ProcessEndsKeeps
<1>4. CASE PassStart \/ PassList \/ PassFetch \/ PassBreak
  BY <1>4, PassStartKeeps, PassListKeeps, PassFetchKeeps, PassBreakKeeps
<1>5. CASE Process
  BY <1>5, SkipKeeps, HandleOkKeeps, HandleFailKeeps, SaveKeeps DEF Process
<1>6. CASE UNCHANGED vars
  BY <1>6, StutterKeeps
<1> QED
  BY <1>1, <1>2, <1>3, <1>4, <1>5, <1>6 DEF Next

\* backfill.ts, subscribe.ts, cursor.ts: the state of the worker is well-formed and accounted
\* for. Its notifications arrive in order or are known to be lost, a pass works through a
\* contiguous piece of the log, and neither cursor has passed a transaction that nobody dealt
\* with.
THEOREM WorkerInvariant == Spec => []IInv
<1>1. Init => IInv
  BY InitIInv
<1>2. IInv /\ [Next]_vars => IInv'
  BY NextKeeps
<1> QED
  BY <1>1, <1>2, PTL DEF Spec

\* For every history and every mix of faults: a transaction that a cursor has passed is in the
\* index, its handler failed, or it was never notified and a notified one was handled before a
\* pass had brought it (cursor.ts:69-71, as far as the code keeps it).  What landed while the
\* worker was down, what a crash took out of the queue and what a broken pass left is not lost
\* for that.
THEOREM GapsHaveACauseCorrect == Spec => []GapsHaveACause
<1>1. IInv => GapsHaveACause
  <2> SUFFICES ASSUME IInv, NEW n \in 1..landed, n < cursor \/ n < stored
               PROVE  n \in applied \cup failed \cup overtaken
    BY DEF GapsHaveACause
  <2>1. n \in Landed /\ n \in Nat /\ cursor \in Nat /\ stored \in Nat
    BY DEF IInv, Types, Landed
  <2>2. n <= cursor \/ n <= stored
    BY <2>1
  <2> QED
    BY <2>1, <2>2 DEF IInv, PassedIsSettled, Settled
<1> QED
  BY <1>1, WorkerInvariant, PTL

-----------------------------------------------------------------------------
(* The memory of signatures.                                               *)

Mates(n) == {m \in Txs : Slot(m) = Slot(n)}

LEMMA MatesFitTheMemory ==
  ASSUME NEW n \in Txs
  PROVE  /\ IsFiniteSet(Mates(n)) /\ Cardinality(Mates(n)) \in Nat
         /\ Cardinality(Mates(n)) <= Recent /\ Recent \in Nat /\ 1 <= Recent
<1>1. IsFiniteSet(Txs)
  BY IndexerAssumption, FS_Interval DEF Txs
<1>2. IsFiniteSet(Mates(n))
  BY <1>1, FS_Subset DEF Mates
<1>3. Cardinality(Mates(n)) \in Nat
  BY <1>2, FS_CardinalityType
<1>4. n \in Mates(n)
  BY DEF Mates
<1>5. Cardinality(Mates(n)) # 0
  BY <1>2, <1>4, FS_EmptySet
<1>6. Cardinality(Mates(n)) <= Recent /\ Recent \in Nat
  BY IndexerAssumption DEF Mates
<1> QED
  BY <1>2, <1>3, <1>5, <1>6

\* Distinct transactions of one slot are never more than the memory holds.
LEMMA NoOverflow ==
  ASSUME NEW n \in Txs, NEW s \in Seq(Nat), Len(s) = Recent + 1,
         \A i \in 1..Len(s) : s[i] \in Mates(n),
         \A i, j \in 1..Len(s) : s[i] = s[j] => i = j
  PROVE  FALSE
<1>1. /\ IsFiniteSet(Mates(n)) /\ Cardinality(Mates(n)) <= Recent /\ Recent \in Nat
      /\ Cardinality(Mates(n)) \in Nat
  BY MatesFitTheMemory
<1> DEFINE f == [i \in 1..Len(s) |-> s[i]]
<1>2. f \in Injection(1..Len(s), Mates(n))
  BY DEF Injection, IsInjective
<1>3. Cardinality(1..Len(s)) <= Cardinality(Mates(n))
  BY <1>1, <1>2, FS_Injection
<1>4. Cardinality(1..Len(s)) = Recent + 1
  BY <1>1, FS_Interval
<1> QED
  BY <1>1, <1>3, <1>4

\* A step that neither moves the cursor nor touches the memory.
LEMMA MemoryStays == MemoryInv /\ UNCHANGED <<cursor, recent, done>> => MemoryInv'
BY DEF MemoryInv, RecentIsSorted, RecentEndsAtTheCursor, DoneIsRemembered

LEMMA MemoryForgets ==
  ASSUME cursor' = 0, recent' = <<>>, done' = {}, Recent \in Nat
  PROVE  MemoryInv'
<1>1. Len(recent') = 0
  OBVIOUS
<1> QED
  BY <1>1 DEF MemoryInv, RecentIsSorted, RecentEndsAtTheCursor, DoneIsRemembered

LEMMA BootRemembers == IInv /\ Boot => MemoryInv'
<1> SUFFICES ASSUME IInv, Boot PROVE MemoryInv'
  OBVIOUS
<1>1. /\ worker = "down" /\ cursor' = stored /\ done' = done
      /\ recent' = IF stored = 0 THEN <<>> ELSE <<stored>>
  BY DEF Boot
<1>2. done' = {} /\ stored \in 0..landed /\ landed \in 0..Len(History) /\ Len(History) \in Nat
  BY <1>1, IndexerAssumption DEF IInv, DownIsIdle, Types
<1>3. CASE stored = 0
  BY <1>1, <1>2, <1>3, MemoryForgets, IndexerAssumption
<1>4. CASE stored # 0
  <2>1. stored \in Txs
    BY <1>2, <1>4 DEF Txs
  <2>2. 1 <= Recent /\ Slot(stored) \in Nat
    BY <2>1, MatesFitTheMemory, IndexerAssumption
  <2>3. recent' = <<stored>> /\ Len(recent') = 1 /\ recent'[1] = stored /\ 1..1 = {1}
    BY <1>1, <1>4
  <2>4. RecentIsSorted'
    BY <2>2, <2>3 DEF RecentIsSorted
  <2>5. RecentEndsAtTheCursor' /\ DoneIsRemembered'
    BY <1>1, <1>2, <1>4, <2>2, <2>3 DEF RecentEndsAtTheCursor, DoneIsRemembered
  <2> QED
    BY <2>4, <2>5 DEF MemoryInv
<1> QED
  BY <1>3, <1>4

\* The transaction of the first job, when isBehind says it is a new one.
LEMMA NewIsNotDone ==
  ASSUME IInv, MemoryInv, NEW n \in Txs, ~Behind(n)
  PROVE  /\ cursor # 0 => cursor \in Txs /\ Slot(cursor) <= Slot(n)
         /\ \A i \in 1..Len(recent) : recent[i] \in Txs /\ Slot(recent[i]) <= Slot(n)
         /\ \A i \in 1..Len(recent) : recent[i] # n
         /\ n \notin done
<1>1. /\ recent \in Seq(Nat) /\ Len(recent) \in Nat /\ DOMAIN recent = 1..Len(recent)
      /\ cursor \in 0..landed /\ landed \in 0..Len(History) /\ Len(History) \in Nat
      /\ applied \subseteq Landed /\ done \subseteq applied
  BY IndexerAssumption DEF IInv, Types
<1>2. Landed \subseteq Txs /\ \A i \in 1..Len(recent) : recent[i] \in Txs
  BY <1>1 DEF IInv, RecentIsApplied, Landed, Txs
<1>3. CASE cursor = 0
  <2>1. recent = <<>> /\ Len(recent) = 0 /\ done = {}
    BY <1>3 DEF MemoryInv, RecentEndsAtTheCursor
  <2> QED
    BY <1>3, <2>1
<1>4. CASE cursor # 0
  <2>1. cursor \in Txs /\ Slot(cursor) \in Nat /\ Slot(n) \in Nat
    BY <1>1, <1>4, IndexerAssumption DEF Txs
  <2>2. /\ ~(Slot(n) < Slot(cursor))
        /\ Slot(n) = Slot(cursor) => \A i \in 1..Len(recent) : recent[i] # n
    BY <1>1, <1>4 DEF Behind
  <2>3. Slot(cursor) <= Slot(n)
    BY <2>1, <2>2
  <2>4. Len(recent) \in 1..Len(recent) /\ recent[Len(recent)] = cursor
    BY <1>1, <1>4 DEF MemoryInv, RecentEndsAtTheCursor
  <2>5. ASSUME NEW i \in 1..Len(recent)
        PROVE  Slot(recent[i]) \in Nat /\ Slot(recent[i]) <= Slot(cursor)
    <3>1. Slot(recent[i]) \in Nat
      BY <1>2, IndexerAssumption
    <3>2. CASE i = Len(recent)
      BY <2>1, <2>4, <3>2
    <3>3. CASE i # Len(recent)
      <4>1. Len(recent) \in Nat
        BY <1>1
      <4>2. i < Len(recent)
        BY <3>3, <4>1
      <4> QED
        BY <2>4, <3>1, <4>2 DEF MemoryInv, RecentIsSorted
    <3> QED
      BY <3>1, <3>2, <3>3
  <2>6. ASSUME NEW i \in 1..Len(recent) PROVE Slot(recent[i]) <= Slot(n) /\ recent[i] # n
    <3>1. Slot(recent[i]) <= Slot(n)
      BY <2>1, <2>3, <2>5
    <3>2. recent[i] = n => Slot(n) = Slot(cursor)
      BY <2>1, <2>3, <2>5
    <3> QED
      BY <2>2, <3>1, <3>2
  <2>7. n \notin done
    <3>1. SUFFICES ASSUME n \in done PROVE FALSE
      OBVIOUS
    <3>2. Slot(n) <= Slot(cursor)
      BY <3>1 DEF MemoryInv, DoneIsRemembered
    <3>3. Slot(n) = Slot(cursor)
      BY <2>1, <2>3, <3>2
    <3>4. \E i \in 1..Len(recent) : recent[i] = n
      BY <3>1, <3>3 DEF MemoryInv, DoneIsRemembered
    <3> QED
      BY <2>2, <3>3, <3>4
  <2> QED
    BY <1>2, <2>1, <2>3, <2>6, <2>7
<1> QED
  BY <1>3, <1>4

LEMMA HandleOkRemembers == IInv /\ MemoryInv /\ HandleOk => MemoryInv'
<1> SUFFICES ASSUME IInv, MemoryInv, HandleOk PROVE MemoryInv'
  OBVIOUS
<1> DEFINE n == Head(queue).tx
           longer == Append(recent, n)
<1>1. /\ queue # <<>> /\ ~Behind(n)
      /\ cursor' = n /\ recent' = Remembered(n) /\ done' = done \cup {n}
  BY DEF HandleOk
<1>2. n \in Txs /\ n \in Nat /\ n # 0
  <2>1. queue \in Seq(Jobs) /\ Len(queue) \in Nat
    BY DEF IInv, Types
  <2>2. Head(queue) = queue[1] /\ 1 \in 1..Len(queue)
    BY <1>1, <2>1, TailOfASequence
  <2>3. n \in Landed /\ landed \in 0..Len(History) /\ Len(History) \in Nat
    BY <2>2, IndexerAssumption DEF IInv, Types
  <2> HIDE DEF n
  <2> QED
    BY <2>3 DEF Landed, Txs
<1> HIDE DEF n
<1>3. /\ cursor # 0 => cursor \in Txs /\ Slot(cursor) <= Slot(n)
      /\ \A i \in 1..Len(recent) : recent[i] \in Txs /\ Slot(recent[i]) <= Slot(n)
      /\ \A i \in 1..Len(recent) : recent[i] # n
      /\ n \notin done
  BY <1>1, <1>2, NewIsNotDone
<1>4. /\ recent \in Seq(Nat) /\ Len(recent) \in Nat /\ Len(recent) <= Recent
      /\ Recent \in Nat /\ 1 <= Recent
  BY <1>2, MatesFitTheMemory DEF IInv, Types, MemoryInv, RecentEndsAtTheCursor
<1>5. /\ longer \in Seq(Nat) /\ Len(longer) = Len(recent) + 1
      /\ \A i \in 1..Len(recent) : longer[i] = recent[i]
      /\ longer[Len(recent) + 1] = n
  BY <1>2, <1>4, AppendToASequence
<1>6. \A i \in 1..Len(longer) :
        \/ i \in 1..Len(recent) /\ longer[i] = recent[i]
        \/ i = Len(recent) + 1 /\ longer[i] = n
  BY <1>4, <1>5
<1> HIDE DEF longer
<1>7. /\ \A i \in 1..Len(longer) : longer[i] \in Txs /\ Slot(longer[i]) \in Nat
      /\ Slot(n) \in Nat
  BY <1>2, <1>3, <1>6, IndexerAssumption
<1>8. ASSUME NEW i \in 1..Len(longer), NEW j \in 1..Len(longer)
      PROVE  /\ i < j => Slot(longer[i]) <= Slot(longer[j])
             /\ longer[i] = longer[j] => i = j
  <2>1. CASE i \in 1..Len(recent) /\ j \in 1..Len(recent)
    BY <1>5, <2>1 DEF MemoryInv, RecentIsSorted
  <2>2. CASE i \in 1..Len(recent) /\ j = Len(recent) + 1
    BY <1>3, <1>5, <2>2
  <2>3. CASE i = Len(recent) + 1 /\ j \in 1..Len(recent)
    <3>1. ~(i < j)
      BY <1>4, <2>3
    <3> QED
      BY <1>3, <1>5, <2>3, <3>1
  <2>4. CASE i = Len(recent) + 1 /\ j = Len(recent) + 1
    BY <1>4, <2>4
  <2> QED
    BY <1>6, <2>1, <2>2, <2>3, <2>4
\* A transaction done in the slot of n is among those remembered.
<1>9. ASSUME NEW m \in done', Slot(m) = Slot(n)
      PROVE  \E i \in 1..Len(longer) : longer[i] = m
  <2>1. CASE m = n
    BY <1>4, <1>5, <2>1
  <2>2. CASE m # n
    <3>1. m \in done /\ cursor # 0
      BY <1>1, <2>2 DEF MemoryInv, RecentEndsAtTheCursor
    <3>2. Slot(m) <= Slot(cursor) /\ Slot(cursor) <= Slot(n) /\ Slot(cursor) \in Nat
      BY <1>3, <3>1, IndexerAssumption DEF MemoryInv, DoneIsRemembered
    <3>3. Slot(m) = Slot(cursor)
      BY <1>7, <1>9, <3>2
    <3>4. PICK i \in 1..Len(recent) : recent[i] = m
      BY <3>1, <3>3 DEF MemoryInv, DoneIsRemembered
    <3>5. i \in 1..Len(longer)
      BY <1>4, <1>5
    <3> QED
      BY <1>5, <3>4, <3>5
  <2> QED
    BY <2>1, <2>2
<1>10. ASSUME NEW m \in done' PROVE Slot(m) <= Slot(n)
  <2>1. CASE m = n
    BY <1>7, <2>1
  <2>2. CASE m # n
    <3>1. m \in done /\ cursor # 0
      BY <1>1, <2>2 DEF MemoryInv, RecentEndsAtTheCursor
    <3>2. m \in Txs /\ Slot(m) \in Nat
      <4>1. m \in Landed /\ landed \in 0..Len(History) /\ Len(History) \in Nat
        BY <3>1, IndexerAssumption DEF IInv, Types
      <4>2. m \in Txs
        BY <4>1 DEF Landed, Txs
      <4> QED
        BY <4>2, IndexerAssumption
    <3>3. Slot(m) <= Slot(cursor) /\ Slot(cursor) <= Slot(n) /\ Slot(cursor) \in Nat
      BY <1>3, <3>1, IndexerAssumption DEF MemoryInv, DoneIsRemembered
    <3> QED
      BY <1>7, <3>2, <3>3
  <2> QED
    BY <2>1, <2>2
<1>11. Remembered(n) = IF Len(longer) > Recent THEN Tail(longer) ELSE longer
  BY DEF Remembered, longer
<1>12. CASE Len(longer) <= Recent
  <2>1. recent' = longer
    BY <1>1, <1>4, <1>5, <1>11, <1>12
  <2>2. RecentIsSorted'
    BY <1>8, <2>1 DEF RecentIsSorted
  <2>3. RecentEndsAtTheCursor'
    BY <1>1, <1>2, <1>4, <1>5, <1>12, <2>1 DEF RecentEndsAtTheCursor
  <2>4. DoneIsRemembered'
    BY <1>1, <1>9, <1>10, <2>1 DEF DoneIsRemembered
  <2> QED
    BY <2>2, <2>3, <2>4 DEF MemoryInv
<1>13. CASE ~(Len(longer) <= Recent)
  <2>1. Len(longer) = Recent + 1 /\ Len(longer) > Recent /\ longer # <<>>
    BY <1>4, <1>5, <1>13
  <2>2. /\ recent' = Tail(longer) /\ Len(recent') = Len(longer) - 1
        /\ \A i \in 1..Len(longer) - 1 : recent'[i] = longer[i + 1]
    BY <1>1, <1>5, <1>11, <2>1, TailOfASequence
  <2>3. \A i \in 1..Len(recent') : i + 1 \in 1..Len(longer) /\ recent'[i] = longer[i + 1]
    BY <1>4, <1>5, <2>2
  <2>4. RecentIsSorted'
    <3>1. ASSUME NEW i \in 1..Len(recent'), NEW j \in 1..Len(recent')
          PROVE  /\ i < j => Slot(recent'[i]) <= Slot(recent'[j])
                 /\ recent'[i] = recent'[j] => i = j
      <4>1. i \in Nat /\ j \in Nat
        BY <1>4, <1>5, <2>2
      <4>2. (i < j => i + 1 < j + 1) /\ (i + 1 = j + 1 => i = j)
        BY <4>1
      <4> QED
        BY <1>8, <2>3, <4>2
    <3> QED
      BY <3>1 DEF RecentIsSorted
  <2>5. RecentEndsAtTheCursor'
    <3>1. Len(recent') = Recent /\ Len(recent') \in 1..Len(recent') /\ Len(recent') > 0
      BY <1>4, <2>1, <2>2
    <3>2. recent'[Len(recent')] = n
      BY <1>4, <1>5, <2>2, <2>3, <3>1
    <3> QED
      BY <1>1, <1>2, <1>4, <3>1, <3>2 DEF RecentEndsAtTheCursor
  \* The first of a full memory is of an earlier slot.
  <2>6. Slot(longer[1]) # Slot(n)
    <3>1. SUFFICES ASSUME Slot(longer[1]) = Slot(n) PROVE FALSE
      OBVIOUS
    <3>2. ASSUME NEW i \in 1..Len(longer) PROVE longer[i] \in Mates(n)
      <4>1. 1 \in 1..Len(longer) /\ (i # 1 => 1 < i)
        BY <1>4, <1>5
      <4>2. Slot(longer[1]) <= Slot(longer[i])
        BY <1>7, <1>8, <4>1
      <4>3. Slot(longer[i]) <= Slot(n)
        BY <1>3, <1>6, <1>7
      <4>4. Slot(longer[i]) = Slot(n)
        BY <1>7, <3>1, <4>2, <4>3
      <4> QED
        BY <1>7, <4>4 DEF Mates
    <3> QED
      BY <1>2, <1>5, <1>8, <2>1, <3>2, NoOverflow
  <2>7. DoneIsRemembered'
    <3>1. ASSUME NEW m \in done', Slot(m) = Slot(n)
          PROVE  \E i \in 1..Len(recent') : recent'[i] = m
      <4>1. PICK i \in 1..Len(longer) : longer[i] = m
        BY <1>9, <3>1
      <4>2. i # 1
        BY <2>6, <3>1, <4>1
      <4>3. i - 1 \in 1..Len(recent') /\ recent'[i - 1] = longer[i]
        BY <1>4, <1>5, <2>2, <4>2
      <4> QED
        BY <4>1, <4>3
    <3> QED
      BY <1>1, <1>10, <3>1 DEF DoneIsRemembered
  <2> QED
    BY <2>4, <2>5, <2>7 DEF MemoryInv
<1> QED
  BY <1>12, <1>13

LEMMA NextRemembers == IInv /\ MemoryInv /\ [Next]_vars => MemoryInv'
<1> SUFFICES ASSUME IInv, MemoryInv, [Next]_vars PROVE MemoryInv'
  OBVIOUS
<1>1. CASE Boot
  BY <1>1, BootRemembers
<1>2. CASE Exit \/ Crash
  <2>1. cursor' = 0 /\ recent' = <<>> /\ done' = {}
    BY <1>2 DEF Exit, Crash, ProcessEnds
  <2> QED
    BY <2>1, MemoryForgets, IndexerAssumption
<1>3. CASE HandleOk
  BY <1>3, HandleOkRemembers
<1>4. CASE UNCHANGED <<cursor, recent, done>>
  BY <1>4, MemoryStays
<1>5. CASE Land \/ SocketOpen \/ SocketDrop \/ Deliver \/ Listen \/ Stop
  BY <1>4, <1>5 DEF Land, SocketOpen, SocketDrop, Deliver, Listen, Stop, life
<1>6. CASE PassStart \/ PassList \/ PassFetch \/ PassBreak
  BY <1>4, <1>6 DEF PassStart, PassList, PassFetch, PassBreak
<1>7. CASE Skip \/ HandleFail \/ Save
  BY <1>4, <1>7 DEF Skip, HandleFail, Save
<1>8. CASE UNCHANGED vars
  BY <1>4, <1>8 DEF vars, life
<1> QED
  BY <1>1, <1>2, <1>3, <1>5, <1>6, <1>7, <1>8 DEF Next, Process

\* cursor.ts, remember: the memory of signatures holds, once each and in slot order, what this
\* life applied in the slot of the cursor, in every reachable state.
THEOREM MemoryInvariant == Spec => []MemoryInv
<1>1. Init => MemoryInv
  BY MemoryForgets, IndexerAssumption
     DEF Init, MemoryInv, RecentIsSorted, RecentEndsAtTheCursor, DoneIsRemembered
<1>2. IInv /\ MemoryInv /\ [Next]_vars => MemoryInv'
  BY NextRemembers
<1> QED
  BY <1>1, <1>2, WorkerInvariant, PTL DEF Spec

\* For every history whose slots fit the memory: websocket and backfill may deliver a
\* transaction as often and as late as they like, its handler runs to success at most once in a
\* life of the worker (cursor.ts isBehind).
THEOREM AppliedOncePerLifeCorrect == Spec => AppliedOncePerLife
<1>1. IInv /\ MemoryInv /\ [Next]_vars => [saving' /\ ~saving => cursor' \notin done]_vars
  <2> SUFFICES ASSUME IInv, MemoryInv, Next, saving', ~saving PROVE cursor' \notin done
    OBVIOUS
  <2>1. HandleOk
    <3>1. ~(Land \/ SocketOpen \/ SocketDrop \/ Deliver)
      BY DEF Land, SocketOpen, SocketDrop, Deliver, life
    <3>2. ~(Boot \/ Listen \/ Stop \/ Exit \/ Crash)
      BY DEF Boot, Listen, Stop, Exit, Crash, ProcessEnds
    <3>3. ~(PassStart \/ PassList \/ PassFetch \/ PassBreak)
      BY DEF PassStart, PassList, PassFetch, PassBreak
    <3>4. ~(Skip \/ HandleFail \/ Save)
      BY DEF Skip, HandleFail, Save
    <3> QED
      BY <3>1, <3>2, <3>3, <3>4 DEF Next, Process
  <2>2. Head(queue).tx \in Txs
    <3>1. queue \in Seq(Jobs) /\ Len(queue) \in Nat /\ queue # <<>>
      BY <2>1 DEF IInv, Types, HandleOk
    <3>2. Head(queue) = queue[1] /\ 1 \in 1..Len(queue)
      BY <3>1, TailOfASequence
    <3>3. queue[1].tx \in Landed /\ landed \in 0..Len(History) /\ Len(History) \in Nat
      BY <3>2, IndexerAssumption DEF IInv, Types
    <3>4. queue[1].tx \in Txs
      BY <3>3 DEF Landed, Txs
    <3> QED
      BY <3>2, <3>4
  <2>3. cursor' = Head(queue).tx /\ ~Behind(Head(queue).tx)
    BY <2>1 DEF HandleOk
  <2> QED
    BY <2>2, <2>3, NewIsNotDone
<1>2. [](IInv /\ MemoryInv) /\ [][Next]_vars
        => [][saving' /\ ~saving => cursor' \notin done]_vars
  BY <1>1, PTL
<1> QED
  BY <1>2, WorkerInvariant, MemoryInvariant, PTL DEF Spec, AppliedOncePerLife

-----------------------------------------------------------------------------
(* The index as a replica of the log.                                      *)

\* As long as nothing is missed, a first job that overtakes nothing and whose transaction is
\* new takes the prefix of the log that was applied one further, and any other one takes it
\* nowhere.
LEMMA NextInTheLog ==
  ASSUME IInv, NothingMissed, queue # <<>>, Overtakes(queue[1]) = {},
         NEW k \in 0..landed, applied = 1..k
  PROVE  /\ Head(queue).tx \in 1..k + 1
         /\ Head(queue).tx \notin 1..k => Head(queue).tx = k + 1 /\ k < landed
<1> DEFINE n == queue[1].tx
<1>1. queue \in Seq(Jobs) /\ Len(queue) \in Nat /\ landed \in Nat /\ k \in Nat
  BY IndexerAssumption DEF IInv, Types
<1>2. Head(queue) = queue[1] /\ 1 \in 1..Len(queue)
  BY <1>1, TailOfASequence
<1>3. n \in Landed
  BY <1>2 DEF IInv, Types
<1>4. \A m \in Landed : m < n => m \in applied
  BY FirstIsNext DEF NothingMissed, Settled
<1> HIDE DEF n
<1>5. n \in 1..landed
  BY <1>3 DEF Landed
<1>6. n <= k + 1
  <2>1. SUFFICES ASSUME k + 1 < n PROVE FALSE
    BY <1>1, <1>5
  <2>2. k + 1 \in Landed
    BY <1>1, <1>5, <2>1 DEF Landed
  <2>3. k + 1 \in 1..k
    BY <1>4, <2>1, <2>2
  <2> QED
    BY <1>1, <2>3
<1>7. n \in 1..k + 1 /\ (n \notin 1..k => n = k + 1 /\ k < landed)
  BY <1>1, <1>5, <1>6
<1> QED
  BY <1>2, <1>7 DEF n

LEMMA InitReplica == Init => ReplicaInv
<1> SUFFICES ASSUME Init PROVE AppliedIsAPrefix
  BY DEF ReplicaInv
<1>1. applied = 1..0 /\ 0 \in 0..landed
  BY DEF Init
<1> QED
  BY <1>1 DEF AppliedIsAPrefix

LEMMA MissedGrows == IInv /\ [Next]_vars => (NothingMissed' => NothingMissed)
<1> SUFFICES ASSUME [Next]_vars, NothingMissed' PROVE NothingMissed
  OBVIOUS
<1>1. failed \subseteq failed' /\ overtaken \subseteq overtaken'
  <2>1. CASE Land \/ SocketOpen \/ SocketDrop \/ Deliver \/ Boot \/ Listen \/ Stop
    BY <2>1 DEF Land, SocketOpen, SocketDrop, Deliver, Boot, Listen, Stop, CloseSocket, net
  <2>2. CASE Exit \/ Crash
    BY <2>2 DEF Exit, Crash, ProcessEnds, CloseSocket
  <2>3. CASE PassStart \/ PassList \/ PassFetch \/ PassBreak
    BY <2>3 DEF PassStart, PassList, PassFetch, PassBreak, net
  <2>4. CASE Process
    BY <2>4 DEF Process, Skip, HandleOk, HandleFail, Save, net
  <2>5. CASE UNCHANGED vars
    BY <2>5 DEF vars, net
  <2> QED
    BY <2>1, <2>2, <2>3, <2>4, <2>5 DEF Next
<1> QED
  BY <1>1 DEF NothingMissed

\* What of a step the replica sees: a transaction landed, one was copied or taken again, or
\* nothing.
LEMMA ReplicaStep ==
  ASSUME IInv, NothingMissed, NothingMissed', [Next]_vars, NEW k \in 0..landed, applied = 1..k
  PROVE  \/ /\ landed < Len(History) /\ landed' = landed + 1
            /\ applied' = 1..k /\ index' = index
         \/ /\ k < landed /\ landed' = landed
            /\ applied' = 1..k + 1 /\ index' = Apply(index, History[k + 1])
         \/ /\ landed' = landed /\ applied' = 1..k
            /\ \E n \in 1..k : index' = Apply(index, History[n])
         \/ landed' = landed /\ applied' = 1..k /\ index' = index
<1>1. CASE Land
  BY <1>1 DEF Land
<1>2. CASE HandleOk
  <2> DEFINE n == Head(queue).tx
  <2>1. /\ queue # <<>> /\ index' = Apply(index, History[n])
        /\ applied' = applied \cup {n} /\ landed' = landed
    BY <1>2 DEF HandleOk, net
  <2>2. n \in 1..k + 1 /\ (n \notin 1..k => n = k + 1 /\ k < landed)
    <3>1. Overtakes(Head(queue)) = {}
      BY <1>2 DEF HandleOk, NothingMissed
    <3>2. Head(queue) = queue[1]
      BY <2>1, TailOfASequence DEF IInv, Types
    <3> QED
      BY <2>1, <3>1, <3>2, NextInTheLog
  <2>3. k \in Nat
    BY IndexerAssumption DEF IInv, Types
  <2> HIDE DEF n
  <2>4. CASE n \in 1..k
    BY <2>1, <2>4
  <2>5. CASE n \notin 1..k
    <3>1. n = k + 1 /\ k < landed /\ 1..k \cup {k + 1} = 1..k + 1
      BY <2>2, <2>3, <2>5
    <3> QED
      BY <2>1, <3>1
  <2> QED
    BY <2>4, <2>5
<1>3. CASE UNCHANGED <<landed, applied, index>>
  BY <1>3
<1>4. CASE SocketOpen \/ SocketDrop \/ Deliver \/ Boot \/ Listen \/ Stop \/ Exit \/ Crash
  BY <1>3, <1>4 DEF SocketOpen, SocketDrop, Deliver, Boot, Listen, Stop, Exit, Crash,
                    ProcessEnds, net
<1>5. CASE PassStart \/ PassList \/ PassFetch \/ PassBreak
  BY <1>3, <1>5 DEF PassStart, PassList, PassFetch, PassBreak, net
<1>6. CASE Skip \/ HandleFail \/ Save
  BY <1>3, <1>6 DEF Skip, HandleFail, Save, net
<1>7. CASE UNCHANGED vars
  BY <1>3, <1>7 DEF vars, net
<1> QED
  BY <1>1, <1>2, <1>4, <1>5, <1>6, <1>7 DEF Next, Process

LEMMA NextReplica == IInv /\ ReplicaInv /\ [Next]_vars => ReplicaInv'
<1> SUFFICES ASSUME IInv, ReplicaInv, [Next]_vars, NothingMissed' PROVE AppliedIsAPrefix'
  BY DEF ReplicaInv
<1>1. NothingMissed
  BY MissedGrows
<1>2. PICK k \in 0..landed : applied = 1..k
  BY <1>1 DEF ReplicaInv, AppliedIsAPrefix
<1>3. landed \in Nat /\ k \in Nat
  BY IndexerAssumption DEF IInv, Types
<1>4. \/ landed' = landed + 1 /\ applied' = 1..k
      \/ k < landed /\ landed' = landed /\ applied' = 1..k + 1
      \/ landed' = landed /\ applied' = 1..k
  BY <1>1, <1>2, ReplicaStep
<1>5. \E j \in 0..landed' : applied' = 1..j
  <2>1. CASE applied' = 1..k /\ (landed' = landed + 1 \/ landed' = landed)
    BY <1>3, <2>1
  <2>2. CASE k < landed /\ landed' = landed /\ applied' = 1..k + 1
    BY <1>3, <2>2
  <2> QED
    BY <1>4, <2>1, <2>2
<1> QED
  BY <1>5 DEF AppliedIsAPrefix

\* As long as no handler fails and no push overtakes what it should not, what was applied is a
\* prefix of the log, through every restart, failed save and broken pass.
THEOREM AppliedStaysAPrefix == Spec => [](NothingMissed => AppliedIsAPrefix)
<1>1. Init => ReplicaInv
  BY InitReplica
<1>2. IInv /\ ReplicaInv /\ [Next]_vars => ReplicaInv'
  BY NextReplica
<1> QED
  BY <1>1, <1>2, WorkerInvariant, PTL DEF Spec, ReplicaInv

LEMMA CardinalityOfAPrefix ==
  ASSUME NEW k \in Nat
  PROVE  Cardinality(1..k) = k
BY FS_Interval

\* The index implements the abstract replica of the log in every step, as long as no handler
\* fails and no push overtakes a transaction: it takes the transactions one after the other, skips
\* none, and at most takes one again that it took before.
THEOREM IndexIsAReplica ==
  Spec /\ []NothingMissed
    => Replica!ReplicaInit /\ [][Replica!ReplicaNext]_(Replica!replicaVars)
<1>1. Init => Replica!ReplicaInit
  <2> SUFFICES ASSUME Init PROVE Replica!ReplicaInit
    OBVIOUS
  <2>1. landed = 0 /\ applied = {} /\ index = EmptyIndex
    BY DEF Init
  <2>2. Cardinality(applied) = 0
    BY <2>1, FS_EmptySet
  <2> QED
    BY <2>1, <2>2 DEF Replica!ReplicaInit
<1>2. IInv /\ ReplicaInv /\ NothingMissed /\ NothingMissed' /\ [Next]_vars
        => [Replica!ReplicaNext]_(Replica!replicaVars)
  <2> SUFFICES ASSUME IInv, ReplicaInv, NothingMissed, NothingMissed', [Next]_vars
               PROVE  Replica!ReplicaNext \/ UNCHANGED Replica!replicaVars
    OBVIOUS
  <2>1. PICK k \in 0..landed : applied = 1..k
    BY DEF ReplicaInv, AppliedIsAPrefix
  <2>2. landed \in Nat /\ k \in Nat /\ k + 1 \in Nat
    BY <2>1, IndexerAssumption DEF IInv, Types
  <2>3. Cardinality(1..k) = k /\ Cardinality(1..k + 1) = k + 1
    BY <2>2, CardinalityOfAPrefix
  <2>4. CASE /\ landed < Len(History) /\ landed' = landed + 1
             /\ applied' = 1..k /\ index' = index
    BY <2>1, <2>3, <2>4 DEF Replica!ReplicaNext, Replica!TxLands
  <2>5. CASE /\ k < landed /\ landed' = landed
             /\ applied' = 1..k + 1 /\ index' = Apply(index, History[k + 1])
    <3>1. Cardinality(applied) = k /\ Cardinality(applied)' = k + 1
      BY <2>1, <2>3, <2>5
    <3>2. Replica!TxIsCopied
      BY <2>5, <3>1 DEF Replica!TxIsCopied
    <3> QED
      BY <3>2 DEF Replica!ReplicaNext
  <2>6. CASE /\ landed' = landed /\ applied' = 1..k
             /\ \E n \in 1..k : index' = Apply(index, History[n])
    <3>1. Cardinality(applied) = k /\ Cardinality(applied)' = k
      BY <2>1, <2>3, <2>6
    <3>2. Replica!TxIsTakenAgain
      BY <2>6, <3>1 DEF Replica!TxIsTakenAgain
    <3> QED
      BY <3>2 DEF Replica!ReplicaNext
  <2>7. CASE landed' = landed /\ applied' = 1..k /\ index' = index
    BY <2>1, <2>3, <2>7 DEF Replica!replicaVars
  <2> QED
    BY <2>1, <2>4, <2>5, <2>6, <2>7, ReplicaStep
<1> QED
  BY <1>1, <1>2, WorkerInvariant, AppliedStaysAPrefix, PTL DEF Spec, ReplicaInv
=============================================================================
