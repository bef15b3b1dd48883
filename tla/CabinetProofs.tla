---------------------------- MODULE CabinetProofs ----------------------------
(***************************************************************************)
(* The cabinet misses no contribution and loses, doubles or forgets no     *)
(* job: for any number of contributions and workers, any page size, any    *)
(* order of arrival and any failures.  The invariant says where each job   *)
(* is, what is on its way between the page and a worker, and what a walk   *)
(* over the pages has still to read.                                       *)
(***************************************************************************)
EXTENDS Cabinet, FiniteSetTheorems, SequenceTheorems, TLAPS

Messages == Sigs \cup {"init"}
Replies == Sigs \cup {"ready", "error"}

Has(seq, x) == \E i \in DOMAIN seq : seq[i] = x

CabinetTypes ==
  /\ pool \in {"off", "on"} /\ slots \subseteq Slots /\ ready \subseteq Slots
  /\ current \in [Slots -> Sigs \cup {None}] /\ queue \in Seq(Sigs)
  /\ promise \in [Sigs -> {"none", "waiting", "resolved", "rejected"}]
  /\ module \in [Slots -> {"loading", "running", "dead"}] /\ key \subseteq Slots
  /\ inbox \in [Slots -> Seq(Messages)]
  /\ outbox \in [Slots -> Seq(Replies)]
  /\ index \subseteq Sigs /\ since \subseteq index
  /\ walk \in {"idle", "reading"} /\ cursor \in Sigs \cup {None}
  /\ got \in Seq(Sigs) /\ items \in Seq(Sigs)
  /\ effect \in {"due", "run"} /\ subscribed \subseteq Sigs /\ recovered \subseteq Sigs

\* Each job is in one place, at one live worker or once in the queue, when the slots are at
\* work on `cur` and the jobs of `waiting` wait.
InPlace(cur, waiting) ==
  /\ \A s \in Slots : cur[s] # None => s \in slots
  /\ \A s, t \in Slots : cur[s] # None /\ cur[s] = cur[t] => s = t
  /\ \A i, j \in DOMAIN waiting : waiting[i] = waiting[j] => i = j
  /\ \A s \in Slots : ~Has(waiting, cur[s])
Placed(cur, waiting, g) == (\E s \in Slots : cur[s] = g) \/ Has(waiting, g)

\* The open promises are those of the jobs in place.
JobsInPlace ==
  /\ InPlace(current, queue)
  /\ \A g \in Sigs : promise[g] = "waiting" <=> Placed(current, queue, g)

\* No job is read before the key.
KeyFirst(box, s, known) ==
  \A i \in DOMAIN box : box[i] # "init" => s \in known \/ \E j \in 1..i - 1 : box[j] = "init"

\* What is between the page and worker s.
WorkerKnows(s) ==
  /\ current[s] # None =>
       Has(inbox[s], current[s]) \/ Has(outbox[s], current[s]) \/ Has(outbox[s], "error")
  /\ KeyFirst(inbox[s], s, key)
  /\ s \in ready /\ module[s] = "running" => s \in key \/ Has(inbox[s], "init")
  /\ s \in ready \/ Has(outbox[s], "ready") => module[s] # "loading"
  /\ module[s] = "dead" => Has(outbox[s], "error") /\ inbox[s] = <<>>

\* The rows read so far go down to the cursor, and what was there before is among them or
\* still to come.
Descending(rows) == \A i, j \in DOMAIN rows : i < j => Key[rows[j]] < Key[rows[i]]
WalkInv ==
  /\ Descending(items)
  /\ walk = "reading" =>
       /\ Descending(got)
       /\ cursor = None => got = <<>>
       /\ cursor # None => got # <<>> /\ got[Len(got)] = cursor
       /\ \A g \in since : Has(got, g) \/ g \in After(cursor)

CabinetInv ==
  /\ CabinetTypes
  /\ JobsInPlace
  /\ \A s \in slots : WorkerKnows(s)
  /\ WalkInv
  /\ NoAmountIsMissed

-----------------------------------------------------------------------------
(* Order by counting.                                                      *)

\* The places of a finite set are the numbers from one to its size, each taken once.
LEMMA Places ==
  ASSUME NEW S, IsFiniteSet(S), NEW f \in [S -> Int],
         \A x, y \in S : f[x] = f[y] => x = y
  PROVE  /\ Cardinality(S) \in Nat
         /\ \A x \in S : Place(f, x) \in 1..Cardinality(S)
         /\ \A x, y \in S : f[x] < f[y] => Place(f, x) < Place(f, y)
         /\ \A x, y \in S : Place(f, x) = Place(f, y) => x = y
         /\ \A i \in 1..Cardinality(S) : \E x \in S : Place(f, x) = i
<1> DEFINE n == Cardinality(S)
           upTo(x) == {y \in S : f[y] <= f[x]}
<1>1. n \in Nat
  BY FS_CardinalityType
<1>2. ASSUME NEW x \in S
      PROVE  /\ Place(f, x) = Cardinality(upTo(x)) /\ IsFiniteSet(upTo(x))
             /\ Place(f, x) \in 1..n
  <2>1. Place(f, x) = Cardinality(upTo(x))
    BY DEF Place
  <2>2. upTo(x) \in SUBSET S /\ x \in upTo(x)
    BY <1>2
  <2> HIDE DEF upTo
  <2>3. IsFiniteSet(upTo(x)) /\ Cardinality(upTo(x)) <= n
    BY <2>2, FS_Subset
  <2>4. Cardinality(upTo(x)) \in Nat /\ Cardinality(upTo(x)) # 0
    BY <2>2, <2>3, FS_CardinalityType, FS_EmptySet
  <2> QED
    BY <1>1, <2>1, <2>3, <2>4
<1>3. ASSUME NEW x \in S, NEW y \in S, f[x] < f[y] PROVE Place(f, x) < Place(f, y)
  <2>1. upTo(x) \in SUBSET upTo(y) /\ y \in upTo(y) /\ y \notin upTo(x)
    BY <1>3
  <2>2. IsFiniteSet(upTo(y)) /\ Place(f, x) = Cardinality(upTo(x))
        /\ Place(f, y) = Cardinality(upTo(y))
        /\ Place(f, x) \in 1..n /\ Place(f, y) \in 1..n
    BY <1>2
  <2> HIDE DEF upTo
  <2>3. Cardinality(upTo(x)) <= Cardinality(upTo(y))
        /\ Cardinality(upTo(x)) # Cardinality(upTo(y))
    BY <2>1, <2>2, FS_Subset
  <2> QED
    BY <1>1, <2>2, <2>3
<1>4. ASSUME NEW x \in S, NEW y \in S, Place(f, x) = Place(f, y) PROVE x = y
  <2>1. f[x] \in Int /\ f[y] \in Int /\ Place(f, x) \in 1..n
    BY <1>2
  <2> HIDE DEF n
  <2>2. ~(f[x] < f[y]) /\ ~(f[y] < f[x])
    <3>1. f[x] < f[y] => Place(f, x) < Place(f, y)
      BY <1>3
    <3>2. f[y] < f[x] => Place(f, y) < Place(f, x)
      BY <1>3
    <3>3. Place(f, x) \in Int
      BY <1>1, <2>1
    <3> QED
      BY <1>4, <3>1, <3>2, <3>3
  <2> QED
    BY <2>1, <2>2
<1>5. ASSUME NEW i \in 1..n PROVE \E x \in S : Place(f, x) = i
  <2> DEFINE place == [x \in S |-> Place(f, x)]
  <2>1. place \in [S -> 1..n] /\ \A x, y \in S : place[x] = place[y] => x = y
    BY <1>2, <1>4
  <2>2. place \in Injection(S, 1..n)
    BY <2>1, Zenon DEF Injection, IsInjective
  <2>3. IsFiniteSet(1..n) /\ Cardinality(1..n) = n
    BY <1>1, FS_Interval
  <2>4. place \in Surjection(S, 1..n)
    BY <2>2, <2>3, FS_Injection
  <2>5. PICK x \in S : place[x] = i
    BY <2>4 DEF Surjection
  <2> QED
    BY <2>5
<1> QED
  BY <1>1, <1>2, <1>3, <1>4, <1>5

\* The ordered list of a set holds each member once, in order.
LEMMA OrderedList ==
  ASSUME NEW S, IsFiniteSet(S), NEW f \in [S -> Int],
         \A x, y \in S : f[x] = f[y] => x = y
  PROVE  /\ Cardinality(S) \in Nat
         /\ Ordered(f) \in [1..Cardinality(S) -> S]
         /\ Ordered(f) \in Seq(S) /\ Len(Ordered(f)) = Cardinality(S)
         /\ \A x \in S : Place(f, x) \in 1..Cardinality(S) /\ Ordered(f)[Place(f, x)] = x
         /\ \A i \in 1..Cardinality(S) : Place(f, Ordered(f)[i]) = i
         /\ \A i, j \in 1..Cardinality(S) : i < j => f[Ordered(f)[i]] < f[Ordered(f)[j]]
<1> DEFINE n == Cardinality(S)
           list == Ordered(f)
<1>1. n \in Nat
  BY FS_CardinalityType
<1>2. /\ \A x \in S : Place(f, x) \in 1..n
      /\ \A x, y \in S : f[x] < f[y] => Place(f, x) < Place(f, y)
      /\ \A x, y \in S : Place(f, x) = Place(f, y) => x = y
      /\ \A i \in 1..n : \E x \in S : Place(f, x) = i
  BY Places
<1>3. DOMAIN f = S
  OBVIOUS
<1>4. list = [i \in 1..n |-> CHOOSE x \in S : Place(f, x) = i]
  BY <1>3 DEF Ordered
<1>5. \A i \in 1..n : list[i] \in S /\ Place(f, list[i]) = i
  BY <1>2, <1>4
<1>6. list \in [1..n -> S]
  BY <1>4, <1>5
<1> HIDE DEF list, n
<1>7. list \in Seq(S) /\ Len(list) = n
  BY <1>1, <1>6
<1>8. \A x \in S : list[Place(f, x)] = x
  BY <1>2, <1>5
<1>9. ASSUME NEW i \in 1..n, NEW j \in 1..n, i < j PROVE f[list[i]] < f[list[j]]
  <2>1. list[i] \in S /\ list[j] \in S /\ Place(f, list[i]) = i /\ Place(f, list[j]) = j
    BY <1>5
  <2>2. f[list[i]] \in Int /\ f[list[j]] \in Int
    BY <2>1
  <2>3. ~(f[list[j]] < f[list[i]])
    BY <1>1, <1>2, <1>9, <2>1
  <2>4. f[list[i]] # f[list[j]]
    BY <1>1, <1>9, <2>1
  <2> QED
    BY <2>2, <2>3, <2>4
<1> QED
  BY <1>1, <1>2, <1>5, <1>6, <1>7, <1>8, <1>9 DEF list, n

\* What is kept of a list of jobs is a list of jobs: those in the set, none twice.
LEMMA KeptJobs ==
  ASSUME NEW jobs \in Seq(Sigs), NEW set
  PROVE  /\ Kept(jobs, set) \in Seq(Sigs)
         /\ \A g : Has(Kept(jobs, set), g) <=> g \in set /\ Has(jobs, g)
         /\ (\A i, j \in DOMAIN jobs : jobs[i] = jobs[j] => i = j)
              => \A i, j \in DOMAIN Kept(jobs, set) :
                   Kept(jobs, set)[i] = Kept(jobs, set)[j] => i = j
<1> DEFINE A == {j \in DOMAIN jobs : jobs[j] \in set}
           f == [i \in A |-> i]
           at == Ordered(f)
           n == Cardinality(A)
           kept == Kept(jobs, set)
<1>1. DOMAIN jobs = 1..Len(jobs) /\ Len(jobs) \in Nat /\ A \in SUBSET (1..Len(jobs))
  OBVIOUS
<1>2. IsFiniteSet(A)
  <2>1. IsFiniteSet(1..Len(jobs))
    BY <1>1, FS_Interval
  <2> HIDE DEF A
  <2> QED
    BY <1>1, <2>1, FS_Subset
<1>3. f \in [A -> Int] /\ \A x, y \in A : f[x] = f[y] => x = y
  BY <1>1
<1>4. kept = [i \in DOMAIN at |-> jobs[at[i]]]
  BY DEF Kept
<1>5. \A i \in A : jobs[i] \in Sigs /\ jobs[i] \in set /\ i \in DOMAIN jobs
  OBVIOUS
<1>6. \A i \in DOMAIN jobs : jobs[i] \in set => i \in A
  OBVIOUS
<1> HIDE DEF A, f
<1>7. /\ n \in Nat /\ at \in [1..n -> A]
      /\ \A x \in A : Place(f, x) \in 1..n /\ at[Place(f, x)] = x
      /\ \A i \in 1..n : Place(f, at[i]) = i
  BY <1>2, <1>3, OrderedList
<1> HIDE DEF at, n, kept
<1>8. kept \in [1..n -> Sigs]
  BY <1>4, <1>5, <1>7
<1>9. kept \in Seq(Sigs) /\ DOMAIN kept = 1..n
  BY <1>7, <1>8
<1>10. ASSUME NEW g PROVE Has(kept, g) <=> g \in set /\ Has(jobs, g)
  <2>1. ASSUME Has(kept, g) PROVE g \in set /\ Has(jobs, g)
    <3>1. PICK i \in 1..n : kept[i] = g
      BY <1>9, <2>1 DEF Has
    <3>2. at[i] \in A /\ g = jobs[at[i]]
      BY <1>4, <1>7, <3>1
    <3> QED
      BY <1>5, <3>2 DEF Has
  <2>2. ASSUME g \in set, Has(jobs, g) PROVE Has(kept, g)
    <3>1. PICK i \in DOMAIN jobs : jobs[i] = g
      BY <2>2 DEF Has
    <3>2. i \in A
      BY <1>6, <2>2, <3>1
    <3>3. Place(f, i) \in 1..n /\ kept[Place(f, i)] = g
      BY <1>4, <1>7, <3>1, <3>2
    <3> QED
      BY <1>9, <3>3 DEF Has
  <2> QED
    BY <2>1, <2>2
<1>11. ASSUME \A i, j \in DOMAIN jobs : jobs[i] = jobs[j] => i = j,
              NEW i \in DOMAIN kept, NEW j \in DOMAIN kept, kept[i] = kept[j]
       PROVE  i = j
  <2>1. i \in 1..n /\ j \in 1..n /\ jobs[at[i]] = jobs[at[j]]
    BY <1>4, <1>7, <1>9, <1>11
  <2>2. at[i] \in DOMAIN jobs /\ at[j] \in DOMAIN jobs
    BY <1>5, <1>7, <2>1
  <2>3. at[i] = at[j]
    BY <1>11, <2>1, <2>2
  <2> QED
    BY <1>7, <2>1, <2>3
<1> QED
  BY <1>9, <1>10, <1>11 DEF kept

-----------------------------------------------------------------------------
(* pump: each waiting job goes to one free slot or stays where it is.      *)

\* The first k waiting jobs are taken, each by one free slot.
LEMMA TakingIs ==
  ASSUME slots \subseteq Slots, NEW rdy, NEW cur, NEW waiting \in Seq(Sigs)
  PROVE  LET taking == Taking(rdy, cur, waiting)
             k == Cardinality(DOMAIN taking)
         IN  /\ DOMAIN taking \subseteq Free(rdy, cur)
             /\ k \in Nat /\ k <= Len(waiting)
             /\ \A s \in DOMAIN taking : \E i \in 1..k : taking[s] = waiting[i]
             /\ \A i \in 1..k : \E s \in DOMAIN taking : taking[s] = waiting[i]
             /\ (\A i, j \in DOMAIN waiting : waiting[i] = waiting[j] => i = j)
                  => \A s, t \in DOMAIN taking : taking[s] = taking[t] => s = t
<1> DEFINE F == Free(rdy, cur)
           f == [s \in F |-> s]
           n == Cardinality(F)
           dom == {t \in F : Place(f, t) <= Len(waiting)}
           taking == Taking(rdy, cur, waiting)
           most == IF n <= Len(waiting) THEN n ELSE Len(waiting)
<1>1. Slots \subseteq Int /\ IsFiniteSet(Slots)
  BY CabinetAssumption, FS_Interval DEF Slots
<1>2. F \in SUBSET Slots
  BY DEF Free
<1>3. IsFiniteSet(F)
  BY <1>1, <1>2, FS_Subset
<1>4. f \in [F -> Int] /\ \A x, y \in F : f[x] = f[y] => x = y
  BY <1>1, <1>2
<1>5. taking = [s \in dom |-> waiting[Place(f, s)]]
  BY DEF Taking
<1> HIDE DEF F, f, taking
<1>6. /\ n \in Nat
      /\ \A x \in F : Place(f, x) \in 1..n
      /\ \A x, y \in F : Place(f, x) = Place(f, y) => x = y
      /\ \A i \in 1..n : \E x \in F : Place(f, x) = i
  BY <1>3, <1>4, Places
<1> HIDE DEF n
<1>7. most \in Nat /\ most <= Len(waiting) /\ most <= n /\ Len(waiting) \in Nat
      /\ DOMAIN waiting = 1..Len(waiting)
  BY <1>6
<1>8. \A s \in dom : Place(f, s) \in 1..most
  BY <1>6, <1>7
<1>9. ASSUME NEW i \in 1..most PROVE \E s \in dom : Place(f, s) = i
  BY <1>6, <1>7
<1>10. DOMAIN taking = dom /\ dom \in SUBSET F
  BY <1>5
<1>11. \A s \in dom : s \in F
  OBVIOUS
<1> HIDE DEF most, dom
<1>12. Cardinality(dom) = most
  <2> DEFINE place == [s \in dom |-> Place(f, s)]
  <2>1. place \in [dom -> 1..most] /\ \A x, y \in dom : place[x] = place[y] => x = y
    BY <1>6, <1>8, <1>11
  <2>2. place \in Injection(dom, 1..most)
    BY <2>1, Zenon DEF Injection, IsInjective
  <2>3. \A i \in 1..most : \E s \in dom : place[s] = i
    BY <1>9
  <2>4. place \in Surjection(dom, 1..most)
    BY <2>1, <2>3 DEF Surjection
  <2>5. IsFiniteSet(1..most) /\ Cardinality(1..most) = most
    BY <1>7, FS_Interval
  <2> HIDE DEF place
  <2> QED
    BY <2>2, <2>4, <2>5, FS_Injection
<1>13. \A s \in DOMAIN taking : \E i \in 1..most : taking[s] = waiting[i]
  BY <1>5, <1>8, <1>10
<1>14. \A i \in 1..most : \E s \in DOMAIN taking : taking[s] = waiting[i]
  BY <1>5, <1>9, <1>10
<1>15. ASSUME \A i, j \in DOMAIN waiting : waiting[i] = waiting[j] => i = j,
              NEW s \in DOMAIN taking, NEW t \in DOMAIN taking, taking[s] = taking[t]
       PROVE  s = t
  <2>1. Place(f, s) \in DOMAIN waiting /\ Place(f, t) \in DOMAIN waiting
        /\ waiting[Place(f, s)] = waiting[Place(f, t)]
    BY <1>5, <1>7, <1>8, <1>10, <1>15
  <2>2. Place(f, s) = Place(f, t)
    BY <1>15, <2>1
  <2> QED
    BY <1>6, <1>10, <1>11, <2>2
<1> QED
  BY <1>7, <1>10, <1>12, <1>13, <1>14, <1>15 DEF taking, F

LEMMA PumpPlaces ==
  ASSUME slots \subseteq Slots, NEW rdy, NEW cur \in [Slots -> Sigs \cup {None}],
         NEW waiting \in Seq(Sigs), NEW first, Pump(rdy, cur, waiting, first),
         InPlace(cur, waiting)
  PROVE  /\ current' \in [Slots -> Sigs \cup {None}] /\ queue' \in Seq(Sigs)
         /\ InPlace(current', queue')
         /\ \A g \in Sigs : Placed(current', queue', g) <=> Placed(cur, waiting, g)
<1> DEFINE taking == Taking(rdy, cur, waiting)
           k == Cardinality(DOMAIN taking)
           cur2 == [s \in Slots |-> IF s \in DOMAIN taking THEN taking[s] ELSE cur[s]]
           queue2 == SubSeq(waiting, k + 1, Len(waiting))
<1>1. current' = cur2 /\ queue' = queue2
  BY DEF Pump
<1>2. /\ DOMAIN taking \subseteq Free(rdy, cur)
      /\ k \in Nat /\ k <= Len(waiting)
      /\ \A s \in DOMAIN taking : \E i \in 1..k : taking[s] = waiting[i]
      /\ \A i \in 1..k : \E s \in DOMAIN taking : taking[s] = waiting[i]
      /\ \A s, t \in DOMAIN taking : taking[s] = taking[t] => s = t
  BY TakingIs DEF InPlace
<1>3. \A s \in DOMAIN taking : s \in slots /\ s \in Slots /\ cur[s] = None
  BY <1>2 DEF Free
<1>4. Len(waiting) \in Nat /\ DOMAIN waiting = 1..Len(waiting)
      /\ \A i \in 1..Len(waiting) : waiting[i] \in Sigs
  OBVIOUS
<1> HIDE DEF taking
<1>5. /\ queue2 \in Seq(Sigs) /\ DOMAIN queue2 = 1..(Len(waiting) - k)
      /\ \A i \in 1..(Len(waiting) - k) : queue2[i] = waiting[k + i]
  <2>1. k \in Nat /\ k <= Len(waiting)
    BY <1>2
  <2> HIDE DEF k
  <2>2. /\ queue2 \in Seq(Sigs) /\ Len(queue2) = (Len(waiting) - (k + 1)) + 1
        /\ \A i \in 1..Len(queue2) : queue2[i] = waiting[((k + 1) + i) - 1]
    BY <1>4, <2>1
  <2>3. (Len(waiting) - (k + 1)) + 1 = Len(waiting) - k
    BY <1>4, <2>1
  <2>4. \A i \in 1..(Len(waiting) - k) : ((k + 1) + i) - 1 = k + i
    BY <2>1
  <2> HIDE DEF queue2
  <2> QED
    BY <2>2, <2>3, <2>4
<1> HIDE DEF k
<1>6. /\ \A s \in DOMAIN taking : cur2[s] = taking[s]
      /\ \A s \in Slots : s \notin DOMAIN taking => cur2[s] = cur[s]
      /\ \A s \in DOMAIN taking : \E i \in 1..k : cur2[s] = waiting[i] /\ i \in DOMAIN waiting
      /\ cur2 \in [Slots -> Sigs \cup {None}]
  BY <1>2, <1>3, <1>4
<1> HIDE DEF cur2, queue2
<1>7. None \notin Sigs
  BY SigsAreSigs
<1>8. \A s \in DOMAIN taking : cur2[s] # None /\ Has(waiting, cur2[s])
  BY <1>4, <1>6, <1>7 DEF Has
<1>9. \A s \in Slots : cur2[s] # None => s \in slots
  BY <1>3, <1>6, <1>8 DEF InPlace
<1>10. ASSUME NEW s \in Slots, NEW t \in Slots, cur2[s] # None, cur2[s] = cur2[t]
       PROVE  s = t
  <2>1. CASE s \in DOMAIN taking /\ t \in DOMAIN taking
    BY <1>2, <1>6, <1>10, <2>1
  <2>2. CASE s \notin DOMAIN taking /\ t \notin DOMAIN taking
    BY <1>6, <1>10, <2>2 DEF InPlace
  <2>3. CASE s \in DOMAIN taking /\ t \notin DOMAIN taking
    BY <1>6, <1>8, <1>10, <2>3 DEF InPlace
  <2>4. CASE s \notin DOMAIN taking /\ t \in DOMAIN taking
    BY <1>6, <1>8, <1>10, <2>4 DEF InPlace
  <2> QED
    BY <2>1, <2>2, <2>3, <2>4
<1>11. \A i \in 1..(Len(waiting) - k) : k + i \in DOMAIN waiting /\ k + i \notin 1..k
  BY <1>2, <1>4
<1>12. ASSUME NEW i \in DOMAIN queue2, NEW j \in DOMAIN queue2, queue2[i] = queue2[j]
       PROVE  i = j
  <2>1. i \in 1..(Len(waiting) - k) /\ j \in 1..(Len(waiting) - k)
        /\ waiting[k + i] = waiting[k + j]
    BY <1>5, <1>12
  <2>2. k + i = k + j
    BY <1>11, <2>1 DEF InPlace
  <2> QED
    BY <1>2, <2>1, <2>2
<1>13. ASSUME NEW s \in Slots, Has(queue2, cur2[s]) PROVE FALSE
  <2>1. PICK i \in 1..(Len(waiting) - k) : waiting[k + i] = cur2[s]
    BY <1>5, <1>13 DEF Has
  <2>2. CASE s \in DOMAIN taking
    <3>1. PICK j \in 1..k : cur2[s] = waiting[j] /\ j \in DOMAIN waiting
      BY <1>6, <2>2
    <3>2. k + i = j
      BY <1>11, <2>1, <3>1 DEF InPlace
    <3> QED
      BY <1>11, <2>1, <3>1, <3>2
  <2>3. CASE s \notin DOMAIN taking
    <3>1. Has(waiting, cur[s])
      BY <1>6, <1>11, <2>1, <2>3 DEF Has
    <3> QED
      BY <3>1 DEF InPlace
  <2> QED
    BY <2>2, <2>3
<1>14. ASSUME NEW g \in Sigs PROVE Placed(cur2, queue2, g) <=> Placed(cur, waiting, g)
  <2>1. ASSUME NEW s \in Slots, cur2[s] = g PROVE Placed(cur, waiting, g)
    BY <1>6, <1>8, <2>1 DEF Placed
  <2>2. ASSUME Has(queue2, g) PROVE Has(waiting, g)
    BY <1>5, <1>11, <2>2 DEF Has
  <2>3. ASSUME NEW s \in Slots, cur[s] = g PROVE cur2[s] = g
    BY <1>3, <1>6, <1>7, <2>3
  <2>4. ASSUME Has(waiting, g) PROVE Placed(cur2, queue2, g)
    <3>1. PICK i \in 1..Len(waiting) : waiting[i] = g
      BY <1>4, <2>4 DEF Has
    <3>2. CASE i <= k
      <4>1. i \in 1..k
        BY <1>2, <1>4, <3>1, <3>2
      <4>2. PICK s \in DOMAIN taking : taking[s] = g
        BY <1>2, <3>1, <4>1
      <4> QED
        BY <1>3, <1>6, <4>2 DEF Placed
    <3>3. CASE ~(i <= k)
      <4>1. i - k \in 1..(Len(waiting) - k) /\ k + (i - k) = i
        BY <1>2, <1>4, <3>1, <3>3
      <4>2. queue2[i - k] = g
        BY <1>5, <3>1, <4>1
      <4> QED
        BY <1>5, <4>1, <4>2 DEF Placed, Has
    <3> QED
      BY <3>2, <3>3
  <2> QED
    BY <2>1, <2>2, <2>3, <2>4 DEF Placed
<1>15. InPlace(cur2, queue2)
  BY <1>9, <1>10, <1>12, <1>13 DEF InPlace
<1> QED
  BY <1>1, <1>5, <1>6, <1>14, <1>15

-----------------------------------------------------------------------------
(* Messages.                                                               *)

\* What is posted comes behind what is there: nothing is lost, and a key that was posted
\* before stays in front.
LEMMA PostedBehind ==
  ASSUME NEW box \in Seq(Messages), NEW more \in Seq(Messages)
  PROVE  LET new == box \o more
         IN  /\ new \in Seq(Messages)
             /\ \A x : Has(new, x) <=> Has(box, x) \/ Has(more, x)
             /\ \A s, known :
                  KeyFirst(box, s, known)
                  /\ (s \in known \/ Has(box, "init") \/ KeyFirst(more, s, known))
                    => KeyFirst(new, s, known)
<1> DEFINE new == box \o more
           m == Len(box)
           n == Len(more)
<1>1. /\ new \in Seq(Messages) /\ Len(new) = m + n /\ m \in Nat /\ n \in Nat
      /\ \A i \in 1..m + n : new[i] = IF i <= m THEN box[i] ELSE more[i - m]
      /\ DOMAIN box = 1..m /\ DOMAIN more = 1..n /\ DOMAIN new = 1..m + n
  BY ConcatProperties
<1> HIDE DEF new, m, n
<1>2. \A i \in 1..m : i \in 1..m + n /\ new[i] = box[i]
  BY <1>1
<1>3. ASSUME NEW i \in 1..n PROVE m + i \in 1..m + n /\ new[m + i] = more[i]
  <2>1. m + i \in 1..m + n /\ ~(m + i <= m) /\ (m + i) - m = i
    BY <1>1
  <2> QED
    BY <1>1, <2>1
<1>4. ASSUME NEW i \in 1..m + n, i \notin 1..m
      PROVE  i - m \in 1..n /\ m + (i - m) = i /\ new[i] = more[i - m]
  <2>1. i - m \in 1..n /\ m + (i - m) = i /\ ~(i <= m)
    BY <1>1, <1>4
  <2> QED
    BY <1>1, <2>1
<1>5. ASSUME NEW x PROVE Has(new, x) <=> Has(box, x) \/ Has(more, x)
  <2>1. ASSUME Has(new, x) PROVE Has(box, x) \/ Has(more, x)
    <3>1. PICK i \in 1..m + n : new[i] = x
      BY <1>1, <2>1 DEF Has
    <3> QED
      BY <1>1, <1>2, <1>4, <3>1 DEF Has
  <2>2. ASSUME Has(box, x) PROVE Has(new, x)
    BY <1>1, <1>2, <2>2 DEF Has
  <2>3. ASSUME Has(more, x) PROVE Has(new, x)
    BY <1>1, <1>3, <2>3 DEF Has
  <2> QED
    BY <2>1, <2>2, <2>3
<1>6. ASSUME NEW s, NEW known, KeyFirst(box, s, known),
             s \in known \/ Has(box, "init") \/ KeyFirst(more, s, known)
      PROVE  KeyFirst(new, s, known)
  <2> SUFFICES ASSUME NEW i \in 1..m + n, new[i] # "init", s \notin known
               PROVE  \E j \in 1..i - 1 : new[j] = "init"
    BY <1>1 DEF KeyFirst
  <2>1. CASE i \in 1..m
    <3>1. PICK j \in 1..i - 1 : box[j] = "init"
      BY <1>1, <1>2, <1>6, <2>1 DEF KeyFirst
    <3>2. j \in 1..m
      BY <1>1, <2>1
    <3> QED
      BY <1>2, <3>1, <3>2
  <2>2. CASE i \notin 1..m /\ Has(box, "init")
    <3>1. PICK j \in 1..m : box[j] = "init"
      BY <1>1, <2>2 DEF Has
    <3>2. j \in 1..i - 1
      BY <1>1, <2>2
    <3> QED
      BY <1>2, <3>1, <3>2
  <2>3. CASE i \notin 1..m /\ KeyFirst(more, s, known)
    <3>1. i - m \in 1..n /\ more[i - m] # "init"
      BY <1>4, <2>3
    <3>2. PICK j \in 1..(i - m) - 1 : more[j] = "init"
      BY <1>1, <2>3, <3>1 DEF KeyFirst
    <3>3. j \in 1..n /\ m + j \in 1..i - 1
      BY <1>1, <3>1
    <3> QED
      BY <1>3, <3>2, <3>3
  <2> QED
    BY <1>6, <2>1, <2>2, <2>3
<1> QED
  BY <1>1, <1>5, <1>6 DEF new

\* What a pump posts to one worker: the key, or not, and then a job, or not.
LEMMA PumpMessages ==
  ASSUME NEW first \in {<<>>, <<"init">>}, NEW g, NEW job,
         job = <<>> \/ (job = <<g>> /\ g \in Sigs)
  PROVE  LET more == first \o job
         IN  /\ more \in Seq(Messages)
             /\ first = <<"init">> => Has(more, "init")
             /\ job = <<g>> => Has(more, g)
             /\ \A s, known : first = <<"init">> \/ job = <<>> => KeyFirst(more, s, known)
<1> DEFINE more == first \o job
<1>1. first \in Seq(Messages)
  <2>1. <<>> \in Seq(Messages) /\ <<"init">> \in Seq(Messages)
    BY DEF Messages
  <2> QED
    BY <2>1, Zenon
<1>2. job \in Seq(Messages)
  <2>1. <<>> \in Seq(Messages) /\ (g \in Sigs => <<g>> \in Seq(Messages))
    BY DEF Messages
  <2> QED
    BY <2>1, Zenon
<1>3. first = <<"init">> => Has(first, "init")
  <2>1. Has(<<"init">>, "init")
    BY DEF Has
  <2> QED
    BY <2>1
<1>4. job = <<g>> => Has(job, g)
  <2>1. Has(<<g>>, g)
    BY DEF Has
  <2> QED
    BY <2>1
<1>5. ASSUME NEW s, NEW known
      PROVE  KeyFirst(first, s, known) /\ (job = <<>> => KeyFirst(job, s, known))
  <2>1. KeyFirst(<<>>, s, known)
    BY DEF KeyFirst
  <2>2. KeyFirst(<<"init">>, s, known)
    BY DEF KeyFirst
  <2> QED
    BY <2>1, <2>2
<1>6. /\ more \in Seq(Messages)
      /\ \A x : Has(more, x) <=> Has(first, x) \/ Has(job, x)
      /\ \A s, known :
           KeyFirst(first, s, known)
           /\ (s \in known \/ Has(first, "init") \/ KeyFirst(job, s, known))
             => KeyFirst(more, s, known)
  BY <1>1, <1>2, PostedBehind
<1> HIDE DEF more
<1>7. \A s, known : first = <<"init">> \/ job = <<>> => KeyFirst(more, s, known)
  BY <1>3, <1>5, <1>6, Zenon
<1>8. /\ first = <<"init">> => Has(more, "init")
      /\ job = <<g>> => Has(more, g)
  BY <1>3, <1>4, <1>6, Zenon
<1> QED
  BY <1>6, <1>7, <1>8 DEF more

\* What a worker knows before a pump, it knows after it, and about its new job as well.
LEMMA PumpKnows ==
  ASSUME CabinetTypes, NEW rdy, NEW cur \in [Slots -> Sigs \cup {None}],
         NEW waiting \in Seq(Sigs), NEW first, Pump(rdy, cur, waiting, first),
         module' = module, key' = key, NEW s \in slots, first[s] \in {<<>>, <<"init">>},
         cur[s] # None => \/ Has(inbox[s], cur[s])
                          \/ Has(outbox'[s], cur[s]) \/ Has(outbox'[s], "error"),
         KeyFirst(inbox[s], s, key),
         s \in rdy /\ module[s] = "running"
           => s \in key \/ Has(inbox[s], "init") \/ first[s] = <<"init">>,
         s \in rdy \/ Has(outbox'[s], "ready") => module[s] # "loading",
         module[s] = "dead" => Has(outbox'[s], "error") /\ inbox[s] = <<>>
  PROVE  WorkerKnows(s)' /\ inbox'[s] \in Seq(Messages)
<1> DEFINE taking == Taking(rdy, cur, waiting)
           job == IF s \in DOMAIN taking THEN <<taking[s]>> ELSE <<>>
<1>0. s \in Slots /\ slots \subseteq Slots /\ inbox[s] \in Seq(Messages)
      /\ module[s] \in {"loading", "running", "dead"}
  BY DEF CabinetTypes, Messages
<1>1. /\ ready' = rdy
      /\ current'[s] = IF s \in DOMAIN taking THEN taking[s] ELSE cur[s]
      /\ inbox'[s] = IF module[s] = "running" THEN inbox[s] \o (first[s] \o job) ELSE inbox[s]
  BY <1>0 DEF Pump, Post
<1>2. s \in DOMAIN taking => s \in rdy /\ taking[s] \in Sigs
  <2>1. DOMAIN taking \subseteq Free(rdy, cur)
        /\ Cardinality(DOMAIN taking) <= Len(waiting) /\ Cardinality(DOMAIN taking) \in Nat
        /\ \A t \in DOMAIN taking : \E i \in 1..Cardinality(DOMAIN taking) : taking[t] = waiting[i]
    BY <1>0, TakingIs
  <2>2. Len(waiting) \in Nat /\ \A i \in 1..Len(waiting) : waiting[i] \in Sigs
    OBVIOUS
  <2> HIDE DEF taking
  <2>3. ASSUME s \in DOMAIN taking PROVE taking[s] \in Sigs
    <3>1. PICK i \in 1..Cardinality(DOMAIN taking) : taking[s] = waiting[i]
      BY <2>1, <2>3
    <3>2. i \in 1..Len(waiting)
      BY <2>1, <2>2, <3>1
    <3> QED
      BY <2>2, <3>1, <3>2
  <2> QED
    BY <2>1, <2>3 DEF Free
<1> HIDE DEF taking
<1>3. /\ inbox'[s] \in Seq(Messages) /\ KeyFirst(inbox'[s], s, key)
      /\ \A x : Has(inbox[s], x) => Has(inbox'[s], x)
      /\ module[s] = "running" /\ first[s] = <<"init">> => Has(inbox'[s], "init")
      /\ module[s] = "running" /\ s \in DOMAIN taking => Has(inbox'[s], taking[s])
  <2>1. CASE module[s] = "running"
    <3>1. inbox'[s] = inbox[s] \o (first[s] \o job)
      BY <1>1, <2>1
    <3>2. /\ s \in DOMAIN taking => job = <<taking[s]>> /\ taking[s] \in Sigs /\ s \in rdy
          /\ s \notin DOMAIN taking => job = <<>>
      BY <1>2
    <3>3. job # <<>> => s \in key \/ Has(inbox[s], "init") \/ first[s] = <<"init">>
      BY <2>1, <3>2
    <3>4. job = <<>> \/ (job = <<taking[s]>> /\ taking[s] \in Sigs)
      BY <3>2
    <3> HIDE DEF job
    <3> DEFINE more == first[s] \o job
    <3>5. /\ more \in Seq(Messages)
          /\ first[s] = <<"init">> => Has(more, "init")
          /\ job = <<taking[s]>> => Has(more, taking[s])
          /\ first[s] = <<"init">> \/ job = <<>> => KeyFirst(more, s, key)
      BY <3>4, PumpMessages
    <3> HIDE DEF more
    <3>6. LET new == inbox[s] \o more
          IN  /\ new \in Seq(Messages)
              /\ \A x : Has(new, x) <=> Has(inbox[s], x) \/ Has(more, x)
              /\ KeyFirst(inbox[s], s, key)
                  /\ (s \in key \/ Has(inbox[s], "init") \/ KeyFirst(more, s, key))
                    => KeyFirst(new, s, key)
      BY <1>0, <3>5, PostedBehind
    <3>7. inbox'[s] = inbox[s] \o more
      BY <3>1 DEF more
    <3>8. KeyFirst(more, s, key) \/ s \in key \/ Has(inbox[s], "init")
      BY <3>3, <3>5, Zenon
    <3> QED
      BY <3>2, <3>5, <3>6, <3>7, <3>8, Zenon
  <2>2. CASE module[s] # "running"
    BY <1>0, <1>1, <2>2
  <2> QED
    BY <2>1, <2>2
<1>4. current'[s] # None =>
        Has(inbox'[s], current'[s]) \/ Has(outbox'[s], current'[s]) \/ Has(outbox'[s], "error")
  <2>1. CASE s \in DOMAIN taking
    <3>1. current'[s] = taking[s] /\ s \in rdy /\ module[s] # "loading"
      BY <1>1, <1>2, <2>1
    <3>2. module[s] = "running" => Has(inbox'[s], taking[s])
      BY <1>3, <2>1, Zenon
    <3>3. module[s] = "dead" => Has(outbox'[s], "error")
      OBVIOUS
    <3> QED
      BY <1>0, <3>1, <3>2, <3>3, Zenon
  <2>2. CASE s \notin DOMAIN taking
    <3>1. current'[s] = cur[s]
      BY <1>1, <2>2
    <3> QED
      BY <1>3, <3>1, Zenon
  <2> QED
    BY <2>1, <2>2
<1>5. s \in rdy /\ module[s] = "running" => s \in key \/ Has(inbox'[s], "init")
  BY <1>3, Zenon
<1>6. module[s] = "dead" => inbox'[s] = <<>>
  BY <1>1
<1> QED
  BY <1>1, <1>3, <1>4, <1>5, <1>6 DEF WorkerKnows

-----------------------------------------------------------------------------
(* The pages.                                                              *)

\* The rows of a query are the newest ones after the cursor, newest first.
LEMMA RowsAre ==
  ASSUME CabinetTypes, NEW c, NEW limit \in Nat
  PROVE  /\ Rows(c, limit) \in Seq(Sigs) /\ Len(Rows(c, limit)) <= limit
         /\ Descending(Rows(c, limit))
         /\ \A i \in DOMAIN Rows(c, limit) : Rows(c, limit)[i] \in After(c)
         /\ \A g \in After(c) :
              \/ Has(Rows(c, limit), g)
              \/ /\ Len(Rows(c, limit)) = limit
                 /\ \A i \in DOMAIN Rows(c, limit) : Key[g] < Key[Rows(c, limit)[i]]
<1> DEFINE S == After(c)
           f == [g \in S |-> 0 - Key[g]]
           n == Cardinality(S)
           all == Ordered(f)
           rows == Rows(c, limit)
<1>1. /\ S \subseteq Sigs /\ IsFiniteSet(S)
      /\ \A g \in Sigs : Key[g] \in Nat
      /\ \A g, h \in Sigs : Key[g] = Key[h] => g = h
  <2>1. S \in SUBSET Sigs
    BY DEF After, CabinetTypes
  <2>2. IsFiniteSet(S)
    BY <2>1, CabinetAssumption, FS_Subset
  <2> QED
    BY <2>1, <2>2, CabinetAssumption DEF IsInjective
<1> HIDE DEF S
<1>2. f \in [S -> Int] /\ \A x, y \in S : f[x] = f[y] => x = y
  <2>1. \A x \in S : f[x] = 0 - Key[x] /\ Key[x] \in Nat
    BY <1>1
  <2>2. f \in [S -> Int]
    BY <1>1
  <2> QED
    BY <1>1, <2>1, <2>2
<1>3. \A x, y \in S : f[x] < f[y] => Key[y] < Key[x]
  BY <1>1
<1>4. rows = SubSeq(all, 1, IF Len(all) < limit THEN Len(all) ELSE limit)
  BY DEF Rows, S
<1> HIDE DEF f
<1>5. /\ n \in Nat /\ all \in Seq(S) /\ Len(all) = n /\ all \in [1..n -> S]
      /\ \A x \in S : Place(f, x) \in 1..n /\ all[Place(f, x)] = x
      /\ \A i, j \in 1..n : i < j => f[all[i]] < f[all[j]]
  BY <1>1, <1>2, OrderedList
<1> HIDE DEF all, n, rows
<1> DEFINE m == IF n < limit THEN n ELSE limit
<1>6. /\ rows \in Seq(Sigs) /\ Len(rows) = m /\ DOMAIN rows = 1..m
      /\ \A i \in 1..m : rows[i] = all[i] /\ i \in 1..n /\ all[i] \in S
  <2>1. m \in Nat /\ m <= n /\ \A i \in 1..m : i \in 1..n
    BY <1>5
  <2>2. rows = SubSeq(all, 1, m)
    BY <1>4, <1>5
  <2>3. \A i \in 1..m : all[i] \in S
    BY <1>5, <2>1
  <2> HIDE DEF m
  <2>4. rows \in Seq(S) /\ Len(rows) = m /\ \A i \in 1..m : rows[i] = all[i]
    BY <1>5, <2>1, <2>2
  <2> QED
    BY <1>1, <2>1, <2>3, <2>4
<1>7. m \in Nat /\ m <= limit /\ m <= n /\ (m < n => m = limit)
  BY <1>5
<1> HIDE DEF m
<1>8. Descending(rows)
  BY <1>3, <1>5, <1>6 DEF Descending
<1>9. ASSUME NEW g \in S
      PROVE  \/ Has(rows, g)
             \/ Len(rows) = limit /\ \A i \in DOMAIN rows : Key[g] < Key[rows[i]]
  <2>1. Place(f, g) \in 1..n /\ all[Place(f, g)] = g
    BY <1>5
  <2>2. CASE Place(f, g) \in 1..m
    BY <1>6, <2>1, <2>2 DEF Has
  <2>3. CASE Place(f, g) \notin 1..m
    <3>1. m < Place(f, g) /\ m < n
      BY <1>5, <1>7, <2>1, <2>3
    <3>2. \A i \in 1..m : f[all[i]] < f[g]
      BY <1>5, <1>6, <2>1, <3>1
    <3> QED
      BY <1>3, <1>6, <1>7, <3>1, <3>2
  <2> QED
    BY <2>2, <2>3
<1> QED
  BY <1>6, <1>7, <1>8, <1>9 DEF rows, S

\* A page holds the next rows; its cursor is its last row, and what is not in it comes after.
LEMMA PageIs ==
  ASSUME CabinetTypes, NEW c
  PROVE  LET read == PageOf(c)
         IN  /\ read.rows \in Seq(Sigs) /\ Descending(read.rows)
             /\ \A i \in DOMAIN read.rows : read.rows[i] \in After(c)
             /\ read.next = None => \A g \in After(c) : Has(read.rows, g)
             /\ read.next # None =>
                  /\ read.rows # <<>> /\ read.next \in Sigs
                  /\ read.rows[Len(read.rows)] = read.next
                  /\ \A g \in After(c) : Has(read.rows, g) \/ Key[g] < Key[read.next]
<1> DEFINE rows == Rows(c, PageLimit + 1)
           more == Len(rows) > PageLimit
           read == PageOf(c)
           front == Front(rows)
<1>1. PageLimit \in Nat \ {0} /\ PageLimit + 1 \in Nat
  BY CabinetAssumption
<1>2. /\ rows \in Seq(Sigs) /\ Len(rows) <= PageLimit + 1
      /\ Descending(rows) /\ \A i \in DOMAIN rows : rows[i] \in After(c)
      /\ \A g \in After(c) :
           \/ Has(rows, g)
           \/ /\ Len(rows) = PageLimit + 1
              /\ \A i \in DOMAIN rows : Key[g] < Key[rows[i]]
  BY <1>1, RowsAre
<1>3. /\ read.rows = IF more THEN front ELSE rows
      /\ read.next = IF more THEN rows[PageLimit] ELSE None
  BY DEF PageOf
<1> HIDE DEF rows, read
<1>4. DOMAIN rows = 1..Len(rows) /\ Len(rows) \in Nat /\ Len(rows) <= PageLimit + 1
  BY <1>2
<1> DEFINE l == Len(rows)
<1> HIDE DEF l
<1>10. /\ more => l = PageLimit + 1
       /\ ~more => l # PageLimit + 1
  <2>1. ASSUME NEW a \in Nat, NEW b \in Nat, a <= b + 1 PROVE a > b <=> a = b + 1
    BY <2>1
  <2>2. Len(rows) \in Nat /\ PageLimit \in Nat /\ Len(rows) <= PageLimit + 1
    BY <1>1, <1>4
  <2>3. Len(rows) > PageLimit <=> Len(rows) = PageLimit + 1
    BY <2>1, <2>2
  <2> QED
    BY <2>3 DEF l
<1>5. CASE ~more
  <2>1. \A g \in After(c) : Has(rows, g)
    BY <1>2, <1>5, <1>10, Zenon DEF l
  <2> QED
    BY <1>2, <1>3, <1>5, <2>1 DEF read
<1>6. CASE more
  <2>1. Len(rows) = PageLimit + 1
    BY <1>6, <1>10, Zenon DEF l
  <2>2. front = SubSeq(rows, 1, PageLimit)
    <3>1. Len(rows) - 1 = PageLimit
      BY <1>1, <2>1
    <3> QED
      BY <3>1 DEF Front
  <2>3. \A i \in 1..PageLimit : i \in DOMAIN rows /\ rows[i] \in Sigs
    BY <1>1, <1>2, <1>4, <2>1
  <2>4. /\ front \in Seq(Sigs) /\ Len(front) = PageLimit /\ DOMAIN front = 1..PageLimit
        /\ \A i \in 1..PageLimit : front[i] = rows[i]
    BY <1>1, <1>2, <2>1, <2>2, <2>3
  <2> HIDE DEF front
  <2>5. Descending(front) /\ \A i \in DOMAIN front : front[i] \in After(c)
    BY <1>2, <2>3, <2>4 DEF Descending
  <2>6. /\ PageLimit \in 1..PageLimit /\ PageLimit \in DOMAIN rows
        /\ PageLimit + 1 \in DOMAIN rows /\ PageLimit < PageLimit + 1
    BY <1>1, <1>4, <2>1
  <2>7. ASSUME NEW g \in After(c) PROVE Has(front, g) \/ Key[g] < Key[rows[PageLimit]]
    <3>1. CASE Has(rows, g)
      <4>1. PICK i \in DOMAIN rows : rows[i] = g
        BY <3>1 DEF Has
      <4>2. CASE i \in 1..PageLimit
        BY <2>4, <4>1, <4>2 DEF Has
      <4>3. CASE i = PageLimit + 1
        BY <1>2, <2>6, <4>1, <4>3 DEF Descending
      <4> QED
        BY <1>1, <1>4, <2>1, <4>1, <4>2, <4>3
    <3>2. CASE ~Has(rows, g)
      BY <1>2, <2>6, <3>2
    <3> QED
      BY <3>1, <3>2
  <2>8. rows[PageLimit] \in Sigs /\ rows[PageLimit] # None
    BY <2>3, <2>6, SigsAreSigs
  <2>9. read.rows = front /\ read.next = rows[PageLimit]
    BY <1>3, <1>6
  <2>10. front # <<>> /\ front[Len(front)] = rows[PageLimit]
    BY <1>1, <2>4, <2>6
  <2> QED
    BY <2>4, <2>5, <2>7, <2>8, <2>9, <2>10 DEF read
<1> QED
  BY <1>5, <1>6

-----------------------------------------------------------------------------
(* A message is taken from the front of a box and put at its end.          *)

LEMMA TakenFromBox ==
  ASSUME NEW S, NEW box \in Seq(S), box # <<>>
  PROVE  /\ Tail(box) \in Seq(S) /\ Head(box) \in S /\ Has(box, Head(box))
         /\ \A x : Has(Tail(box), x) => Has(box, x)
         /\ \A x : Has(box, x) /\ x # Head(box) => Has(Tail(box), x)
<1> DEFINE rest == Tail(box)
           n == Len(box)
<1>1. /\ n \in Nat /\ n >= 1 /\ DOMAIN box = 1..n /\ Head(box) = box[1] /\ Head(box) \in S
      /\ rest \in Seq(S) /\ DOMAIN rest = 1..n - 1
      /\ \A i \in 1..n - 1 : rest[i] = box[i + 1]
  OBVIOUS
<1> HIDE DEF rest, n
<1>2. 1 \in 1..n /\ \A i \in 1..n - 1 : i + 1 \in 1..n
  BY <1>1
<1>3. \A i \in 1..n : i # 1 => i - 1 \in 1..n - 1 /\ (i - 1) + 1 = i
  BY <1>1
<1>4. ASSUME NEW x, Has(rest, x) PROVE Has(box, x)
  BY <1>1, <1>2, <1>4 DEF Has
<1>5. ASSUME NEW x, Has(box, x), x # Head(box) PROVE Has(rest, x)
  <2>1. PICK i \in 1..n : box[i] = x
    BY <1>1, <1>5 DEF Has
  <2>2. i # 1
    BY <1>1, <1>5, <2>1
  <2>3. i - 1 \in DOMAIN rest /\ rest[i - 1] = x
    BY <1>1, <1>3, <2>1, <2>2
  <2> QED
    BY <2>3 DEF Has
<1>6. Has(box, Head(box))
  BY <1>1, <1>2 DEF Has
<1> QED
  BY <1>1, <1>4, <1>5, <1>6 DEF rest

LEMMA PutInBox ==
  ASSUME NEW S, NEW box \in Seq(S), NEW e \in S
  PROVE  /\ Append(box, e) \in Seq(S)
         /\ Has(Append(box, e), e)
         /\ \A x : Has(box, x) => Has(Append(box, e), x)
         /\ \A x : Has(Append(box, e), x) => Has(box, x) \/ x = e
<1> DEFINE new == Append(box, e)
           n == Len(box)
<1>1. /\ n \in Nat /\ DOMAIN box = 1..n
      /\ new \in Seq(S) /\ DOMAIN new = 1..n + 1
      /\ \A i \in 1..n : new[i] = box[i]
      /\ new[n + 1] = e
  OBVIOUS
<1> HIDE DEF new, n
<1>2. n + 1 \in 1..n + 1 /\ (\A i \in 1..n : i \in 1..n + 1)
      /\ \A i \in 1..n + 1 : i \in 1..n \/ i = n + 1
  BY <1>1
<1>3. Has(new, e) /\ \A x : Has(box, x) => Has(new, x)
  BY <1>1, <1>2 DEF Has
<1>4. \A x : Has(new, x) => Has(box, x) \/ x = e
  BY <1>1, <1>2 DEF Has
<1> QED
  BY <1>1, <1>3, <1>4 DEF new

\* The worker takes the key first.
LEMMA KeyTaken ==
  ASSUME NEW box \in Seq(Messages), box # <<>>, NEW s, NEW known, KeyFirst(box, s, known)
  PROVE  /\ Head(box) = "init" => KeyFirst(Tail(box), s, known \cup {s})
         /\ Head(box) # "init" => s \in known /\ KeyFirst(Tail(box), s, known)
<1>1. Head(box) = box[1] /\ 1 \in DOMAIN box
  OBVIOUS
<1>2. KeyFirst(Tail(box), s, known \cup {s})
  BY DEF KeyFirst
<1>3. ASSUME Head(box) # "init" PROVE s \in known
  <2>1. s \in known \/ \E j \in 1..1 - 1 : box[j] = "init"
    BY <1>1, <1>3 DEF KeyFirst
  <2> QED
    BY <2>1
<1>4. s \in known => KeyFirst(Tail(box), s, known)
  BY DEF KeyFirst
<1> QED
  BY <1>2, <1>3, <1>4

\* The messages that a pump posts are messages.
LEMMA PumpTypes ==
  ASSUME CabinetTypes, NEW rdy, NEW cur, NEW waiting \in Seq(Sigs), NEW first,
         \A s \in Slots : first[s] \in {<<>>, <<"init">>}, Pump(rdy, cur, waiting, first)
  PROVE  ready' = rdy /\ inbox' \in [Slots -> Seq(Messages)]
<1> DEFINE taking == Taking(rdy, cur, waiting)
           job(s) == IF s \in DOMAIN taking THEN <<taking[s]>> ELSE <<>>
<1>1. ready' = rdy /\ inbox' = [s \in Slots |-> Post(inbox, s, first[s] \o job(s))]
  BY DEF Pump
<1>2. slots \subseteq Slots /\ \A s \in Slots : inbox[s] \in Seq(Messages)
  BY DEF CabinetTypes
<1>3. \A s \in DOMAIN taking : taking[s] \in Sigs
  <2>1. Cardinality(DOMAIN taking) <= Len(waiting) /\ Cardinality(DOMAIN taking) \in Nat
        /\ \A t \in DOMAIN taking : \E i \in 1..Cardinality(DOMAIN taking) : taking[t] = waiting[i]
    BY <1>2, TakingIs
  <2>2. Len(waiting) \in Nat /\ \A i \in 1..Len(waiting) : waiting[i] \in Sigs
    OBVIOUS
  <2> HIDE DEF taking
  <2>3. \A i \in 1..Cardinality(DOMAIN taking) : i \in 1..Len(waiting)
    BY <2>1, <2>2
  <2> QED
    BY <2>1, <2>2, <2>3
<1> HIDE DEF taking
<1>4. \A s : job(s) = <<>> \/ (job(s) = <<taking[s]>> /\ taking[s] \in Sigs)
  BY <1>3
<1> HIDE DEF job
<1>5. ASSUME NEW s \in Slots PROVE Post(inbox, s, first[s] \o job(s)) \in Seq(Messages)
  <2>1. first[s] \in {<<>>, <<"init">>}
    OBVIOUS
  <2>2. first[s] \o job(s) \in Seq(Messages)
    BY <1>4, <2>1, PumpMessages
  <2>3. inbox[s] \in Seq(Messages)
    BY <1>2
  <2> DEFINE more == first[s] \o job(s)
  <2> HIDE DEF more
  <2>4. inbox[s] \o more \in Seq(Messages)
    BY <2>2, <2>3, PostedBehind DEF more
  <2> QED
    BY <2>3, <2>4 DEF Post, more
<1> QED
  BY <1>1, <1>5

-----------------------------------------------------------------------------
(* What a step leaves alone stays true.                                    *)

LEMMA JobsFrame ==
  ASSUME JobsInPlace, UNCHANGED <<slots, current, queue, promise>>
  PROVE  JobsInPlace'
BY DEF JobsInPlace, InPlace, Placed, Has

LEMMA WorkerFrame ==
  ASSUME NEW s, WorkerKnows(s), current'[s] = current[s], inbox'[s] = inbox[s],
         outbox'[s] = outbox[s], module'[s] = module[s],
         s \in key => s \in key', s \in ready' => s \in ready
  PROVE  WorkerKnows(s)'
BY DEF WorkerKnows, KeyFirst, Has

LEMMA WalkFrame ==
  ASSUME WalkInv, UNCHANGED <<index, walk, cursor, got, since, items>>
  PROVE  WalkInv'
BY DEF WalkInv, Descending, Has, After

LEMMA AmountsFrame ==
  ASSUME NoAmountIsMissed, UNCHANGED <<pool, effect, items, recovered, promise, subscribed>>
  PROVE  NoAmountIsMissed'
BY DEF NoAmountIsMissed

\* Jobs that are nowhere yet are put behind the queue.
LEMMA QueueGrows ==
  ASSUME NEW cur, NEW waiting \in Seq(Sigs), NEW more \in Seq(Sigs), InPlace(cur, waiting),
         \A i, j \in DOMAIN more : more[i] = more[j] => i = j,
         \A s \in Slots : ~Has(more, cur[s]), \A g : ~(Has(waiting, g) /\ Has(more, g))
  PROVE  LET jobs == waiting \o more
         IN  /\ jobs \in Seq(Sigs) /\ InPlace(cur, jobs)
             /\ \A g : Placed(cur, jobs, g) <=> Placed(cur, waiting, g) \/ Has(more, g)
<1> DEFINE jobs == waiting \o more
           m == Len(waiting)
           n == Len(more)
<1>1. /\ jobs \in Seq(Sigs) /\ Len(jobs) = m + n /\ m \in Nat /\ n \in Nat
      /\ \A i \in 1..m + n : jobs[i] = IF i <= m THEN waiting[i] ELSE more[i - m]
      /\ DOMAIN waiting = 1..m /\ DOMAIN more = 1..n /\ DOMAIN jobs = 1..m + n
  BY ConcatProperties
<1> HIDE DEF jobs, m, n
<1>2. \A i \in 1..m : i \in 1..m + n /\ jobs[i] = waiting[i]
  BY <1>1
<1>3. ASSUME NEW i \in 1..n PROVE m + i \in 1..m + n /\ jobs[m + i] = more[i]
  <2>1. m + i \in 1..m + n /\ ~(m + i <= m) /\ (m + i) - m = i
    BY <1>1
  <2> QED
    BY <1>1, <2>1
<1>4. ASSUME NEW i \in 1..m + n, i \notin 1..m
      PROVE  i - m \in 1..n /\ m + (i - m) = i /\ jobs[i] = more[i - m]
  <2>1. i - m \in 1..n /\ m + (i - m) = i /\ ~(i <= m)
    BY <1>1, <1>4
  <2> QED
    BY <1>1, <2>1
<1>5. ASSUME NEW g PROVE Has(jobs, g) <=> Has(waiting, g) \/ Has(more, g)
  <2>1. ASSUME Has(jobs, g) PROVE Has(waiting, g) \/ Has(more, g)
    <3>1. PICK i \in 1..m + n : jobs[i] = g
      BY <1>1, <2>1 DEF Has
    <3> QED
      BY <1>1, <1>2, <1>4, <3>1 DEF Has
  <2>2. ASSUME Has(waiting, g) PROVE Has(jobs, g)
    BY <1>1, <1>2, <2>2 DEF Has
  <2>3. ASSUME Has(more, g) PROVE Has(jobs, g)
    BY <1>1, <1>3, <2>3 DEF Has
  <2> QED
    BY <2>1, <2>2, <2>3
<1>6. ASSUME NEW i \in 1..m + n, NEW j \in 1..m + n, jobs[i] = jobs[j] PROVE i = j
  <2>1. CASE i \in 1..m /\ j \in 1..m
    BY <1>1, <1>2, <1>6, <2>1 DEF InPlace
  <2>2. CASE i \notin 1..m /\ j \notin 1..m
    <3>1. /\ i - m \in DOMAIN more /\ j - m \in DOMAIN more
          /\ m + (i - m) = i /\ m + (j - m) = j
          /\ more[i - m] = more[j - m]
      BY <1>1, <1>4, <1>6, <2>2
    <3>2. i - m = j - m
      BY <3>1, Zenon
    <3> QED
      BY <3>1, <3>2, Zenon
  <2>3. ASSUME NEW a \in 1..m + n, NEW b \in 1..m + n, a \in 1..m, b \notin 1..m,
               jobs[a] = jobs[b]
        PROVE  FALSE
    <3>1. a \in DOMAIN waiting /\ waiting[a] = jobs[a]
      BY <1>1, <1>2, <2>3
    <3>2. b - m \in DOMAIN more /\ more[b - m] = jobs[a]
      BY <1>1, <1>4, <2>3
    <3> QED
      BY <3>1, <3>2, Zenon DEF Has
  <2> QED
    BY <1>6, <2>1, <2>2, <2>3
<1>7. InPlace(cur, jobs)
  BY <1>1, <1>5, <1>6 DEF InPlace
<1> QED
  BY <1>1, <1>5, <1>7 DEF Placed, jobs

-----------------------------------------------------------------------------
(* The walk.                                                               *)

LEMMA InitCabinetInv == Init => CabinetInv
<1> SUFFICES ASSUME Init PROVE CabinetInv
  OBVIOUS
<1>1. CabinetTypes
  BY DEF Init, CabinetTypes, Slots
<1>2. JobsInPlace
  BY SigsAreSigs DEF Init, JobsInPlace, InPlace, Placed, Has
<1>3. \A s \in slots : WorkerKnows(s)
  BY DEF Init
<1>4. WalkInv
  BY DEF Init, WalkInv, Descending
<1>5. NoAmountIsMissed
  BY DEF Init, NoAmountIsMissed
<1> QED
  BY <1>1, <1>2, <1>3, <1>4, <1>5 DEF CabinetInv

LEMMA ContributeKeeps == CabinetInv /\ Contribute => CabinetInv'
<1> SUFFICES ASSUME CabinetInv, Contribute PROVE CabinetInv'
  OBVIOUS
<1> USE DEF CabinetInv, Contribute, page, browser, query, screen
<1>1. CabinetTypes'
  BY DEF CabinetTypes
<1>2. JobsInPlace'
  BY JobsFrame
<1>3. ASSUME NEW s \in slots' PROVE WorkerKnows(s)'
  BY WorkerFrame
<1>4. WalkInv'
  BY DEF WalkInv, Descending, Has, After
<1>5. NoAmountIsMissed'
  BY AmountsFrame
<1> QED
  BY <1>1, <1>2, <1>3, <1>4, <1>5

LEMMA StartWalkKeeps == CabinetInv /\ StartWalk => CabinetInv'
<1> SUFFICES ASSUME CabinetInv, StartWalk PROVE CabinetInv'
  OBVIOUS
<1> USE DEF CabinetInv, StartWalk, page, browser, screen
<1>1. CabinetTypes'
  BY DEF CabinetTypes
<1>2. JobsInPlace'
  BY JobsFrame
<1>3. ASSUME NEW s \in slots' PROVE WorkerKnows(s)'
  BY WorkerFrame
<1>4. WalkInv'
  BY DEF WalkInv, Descending, Has, After, CabinetTypes
<1>5. NoAmountIsMissed'
  BY AmountsFrame
<1> QED
  BY <1>1, <1>2, <1>3, <1>4, <1>5

LEMMA WalkFailsKeeps == CabinetInv /\ WalkFails => CabinetInv'
<1> SUFFICES ASSUME CabinetInv, WalkFails PROVE CabinetInv'
  OBVIOUS
<1> USE DEF CabinetInv, WalkFails, page, browser, screen
<1>1. CabinetTypes'
  BY DEF CabinetTypes
<1>2. JobsInPlace'
  BY JobsFrame
<1>3. ASSUME NEW s \in slots' PROVE WorkerKnows(s)'
  BY WorkerFrame
<1>4. WalkInv'
  BY DEF WalkInv, Descending
<1>5. NoAmountIsMissed'
  BY AmountsFrame
<1> QED
  BY <1>1, <1>2, <1>3, <1>4, <1>5

\* The rows of the next page go behind those that were read, and what is left of the rows
\* that were there when the walk began comes after the new cursor.
LEMMA WalkOn ==
  ASSUME CabinetTypes, WalkInv, walk = "reading"
  PROVE  LET read == PageOf(cursor)
             rows == got \o read.rows
         IN  /\ rows \in Seq(Sigs) /\ Descending(rows)
             /\ read.next = None => \A g \in since : Has(rows, g)
             /\ read.next # None =>
                  /\ rows # <<>> /\ read.next \in Sigs /\ rows[Len(rows)] = read.next
                  /\ \A g \in since : Has(rows, g) \/ (g \in index /\ Key[g] < Key[read.next])
<1> DEFINE read == PageOf(cursor)
           more == read.rows
           next == read.next
           rows == got \o more
           m == Len(got)
           n == Len(more)
<1>1. /\ more \in Seq(Sigs) /\ Descending(more)
      /\ \A i \in DOMAIN more : more[i] \in After(cursor)
      /\ next = None => \A g \in After(cursor) : Has(more, g)
      /\ next # None =>
           /\ more # <<>> /\ next \in Sigs /\ more[Len(more)] = next
           /\ \A g \in After(cursor) : Has(more, g) \/ Key[g] < Key[next]
  BY PageIs
<1>2. /\ Descending(got) /\ got \in Seq(Sigs)
      /\ cursor = None => got = <<>>
      /\ cursor # None => got # <<>> /\ got[Len(got)] = cursor
      /\ \A g \in since : Has(got, g) \/ g \in After(cursor)
  BY DEF WalkInv, CabinetTypes
<1>3. since \subseteq index /\ \A g \in After(cursor) : cursor # None => Key[g] < Key[cursor]
  BY DEF CabinetTypes, After
<1> HIDE DEF read, more, next
<1>4. /\ rows \in Seq(Sigs) /\ Len(rows) = m + n /\ m \in Nat /\ n \in Nat
      /\ \A i \in 1..m + n : rows[i] = IF i <= m THEN got[i] ELSE more[i - m]
      /\ DOMAIN got = 1..m /\ DOMAIN more = 1..n /\ DOMAIN rows = 1..m + n
      /\ (got = <<>> <=> m = 0) /\ (more = <<>> <=> n = 0) /\ (rows = <<>> <=> m + n = 0)
  BY <1>1, <1>2, ConcatProperties, EmptySeq
<1>5. \A i \in 1..m : got[i] \in Sigs
  BY <1>2
<1>6. \A i \in 1..n : more[i] \in Sigs
  BY <1>1
<1> HIDE DEF rows, m, n
<1>7. \A i \in 1..m : i \in 1..m + n /\ rows[i] = got[i]
  BY <1>4
<1>8. ASSUME NEW i \in 1..n PROVE m + i \in 1..m + n /\ rows[m + i] = more[i]
  <2>1. m + i \in 1..m + n /\ ~(m + i <= m) /\ (m + i) - m = i
    BY <1>4
  <2> QED
    BY <1>4, <2>1
<1>9. ASSUME NEW i \in 1..m + n, i \notin 1..m
      PROVE  i - m \in 1..n /\ m + (i - m) = i /\ rows[i] = more[i - m]
  <2>1. i - m \in 1..n /\ m + (i - m) = i /\ ~(i <= m)
    BY <1>4, <1>9
  <2> QED
    BY <1>4, <2>1
<1>10. \A x : Has(got, x) \/ Has(more, x) => Has(rows, x)
  BY <1>4, <1>7, <1>8 DEF Has
<1>11. \A g \in Sigs : Key[g] \in Nat
  BY CabinetAssumption
<1>12. ASSUME NEW i \in 1..m, NEW j \in 1..n PROVE Key[more[j]] < Key[got[i]]
  <2>1. m # 0 /\ cursor # None /\ got[m] = cursor
    BY <1>2, <1>4 DEF m
  <2>2. more[j] \in After(cursor) /\ Key[more[j]] < Key[got[m]]
    BY <1>1, <1>3, <1>4, <2>1
  <2>3. m \in 1..m /\ (i = m \/ i < m)
    BY <1>4, <2>1
  <2>4. i < m => Key[got[m]] < Key[got[i]]
    BY <1>2, <1>4, <2>3 DEF Descending
  <2>5. Key[more[j]] \in Nat /\ Key[got[m]] \in Nat /\ Key[got[i]] \in Nat
    BY <1>5, <1>6, <1>11, <2>3
  <2> QED
    BY <2>2, <2>3, <2>4, <2>5
<1>13. ASSUME NEW i \in 1..m + n, NEW j \in 1..m + n, i < j
       PROVE  Key[rows[j]] < Key[rows[i]]
  <2>1. CASE i \in 1..m /\ j \in 1..m
    BY <1>2, <1>4, <1>7, <1>13, <2>1 DEF Descending
  <2>2. CASE i \notin 1..m /\ j \notin 1..m
    <3>1. /\ i - m \in 1..n /\ j - m \in 1..n /\ i - m < j - m
          /\ rows[i] = more[i - m] /\ rows[j] = more[j - m]
      BY <1>4, <1>9, <1>13, <2>2
    <3> QED
      BY <1>1, <1>4, <3>1 DEF Descending
  <2>3. CASE i \in 1..m /\ j \notin 1..m
    BY <1>7, <1>9, <1>12, <2>3
  <2>4. i \notin 1..m => j \notin 1..m
    BY <1>4, <1>13
  <2> QED
    BY <2>1, <2>2, <2>3, <2>4
<1>14. Descending(rows)
  BY <1>4, <1>13 DEF Descending
<1>15. next = None => \A g \in since : Has(rows, g)
  BY <1>1, <1>2, <1>10, Zenon
<1>16. ASSUME next # None
       PROVE  /\ rows # <<>> /\ next \in Sigs /\ rows[Len(rows)] = next
              /\ \A g \in since : Has(rows, g) \/ (g \in index /\ Key[g] < Key[next])
  <2>1. n # 0 /\ n \in 1..n /\ more[n] = next
    BY <1>1, <1>4, <1>16 DEF n
  <2>2. rows # <<>> /\ rows[Len(rows)] = next
    BY <1>4, <1>8, <2>1
  <2>3. \A g \in since : Has(rows, g) \/ (g \in index /\ Key[g] < Key[next])
    BY <1>1, <1>2, <1>3, <1>10, <1>16
  <2> QED
    BY <1>1, <1>16, <2>2, <2>3
<1> QED
  BY <1>4, <1>14, <1>15, <1>16 DEF rows, more, next, read

LEMMA ReadPageKeeps == CabinetInv /\ ReadPage => CabinetInv'
<1> SUFFICES ASSUME CabinetInv, ReadPage PROVE CabinetInv'
  OBVIOUS
<1> DEFINE read == PageOf(cursor)
           rows == got \o read.rows
<1> USE DEF CabinetInv
<1>1. /\ walk = "reading"
      /\ IF read.next # None
           THEN /\ got' = rows /\ cursor' = read.next
                /\ UNCHANGED <<walk, since, loaded, items, screen>>
           ELSE /\ walk' = "idle" /\ cursor' = None /\ got' = <<>> /\ since' = {}
                /\ loaded' = TRUE /\ items' = rows
                /\ effect' = IF rows = items THEN effect ELSE "due"
                /\ UNCHANGED <<subscribed, recovered>>
      /\ UNCHANGED <<page, browser, index>>
  BY DEF ReadPage
<1>2. /\ rows \in Seq(Sigs) /\ Descending(rows)
      /\ read.next # None =>
           /\ rows # <<>> /\ read.next \in Sigs /\ rows[Len(rows)] = read.next
           /\ \A g \in since : Has(rows, g) \/ (g \in index /\ Key[g] < Key[read.next])
  BY <1>1, WalkOn
<1> HIDE DEF read, rows
<1> USE DEF page, browser, screen
<1>3. CabinetTypes'
  <2>1. CASE read.next # None
    BY <1>1, <1>2, <2>1 DEF CabinetTypes
  <2>2. CASE read.next = None
    <3>1. <<>> \in Seq(Sigs) /\ items' \in Seq(Sigs) /\ got' = <<>> /\ since' \subseteq index'
          /\ effect' \in {"due", "run"}
      BY <1>1, <1>2, <2>2 DEF CabinetTypes
    <3> QED
      BY <1>1, <2>2, <3>1 DEF CabinetTypes
  <2> QED
    BY <2>1, <2>2
<1>4. JobsInPlace'
  BY <1>1, JobsFrame
<1>5. ASSUME NEW s \in slots' PROVE WorkerKnows(s)'
  BY <1>1, <1>5, WorkerFrame
<1>6. WalkInv'
  <2>1. CASE read.next # None
    BY <1>1, <1>2, <2>1 DEF WalkInv, Descending, Has, After
  <2>2. CASE read.next = None
    BY <1>1, <1>2, <2>2 DEF WalkInv, Descending
  <2> QED
    BY <2>1, <2>2
<1>7. NoAmountIsMissed'
  BY <1>1, AmountsFrame DEF NoAmountIsMissed
<1> QED
  BY <1>3, <1>4, <1>5, <1>6, <1>7

-----------------------------------------------------------------------------
(* The pool.                                                               *)

\* Nobody has said anything to a new worker, and no job is anywhere.
LEMMA Empty ==
  /\ \A x : ~Has(<<>>, x)
  /\ \A s, known : KeyFirst(<<>>, s, known)
  /\ \A S : <<>> \in Seq(S)
BY DEF Has, KeyFirst

LEMMA CreatePoolKeeps == CabinetInv /\ CreatePool => CabinetInv'
<1> SUFFICES ASSUME CabinetInv, CreatePool PROVE CabinetInv'
  OBVIOUS
<1> USE DEF CabinetInv, CreatePool, query
<1>1. CabinetTypes'
  <2>1. /\ current' \in [Slots -> Sigs \cup {None}] /\ queue' \in Seq(Sigs)
        /\ promise' \in [Sigs -> {"none", "waiting", "resolved", "rejected"}]
        /\ module' \in [Slots -> {"loading", "running", "dead"}]
    BY Empty
  <2>2. inbox' \in [Slots -> Seq(Messages)] /\ outbox' \in [Slots -> Seq(Replies)]
    BY Empty DEF Nothing
  <2> QED
    BY <2>1, <2>2 DEF CabinetTypes
<1>2. JobsInPlace'
  <2>1. \A s \in Slots : current'[s] = None
    OBVIOUS
  <2>2. queue' = <<>> /\ DOMAIN queue' = {} /\ \A g \in Sigs : promise'[g] = "none" /\ g # None
    BY SigsAreSigs
  <2>3. InPlace(current', queue')
    BY <2>1, <2>2, Empty DEF InPlace
  <2> QED
    BY <2>1, <2>2, <2>3, Empty DEF JobsInPlace, Placed, InPlace
<1>3. ASSUME NEW s \in slots' PROVE WorkerKnows(s)'
  <2>1. /\ current'[s] = None /\ inbox'[s] = <<>> /\ outbox'[s] = <<>>
        /\ module'[s] = "loading" /\ s \notin ready'
    BY <1>3 DEF Nothing
  <2>2. ~Has(outbox'[s], "ready") /\ KeyFirst(inbox'[s], s, key')
    BY <2>1, Empty
  <2> QED
    BY <2>1, <2>2 DEF WorkerKnows
<1>4. WalkInv'
  BY WalkFrame
<1>5. NoAmountIsMissed'
  BY DEF NoAmountIsMissed
<1> QED
  BY <1>1, <1>2, <1>3, <1>4, <1>5

LEMMA TerminateKeeps == CabinetInv /\ Terminate => CabinetInv'
<1> SUFFICES ASSUME CabinetInv, Terminate PROVE CabinetInv'
  OBVIOUS
<1> USE DEF CabinetInv, Terminate, query
<1>1. CabinetTypes'
  <2>1. /\ current' \in [Slots -> Sigs \cup {None}] /\ queue' \in Seq(Sigs)
        /\ promise' \in [Sigs -> {"none", "waiting", "resolved", "rejected"}]
    BY Empty DEF CabinetTypes
  <2>2. inbox' \in [Slots -> Seq(Messages)] /\ outbox' \in [Slots -> Seq(Replies)]
    BY Empty DEF Nothing
  <2> QED
    BY <2>1, <2>2 DEF CabinetTypes
<1>2. JobsInPlace'
  <2>1. \A s \in Slots : current'[s] = None
    OBVIOUS
  <2>2. queue' = <<>> /\ DOMAIN queue' = {} /\ \A g \in Sigs : g # None
    BY SigsAreSigs
  <2>3. InPlace(current', queue')
    BY <2>1, <2>2, Empty DEF InPlace
  <2>4. ASSUME NEW g \in Sigs PROVE promise'[g] # "waiting"
    <3>1. promise[g] = "waiting" => Rejected(g)
      BY <2>2 DEF JobsInPlace, InPlace, Placed, Rejected, Has
    <3> QED
      BY <3>1
  <2> QED
    BY <2>1, <2>2, <2>3, <2>4, Empty DEF JobsInPlace, Placed, InPlace
<1>3. \A s \in slots' : WorkerKnows(s)'
  OBVIOUS
<1>4. WalkInv'
  BY WalkFrame
<1>5. NoAmountIsMissed'
  BY DEF NoAmountIsMissed
<1> QED
  BY <1>1, <1>2, <1>3, <1>4, <1>5

\* No two rows are of the same contribution.
LEMMA RowsDiffer ==
  ASSUME NEW rows \in Seq(Sigs), Descending(rows),
         NEW i \in DOMAIN rows, NEW j \in DOMAIN rows, rows[i] = rows[j]
  PROVE  i = j
<1>1. rows[i] \in Sigs /\ rows[j] \in Sigs /\ i \in Nat /\ j \in Nat
  OBVIOUS
<1>2. Key[rows[i]] \in Nat /\ Key[rows[j]] \in Nat /\ Key[rows[i]] = Key[rows[j]]
  BY <1>1, CabinetAssumption
<1>3. (i < j => Key[rows[j]] < Key[rows[i]]) /\ (j < i => Key[rows[i]] < Key[rows[j]])
  BY DEF Descending
<1> QED
  BY <1>1, <1>2, <1>3

LEMMA RunEffectKeeps == CabinetInv /\ RunEffect => CabinetInv'
<1> SUFFICES ASSUME CabinetInv, RunEffect PROVE CabinetInv'
  OBVIOUS
<1> DEFINE todo == Range(items) \ recovered
           fresh == NotInFlight(todo)
           more == Kept(items, fresh)
           jobs == queue \o more
<1> USE DEF CabinetInv
<1>1. /\ pool = "on" /\ effect' = "run" /\ subscribed' = todo
      /\ promise' = [g \in Sigs |-> IF g \in fresh THEN "waiting" ELSE promise[g]]
      /\ Pump(ready, current, jobs, Nothing)
      /\ UNCHANGED <<pool, slots, module, key, outbox, index, query, items, recovered>>
  BY DEF RunEffect, Awaited
<1>2. items \in Seq(Sigs) /\ queue \in Seq(Sigs) /\ slots \subseteq Slots /\ todo \subseteq Sigs
      /\ current \in [Slots -> Sigs \cup {None}]
  BY DEF CabinetTypes, Range
<1>3. /\ \A g : Has(items, g) <=> g \in Range(items)
      /\ \A g \in fresh : g \in todo /\ promise[g] # "waiting" /\ g \in Range(items)
      /\ \A g \in todo : g \notin fresh => promise[g] = "waiting"
  BY DEF Has, Range, NotInFlight, InFlight
<1> HIDE DEF todo, fresh
<1>4. /\ more \in Seq(Sigs)
      /\ \A g : Has(more, g) <=> g \in fresh /\ Has(items, g)
      /\ \A i, j \in DOMAIN more : more[i] = more[j] => i = j
  <2>1. \A i, j \in DOMAIN items : items[i] = items[j] => i = j
    BY <1>2, RowsDiffer DEF WalkInv
  <2> QED
    BY <1>2, <2>1, KeptJobs
<1> HIDE DEF more
<1>5. \A g : Has(more, g) <=> g \in fresh
  BY <1>3, <1>4
<1>6. /\ InPlace(current, queue)
      /\ \A g \in Sigs : promise[g] = "waiting" <=> Placed(current, queue, g)
  BY DEF JobsInPlace
<1>7. \A g \in fresh : g \in Sigs /\ ~Placed(current, queue, g)
  BY <1>2, <1>3, <1>6
<1>8. /\ \A s \in Slots : ~Has(more, current[s])
      /\ \A g : ~(Has(queue, g) /\ Has(more, g))
  BY <1>5, <1>7 DEF Placed
<1>9. /\ jobs \in Seq(Sigs) /\ InPlace(current, jobs)
      /\ \A g : Placed(current, jobs, g) <=> Placed(current, queue, g) \/ g \in fresh
  BY <1>2, <1>4, <1>5, <1>6, <1>8, QueueGrows
<1> HIDE DEF jobs
<1>10. /\ current' \in [Slots -> Sigs \cup {None}] /\ queue' \in Seq(Sigs)
       /\ InPlace(current', queue')
       /\ \A g \in Sigs : Placed(current', queue', g) <=> Placed(current, jobs, g)
  BY <1>1, <1>2, <1>9, PumpPlaces
<1>11. ready' = ready /\ inbox' \in [Slots -> Seq(Messages)]
  <2>1. \A s \in Slots : Nothing[s] \in {<<>>, <<"init">>}
    BY DEF Nothing
  <2> QED
    BY <1>1, <1>9, <2>1, PumpTypes
<1>12. CabinetTypes'
  BY <1>1, <1>2, <1>10, <1>11 DEF CabinetTypes, query
<1>13. JobsInPlace'
  <2>1. InPlace(current', queue') <=> InPlace(current, queue)'
    BY <1>1 DEF InPlace, Has
  <2>2. \A g \in Sigs : promise'[g] = "waiting" <=> promise[g] = "waiting" \/ g \in fresh
    BY <1>1
  <2>3. \A g \in Sigs : promise'[g] = "waiting" <=> Placed(current', queue', g)
    BY <1>6, <1>9, <1>10, <2>2
  <2> QED
    BY <1>10, <2>1, <2>3 DEF JobsInPlace
<1>14. ASSUME NEW s \in slots' PROVE WorkerKnows(s)'
  <2>1. s \in slots /\ s \in Slots /\ outbox'[s] = outbox[s] /\ module' = module /\ key' = key
        /\ WorkerKnows(s)
    BY <1>1, <1>2, <1>14
  <2>2. Nothing[s] = <<>>
    BY <2>1 DEF Nothing
  <2> QED
    BY <1>1, <1>2, <1>9, <2>1, <2>2, PumpKnows DEF WorkerKnows
<1>15. WalkInv'
  BY <1>1, WalkFrame DEF query
<1>16. NoAmountIsMissed'
  <2>1. ASSUME NEW g \in Range(items)
        PROVE  g \in recovered' \/ (promise'[g] = "waiting" /\ g \in subscribed')
    <3>1. CASE g \in todo
      BY <1>1, <1>2, <1>3, <3>1
    <3>2. CASE g \notin todo
      BY <1>1, <2>1, <3>2 DEF todo
    <3> QED
      BY <3>1, <3>2
  <2> QED
    BY <1>1, <2>1 DEF NoAmountIsMissed
<1> QED
  BY <1>12, <1>13, <1>14, <1>15, <1>16

-----------------------------------------------------------------------------
(* The page's handlers.                                                    *)

\* What is not the message that is taken stays in the box.
LEMMA Taken ==
  ASSUME CabinetTypes, NEW s \in Slots, outbox[s] # <<>>, Take(s)
  PROVE  /\ outbox' \in [Slots -> Seq(Replies)]
         /\ \A t \in Slots : t # s => outbox'[t] = outbox[t]
         /\ Has(outbox[s], Head(outbox[s]))
         /\ \A x : Has(outbox'[s], x) => Has(outbox[s], x)
         /\ \A x : Has(outbox[s], x) /\ x # Head(outbox[s]) => Has(outbox'[s], x)
<1>1. outbox \in [Slots -> Seq(Replies)] /\ outbox' = [outbox EXCEPT ![s] = Tail(outbox[s])]
  BY DEF CabinetTypes, Take
<1>2. outbox[s] \in Seq(Replies)
  BY <1>1
<1> DEFINE box == outbox[s]
           rest == Tail(box)
<1> HIDE DEF box
<1>3. /\ rest \in Seq(Replies) /\ Has(box, Head(box))
      /\ \A x : Has(rest, x) => Has(box, x)
      /\ \A x : Has(box, x) /\ x # Head(box) => Has(rest, x)
  BY <1>2, TakenFromBox DEF box
<1>4. outbox' = [outbox EXCEPT ![s] = rest]
  BY <1>1 DEF box
<1> HIDE DEF rest
<1>5. outbox'[s] = rest /\ outbox' \in [Slots -> Seq(Replies)]
      /\ \A t \in Slots : t # s => outbox'[t] = outbox[t]
  BY <1>1, <1>3, <1>4
<1> QED
  BY <1>3, <1>5 DEF box

LEMMA OnReadyKeeps ==
  ASSUME CabinetInv, NEW s \in Slots, OnReady(s)
  PROVE  CabinetInv'
<1> DEFINE first == [Nothing EXCEPT ![s] = <<"init">>]
           rdy == ready \cup {s}
<1> USE DEF CabinetInv
<1>1. /\ s \in slots /\ outbox[s] # <<>> /\ Head(outbox[s]) = "ready" /\ Take(s)
      /\ Pump(rdy, current, queue, first)
      /\ UNCHANGED <<pool, pools, slots, promise, module, key, index, query, items, screen>>
  BY DEF OnReady
<1>2. /\ queue \in Seq(Sigs) /\ current \in [Slots -> Sigs \cup {None}]
      /\ slots \subseteq Slots /\ rdy \subseteq Slots
  BY DEF CabinetTypes
<1>3. /\ first[s] = <<"init">>
      /\ \A t \in Slots : first[t] \in {<<>>, <<"init">>} /\ (t # s => first[t] = <<>>)
  BY DEF Nothing
<1> HIDE DEF first
<1>4. /\ outbox' \in [Slots -> Seq(Replies)]
      /\ \A t \in Slots : t # s => outbox'[t] = outbox[t]
      /\ Has(outbox[s], "ready")
      /\ \A x : Has(outbox'[s], x) => Has(outbox[s], x)
      /\ \A x : Has(outbox[s], x) /\ x # "ready" => Has(outbox'[s], x)
  BY <1>1, Taken
<1>5. InPlace(current, queue)
  BY DEF JobsInPlace
<1>6. /\ current' \in [Slots -> Sigs \cup {None}] /\ queue' \in Seq(Sigs)
      /\ InPlace(current', queue')
      /\ \A g \in Sigs : Placed(current', queue', g) <=> Placed(current, queue, g)
  BY <1>1, <1>2, <1>5, PumpPlaces
<1>7. ready' = rdy /\ inbox' \in [Slots -> Seq(Messages)]
  BY <1>1, <1>2, <1>3, PumpTypes
<1>8. CabinetTypes'
  BY <1>1, <1>2, <1>4, <1>6, <1>7 DEF CabinetTypes, query, screen
<1>9. JobsInPlace'
  BY <1>1, <1>6 DEF JobsInPlace, InPlace, Placed, Has
<1>10. ASSUME NEW t \in slots' PROVE WorkerKnows(t)'
  <2>1. t \in slots /\ t \in Slots /\ module' = module /\ key' = key /\ WorkerKnows(t)
    BY <1>1, <1>2, <1>10
  <2>2. current[t] # None =>
          Has(inbox[t], current[t]) \/ Has(outbox'[t], current[t]) \/ Has(outbox'[t], "error")
    <3>1. current[t] # "ready"
      BY <1>2, <2>1, SigsAreSigs DEF None
    <3> QED
      BY <1>4, <2>1, <3>1 DEF WorkerKnows
  <2>3. module[t] = "dead" => Has(outbox'[t], "error") /\ inbox[t] = <<>>
    BY <1>4, <2>1 DEF WorkerKnows
  <2>4. t \in rdy \/ Has(outbox'[t], "ready") => module[t] # "loading"
    BY <1>4, <2>1 DEF WorkerKnows
  <2>5. t \in rdy /\ module[t] = "running"
           => t \in key \/ Has(inbox[t], "init") \/ first[t] = <<"init">>
    BY <1>3, <2>1 DEF WorkerKnows
  <2>6. KeyFirst(inbox[t], t, key) /\ first[t] \in {<<>>, <<"init">>}
    BY <1>3, <2>1 DEF WorkerKnows
  <2> HIDE DEF rdy
  <2> QED
    BY <1>1, <1>2, <2>1, <2>2, <2>3, <2>4, <2>5, <2>6, PumpKnows
<1>11. WalkInv'
  BY <1>1, WalkFrame DEF query
<1>12. NoAmountIsMissed'
  BY <1>1, AmountsFrame DEF screen
<1> QED
  BY <1>8, <1>9, <1>10, <1>11, <1>12

LEMMA OnResultKeeps ==
  ASSUME CabinetInv, NEW s \in Slots, OnResult(s)
  PROVE  CabinetInv'
<1> DEFINE g == Head(outbox[s])
           mine == current[s] = g
           cur == IF mine THEN [current EXCEPT ![s] = None] ELSE current
<1> USE DEF CabinetInv
<1>1. /\ s \in slots /\ outbox[s] # <<>> /\ g \in Sigs /\ Take(s)
      /\ Pump(ready, cur, queue, Nothing)
      /\ UNCHANGED <<pool, pools, slots, module, key, index, query, items, effect>>
      /\ mine => /\ promise' = [promise EXCEPT ![g] = "resolved"]
                 /\ recovered' = IF g \in subscribed THEN recovered \cup {g} ELSE recovered
                 /\ subscribed' = subscribed \ {g}
      /\ ~mine => UNCHANGED <<promise, recovered, subscribed>>
  BY DEF OnResult
<1>2. /\ queue \in Seq(Sigs) /\ current \in [Slots -> Sigs \cup {None}]
      /\ slots \subseteq Slots /\ ready \subseteq Slots
      /\ promise \in [Sigs -> {"none", "waiting", "resolved", "rejected"}]
      /\ subscribed \subseteq Sigs /\ recovered \subseteq Sigs
  BY DEF CabinetTypes
<1>3. /\ outbox' \in [Slots -> Seq(Replies)]
      /\ \A t \in Slots : t # s => outbox'[t] = outbox[t]
      /\ \A x : Has(outbox'[s], x) => Has(outbox[s], x)
      /\ \A x : Has(outbox[s], x) /\ x # g => Has(outbox'[s], x)
  BY <1>1, Taken
<1>4. None \notin Sigs /\ "error" \notin Sigs
  BY SigsAreSigs
<1> HIDE DEF g
<1>5. /\ cur \in [Slots -> Sigs \cup {None}]
      /\ \A t \in Slots : t # s => cur[t] = current[t]
      /\ mine => current[s] = g /\ cur[s] = None
      /\ ~mine => cur = current /\ current[s] # g
  BY <1>2
<1> HIDE DEF cur, mine
<1>6. /\ InPlace(current, queue)
      /\ \A h \in Sigs : promise[h] = "waiting" <=> Placed(current, queue, h)
  BY DEF JobsInPlace
<1>7. InPlace(cur, queue)
  <2>1. CASE mine
    <3>1. \A i \in DOMAIN queue : queue[i] # None
      BY <1>2, <1>4
    <3>2. \A t \in Slots : cur[t] # None => t # s /\ cur[t] = current[t]
      BY <1>5, <2>1
    <3>3. \A t \in Slots : ~Has(queue, cur[t])
      BY <1>5, <1>6, <2>1, <3>1 DEF InPlace, Has
    <3>4. \A t, u \in Slots : cur[t] # None /\ cur[t] = cur[u] => t = u
      BY <1>6, <3>2 DEF InPlace
    <3> QED
      BY <1>6, <3>2, <3>3, <3>4 DEF InPlace
  <2>2. CASE ~mine
    BY <1>5, <1>6, <2>2
  <2> QED
    BY <2>1, <2>2
<1>8. \A h \in Sigs : promise'[h] = "waiting" <=> Placed(cur, queue, h)
  <2>1. CASE mine
    <3>1. promise'[g] # "waiting" /\ \A h \in Sigs : h # g => promise'[h] = promise[h]
      BY <1>1, <1>2, <2>1
    <3>2. ~Placed(cur, queue, g)
      BY <1>1, <1>4, <1>5, <1>6, <2>1 DEF InPlace, Placed
    <3>3. \A h \in Sigs : h # g => (Placed(cur, queue, h) <=> Placed(current, queue, h))
      BY <1>4, <1>5, <2>1 DEF Placed
    <3> QED
      BY <1>6, <3>1, <3>2, <3>3
  <2>2. CASE ~mine
    BY <1>1, <1>5, <1>6, <2>2
  <2> QED
    BY <2>1, <2>2
<1>9. /\ current' \in [Slots -> Sigs \cup {None}] /\ queue' \in Seq(Sigs)
      /\ InPlace(current', queue')
      /\ \A h \in Sigs : Placed(current', queue', h) <=> Placed(cur, queue, h)
  BY <1>1, <1>2, <1>5, <1>7, PumpPlaces
<1>10. \A t \in Slots : Nothing[t] = <<>>
  BY DEF Nothing
<1>11. ready' = ready /\ inbox' \in [Slots -> Seq(Messages)]
  <2>1. \A t \in Slots : Nothing[t] \in {<<>>, <<"init">>}
    BY <1>10
  <2> QED
    BY <1>1, <1>2, <2>1, PumpTypes
<1>12. CabinetTypes'
  <2>1. /\ promise' \in [Sigs -> {"none", "waiting", "resolved", "rejected"}]
        /\ subscribed' \subseteq Sigs /\ recovered' \subseteq Sigs
    BY <1>1, <1>2
  <2> QED
    BY <1>1, <1>2, <1>3, <1>9, <1>11, <2>1 DEF CabinetTypes, query
<1>13. JobsInPlace'
  BY <1>1, <1>8, <1>9 DEF JobsInPlace, InPlace, Placed, Has
<1>14. ASSUME NEW t \in slots' PROVE WorkerKnows(t)'
  <2>1. t \in slots /\ t \in Slots /\ module' = module /\ key' = key /\ WorkerKnows(t)
    BY <1>1, <1>2, <1>14
  <2>2. cur[t] # None =>
          Has(inbox[t], cur[t]) \/ Has(outbox'[t], cur[t]) \/ Has(outbox'[t], "error")
    <3>1. CASE t # s
      BY <1>3, <1>5, <2>1, <3>1 DEF WorkerKnows
    <3>2. CASE t = s
      BY <1>1, <1>3, <1>4, <1>5, <2>1, <3>2 DEF WorkerKnows
    <3> QED
      BY <3>1, <3>2
  <2>3. module[t] = "dead" => Has(outbox'[t], "error") /\ inbox[t] = <<>>
    BY <1>1, <1>3, <1>4, <2>1 DEF WorkerKnows
  <2>4. t \in ready \/ Has(outbox'[t], "ready") => module[t] # "loading"
    BY <1>3, <2>1 DEF WorkerKnows
  <2>5. t \in ready /\ module[t] = "running" => t \in key \/ Has(inbox[t], "init")
    BY <2>1 DEF WorkerKnows
  <2>6. KeyFirst(inbox[t], t, key) /\ Nothing[t] \in {<<>>, <<"init">>}
    BY <1>10, <2>1 DEF WorkerKnows
  <2> QED
    BY <1>1, <1>2, <1>5, <2>1, <2>2, <2>3, <2>4, <2>5, <2>6, PumpKnows
<1>15. WalkInv'
  BY <1>1, WalkFrame DEF query
<1>16. NoAmountIsMissed'
  <2>1. CASE mine
    <3>1. promise[g] = "waiting" /\ g \in Sigs
      BY <1>1, <1>5, <1>6, <2>1 DEF Placed
    <3> QED
      BY <1>1, <1>2, <2>1, <3>1 DEF NoAmountIsMissed, CabinetTypes, Range
  <2>2. CASE ~mine
    BY <1>1, <2>2, AmountsFrame
  <2> QED
    BY <2>1, <2>2
<1> QED
  BY <1>12, <1>13, <1>14, <1>15, <1>16

\* No promise is left open by a worker that has failed, nor by the last one.
LEMMA OnErrorKeeps ==
  ASSUME CabinetInv, NEW s \in Slots, OnError(s)
  PROVE  CabinetInv'
<1> DEFINE queued == {queue[i] : i \in DOMAIN queue}
           dropped == {g \in Sigs : current[s] = g \/ (slots' = {} /\ g \in queued)}
<1> USE DEF CabinetInv
<1>1. /\ s \in slots /\ slots' = slots \ {s}
      /\ promise' = [g \in Sigs |-> IF g \in dropped THEN "rejected" ELSE promise[g]]
      /\ subscribed' = subscribed \ dropped
      /\ queue' = IF slots' = {} THEN <<>> ELSE queue
      /\ current' = [current EXCEPT ![s] = None]
      /\ inbox' = [inbox EXCEPT ![s] = <<>>] /\ outbox' = [outbox EXCEPT ![s] = <<>>]
      /\ UNCHANGED <<pool, pools, ready, module, key, index, query, items, effect, recovered>>
  BY DEF OnError
<1>2. /\ queue \in Seq(Sigs) /\ current \in [Slots -> Sigs \cup {None}]
      /\ slots \subseteq Slots /\ ready \subseteq Slots
      /\ promise \in [Sigs -> {"none", "waiting", "resolved", "rejected"}]
      /\ subscribed \subseteq Sigs
      /\ inbox \in [Slots -> Seq(Messages)] /\ outbox \in [Slots -> Seq(Replies)]
  BY DEF CabinetTypes
<1>3. /\ \A g \in Sigs : g \in dropped <=> current[s] = g \/ (slots' = {} /\ Has(queue, g))
      /\ None \notin Sigs
  BY SigsAreSigs DEF Has
<1> HIDE DEF queued, dropped
<1>4. /\ current'[s] = None /\ current' \in [Slots -> Sigs \cup {None}]
      /\ \A t \in Slots : t # s => current'[t] = current[t]
  BY <1>1, <1>2
<1>5. CabinetTypes'
  <2>1. /\ promise' \in [Sigs -> {"none", "waiting", "resolved", "rejected"}]
        /\ subscribed' \subseteq Sigs /\ slots' \subseteq Slots
    BY <1>1, <1>2
  <2>2. inbox' \in [Slots -> Seq(Messages)] /\ outbox' \in [Slots -> Seq(Replies)]
        /\ queue' \in Seq(Sigs)
    BY <1>1, <1>2, Empty
  <2> QED
    BY <1>1, <1>4, <2>1, <2>2 DEF CabinetTypes, query
<1>6. /\ InPlace(current, queue)
      /\ \A g \in Sigs : promise[g] = "waiting" <=> Placed(current, queue, g)
  BY DEF JobsInPlace
<1>7. /\ \A t \in Slots : current'[t] # None => t # s /\ current'[t] = current[t] /\ t \in slots'
      /\ \A t, u \in Slots : current'[t] # None /\ current'[t] = current'[u] => t = u
  BY <1>1, <1>4, <1>6 DEF InPlace
<1>8. ASSUME slots' = {} PROVE JobsInPlace'
  <2>1. queue' = <<>> /\ \A t \in Slots : current'[t] = None
    BY <1>1, <1>7, <1>8
  <2>2. \A g \in Sigs : promise'[g] # "waiting"
    <3>1. ASSUME NEW g \in Sigs, promise[g] = "waiting" PROVE g \in dropped
      <4>1. CASE Has(queue, g)
        BY <1>3, <1>8, <4>1
      <4>2. CASE \E t \in Slots : current[t] = g
        BY <1>1, <1>3, <1>6, <1>8, <4>2 DEF InPlace
      <4> QED
        BY <1>6, <3>1, <4>1, <4>2 DEF Placed
    <3> QED
      BY <1>1, <3>1
  <2>3. DOMAIN queue' = {} /\ \A x : ~Has(queue', x)
    BY <2>1, Empty
  <2> QED
    BY <1>3, <1>7, <2>1, <2>2, <2>3 DEF JobsInPlace, InPlace, Placed, Has
<1>9. ASSUME slots' # {} PROVE JobsInPlace'
  <2>1. queue' = queue /\ \A g \in Sigs : g \in dropped <=> current[s] = g
    BY <1>1, <1>3, <1>9
  <2>2. \A t \in Slots : ~Has(queue, current'[t])
    <3>1. \A i \in DOMAIN queue : queue[i] # None
      BY <1>2, <1>3
    <3> QED
      BY <1>4, <1>6, <3>1 DEF InPlace, Has
  <2>3. ASSUME NEW g \in Sigs
        PROVE  promise'[g] = "waiting" <=> Placed(current', queue, g)
    <3>1. CASE current[s] = g
      <4>1. promise'[g] = "rejected"
        BY <1>1, <2>1, <3>1
      <4>2. ~Has(queue, g) /\ \A t \in Slots : current'[t] # g
        BY <1>3, <1>4, <1>6, <3>1 DEF InPlace
      <4> QED
        BY <4>1, <4>2 DEF Placed
    <3>2. CASE current[s] # g
      <4>1. promise'[g] = promise[g]
        BY <1>1, <2>1, <3>2
      <4>2. Placed(current', queue, g) <=> Placed(current, queue, g)
        BY <1>3, <1>4, <3>2 DEF Placed
      <4> QED
        BY <1>6, <4>1, <4>2
    <3> QED
      BY <3>1, <3>2
  <2> QED
    BY <1>6, <1>7, <2>1, <2>2, <2>3 DEF JobsInPlace, InPlace, Placed, Has
<1>10. ASSUME NEW t \in slots' PROVE WorkerKnows(t)'
  BY <1>1, <1>2, <1>4, <1>10, WorkerFrame
<1>11. WalkInv'
  BY <1>1, WalkFrame DEF query
<1>12. NoAmountIsMissed'
  BY <1>1, <1>2 DEF NoAmountIsMissed, CabinetTypes, Range
<1> QED
  BY <1>5, <1>8, <1>9, <1>10, <1>11, <1>12

-----------------------------------------------------------------------------
(* The workers.                                                            *)

\* What a worker says comes behind what it has said.
LEMMA Said ==
  ASSUME CabinetTypes, NEW s \in Slots, NEW what \in Replies, Say(s, what)
  PROVE  /\ outbox' \in [Slots -> Seq(Replies)]
         /\ \A t \in Slots : t # s => outbox'[t] = outbox[t]
         /\ Has(outbox'[s], what)
         /\ \A x : Has(outbox[s], x) => Has(outbox'[s], x)
         /\ \A x : Has(outbox'[s], x) => Has(outbox[s], x) \/ x = what
<1>1. outbox \in [Slots -> Seq(Replies)] /\ outbox' = [outbox EXCEPT ![s] = Append(outbox[s], what)]
  BY DEF CabinetTypes, Say
<1> DEFINE box == outbox[s]
           new == Append(box, what)
<1>2. box \in Seq(Replies)
  BY <1>1
<1> HIDE DEF box
<1>3. /\ new \in Seq(Replies) /\ Has(new, what)
      /\ \A x : Has(box, x) => Has(new, x)
      /\ \A x : Has(new, x) => Has(box, x) \/ x = what
  BY <1>2, PutInBox
<1>4. outbox' = [outbox EXCEPT ![s] = new]
  BY <1>1 DEF box
<1> HIDE DEF new
<1>5. outbox'[s] = new /\ outbox' \in [Slots -> Seq(Replies)]
      /\ \A t \in Slots : t # s => outbox'[t] = outbox[t]
  BY <1>1, <1>3, <1>4
<1> QED
  BY <1>3, <1>5 DEF box

LEMMA WorkerStartsKeeps ==
  ASSUME CabinetInv, NEW s \in Slots, WorkerStarts(s)
  PROVE  CabinetInv'
<1> USE DEF CabinetInv
<1>1. /\ s \in slots /\ module[s] = "loading" /\ Say(s, "ready")
      /\ module' = [module EXCEPT ![s] = "running"]
      /\ UNCHANGED <<page, key, inbox, index, query, items, screen>>
  BY DEF WorkerStarts
<1>2. slots \subseteq Slots /\ module \in [Slots -> {"loading", "running", "dead"}]
  BY DEF CabinetTypes
<1>3. /\ outbox' \in [Slots -> Seq(Replies)]
      /\ \A t \in Slots : t # s => outbox'[t] = outbox[t]
      /\ \A x : Has(outbox[s], x) => Has(outbox'[s], x)
  <2>1. "ready" \in Replies
    BY DEF Replies
  <2> QED
    BY <1>1, <2>1, Said
<1>4. /\ module'[s] = "running" /\ \A t \in Slots : t # s => module'[t] = module[t]
      /\ module' \in [Slots -> {"loading", "running", "dead"}]
  BY <1>1, <1>2
<1>5. CabinetTypes'
  BY <1>1, <1>3, <1>4 DEF CabinetTypes, page, query, screen
<1>6. JobsInPlace'
  BY <1>1, JobsFrame DEF page
<1>7. ASSUME NEW t \in slots' PROVE WorkerKnows(t)'
  <2>1. t \in slots /\ t \in Slots /\ WorkerKnows(t) /\ UNCHANGED <<ready, current, key, inbox>>
    BY <1>1, <1>2, <1>7 DEF page
  <2>2. CASE t # s
    BY <1>3, <1>4, <2>1, <2>2, WorkerFrame
  <2>3. CASE t = s
    BY <1>1, <1>3, <1>4, <2>1, <2>3 DEF WorkerKnows, KeyFirst
  <2> QED
    BY <2>2, <2>3
<1>8. WalkInv'
  BY <1>1, WalkFrame DEF query
<1>9. NoAmountIsMissed'
  BY <1>1, AmountsFrame DEF page, screen
<1> QED
  BY <1>5, <1>6, <1>7, <1>8, <1>9

LEMMA WorkerTakesKeeps ==
  ASSUME CabinetInv, NEW s \in Slots, WorkerTakes(s)
  PROVE  CabinetInv'
<1> DEFINE box == inbox[s]
           rest == Tail(box)
           what == IF s \in key THEN Head(box) ELSE "error"
<1> USE DEF CabinetInv
<1>1. /\ s \in slots /\ box # <<>> /\ inbox' = [inbox EXCEPT ![s] = rest]
      /\ Head(box) = "init" => key' = key \cup {s} /\ UNCHANGED outbox
      /\ Head(box) # "init" => Say(s, what) /\ UNCHANGED key
      /\ UNCHANGED <<page, module, index, query, items, screen>>
  BY DEF WorkerTakes
<1>2. /\ slots \subseteq Slots /\ inbox \in [Slots -> Seq(Messages)] /\ key \subseteq Slots
      /\ outbox \in [Slots -> Seq(Replies)] /\ box \in Seq(Messages) /\ WorkerKnows(s)
  BY <1>1 DEF CabinetTypes
<1>3. KeyFirst(box, s, key)
  BY <1>2 DEF WorkerKnows
<1> HIDE DEF box
<1>4. /\ rest \in Seq(Messages) /\ Head(box) \in Messages
      /\ \A x : Has(rest, x) => Has(box, x)
      /\ \A x : Has(box, x) /\ x # Head(box) => Has(rest, x)
  BY <1>1, <1>2, TakenFromBox
<1>5. /\ Head(box) = "init" => KeyFirst(rest, s, key \cup {s})
      /\ Head(box) # "init" => s \in key /\ KeyFirst(rest, s, key)
  BY <1>1, <1>2, <1>3, KeyTaken
<1> HIDE DEF rest
<1>6. /\ inbox'[s] = rest /\ inbox' \in [Slots -> Seq(Messages)]
      /\ \A t \in Slots : t # s => inbox'[t] = inbox[t]
  BY <1>1, <1>2, <1>4
<1>7. Head(box) # "init" => Head(box) \in Sigs /\ what = Head(box) /\ what \in Replies
  BY <1>4, <1>5 DEF Messages, Replies
<1> HIDE DEF what
<1>8. /\ outbox' \in [Slots -> Seq(Replies)]
      /\ \A t \in Slots : t # s => outbox'[t] = outbox[t]
      /\ \A x : Has(outbox[s], x) => Has(outbox'[s], x)
      /\ Head(box) # "init" => Has(outbox'[s], Head(box))
      /\ \A x : Has(outbox'[s], x) => Has(outbox[s], x) \/ (x = Head(box) /\ x \in Sigs)
  <2>1. CASE Head(box) = "init"
    BY <1>1, <1>2, <2>1
  <2>2. CASE Head(box) # "init"
    BY <1>1, <1>7, <2>2, Said
  <2> QED
    BY <2>1, <2>2
<1>9. CabinetTypes'
  BY <1>1, <1>2, <1>6, <1>8 DEF CabinetTypes, page, query, screen
<1>10. JobsInPlace'
  BY <1>1, JobsFrame DEF page
<1>11. ASSUME NEW t \in slots' PROVE WorkerKnows(t)'
  <2>1. t \in slots /\ t \in Slots /\ WorkerKnows(t) /\ UNCHANGED <<ready, current, module>>
        /\ (t \in key => t \in key')
    BY <1>1, <1>2, <1>11 DEF page
  <2>2. CASE t # s
    BY <1>6, <1>8, <2>1, <2>2, WorkerFrame
  <2>3. CASE t = s
    <3>1. current'[s] # None => Has(inbox'[s], current'[s])
              \/ Has(outbox'[s], current'[s]) \/ Has(outbox'[s], "error")
      <4>1. current'[s] = current[s] /\ current[s] # "init"
        BY <2>1, SigsAreSigs DEF CabinetTypes, None
      <4> QED
        BY <1>4, <1>6, <1>8, <2>1, <2>3, <4>1 DEF WorkerKnows, box
    <3>2. KeyFirst(inbox'[s], s, key')
      BY <1>1, <1>5, <1>6
    <3>3. s \in ready' /\ module'[s] = "running" => s \in key' \/ Has(inbox'[s], "init")
      BY <1>1, <1>4, <1>5, <1>6, <2>1, <2>3 DEF WorkerKnows, box
    <3>4. s \in ready' \/ Has(outbox'[s], "ready") => module'[s] # "loading"
      <4>1. "ready" \notin Sigs
        BY SigsAreSigs
      <4> QED
        BY <1>8, <2>1, <2>3, <4>1 DEF WorkerKnows
    <3>5. module'[s] # "dead"
      BY <1>1, <2>1, <2>3 DEF WorkerKnows, box
    <3> QED
      BY <2>3, <3>1, <3>2, <3>3, <3>4, <3>5 DEF WorkerKnows
  <2> QED
    BY <2>2, <2>3
<1>12. WalkInv'
  BY <1>1, WalkFrame DEF query
<1>13. NoAmountIsMissed'
  BY <1>1, AmountsFrame DEF page, screen
<1> QED
  BY <1>9, <1>10, <1>11, <1>12, <1>13

LEMMA WorkerFailsKeeps ==
  ASSUME CabinetInv, NEW s \in Slots, WorkerFails(s)
  PROVE  CabinetInv'
<1> USE DEF CabinetInv
<1>1. /\ s \in slots /\ inbox' = [inbox EXCEPT ![s] = <<>>]
      /\ module' = [module EXCEPT ![s] = "dead"] /\ Say(s, "error")
      /\ UNCHANGED <<page, key, index, query, items, screen>>
  BY DEF WorkerFails
<1>2. slots \subseteq Slots /\ module \in [Slots -> {"loading", "running", "dead"}]
      /\ inbox \in [Slots -> Seq(Messages)]
  BY DEF CabinetTypes
<1>3. /\ outbox' \in [Slots -> Seq(Replies)]
      /\ \A t \in Slots : t # s => outbox'[t] = outbox[t]
      /\ Has(outbox'[s], "error")
  <2>1. "error" \in Replies
    BY DEF Replies
  <2> QED
    BY <1>1, <2>1, Said
<1>4. /\ module'[s] = "dead" /\ inbox'[s] = <<>>
      /\ \A t \in Slots : t # s => module'[t] = module[t] /\ inbox'[t] = inbox[t]
      /\ module' \in [Slots -> {"loading", "running", "dead"}]
      /\ inbox' \in [Slots -> Seq(Messages)]
  BY <1>1, <1>2, Empty
<1>5. CabinetTypes'
  BY <1>1, <1>3, <1>4 DEF CabinetTypes, page, query, screen
<1>6. JobsInPlace'
  BY <1>1, JobsFrame DEF page
<1>7. ASSUME NEW t \in slots' PROVE WorkerKnows(t)'
  <2>1. t \in slots /\ t \in Slots /\ WorkerKnows(t) /\ UNCHANGED <<ready, current, key>>
    BY <1>1, <1>2, <1>7 DEF page
  <2>2. CASE t # s
    BY <1>3, <1>4, <2>1, <2>2, WorkerFrame
  <2>3. CASE t = s
    <3>1. KeyFirst(inbox'[s], s, key')
      BY <1>4, Empty
    <3> QED
      BY <1>3, <1>4, <2>3, <3>1 DEF WorkerKnows
  <2> QED
    BY <2>2, <2>3
<1>8. WalkInv'
  BY <1>1, WalkFrame DEF query
<1>9. NoAmountIsMissed'
  BY <1>1, AmountsFrame DEF page, screen
<1> QED
  BY <1>5, <1>6, <1>7, <1>8, <1>9

-----------------------------------------------------------------------------
(* The theorems.                                                           *)

LEMMA NextCabinetInv == CabinetInv /\ [Next]_vars => CabinetInv'
<1> SUFFICES ASSUME CabinetInv, [Next]_vars PROVE CabinetInv'
  OBVIOUS
<1>1. CASE Contribute
  BY <1>1, ContributeKeeps
<1>2. CASE StartWalk
  BY <1>2, StartWalkKeeps
<1>3. CASE ReadPage
  BY <1>3, ReadPageKeeps
<1>4. CASE WalkFails
  BY <1>4, WalkFailsKeeps
<1>5. CASE CreatePool
  BY <1>5, CreatePoolKeeps
<1>6. CASE Terminate
  BY <1>6, TerminateKeeps
<1>7. CASE RunEffect
  BY <1>7, RunEffectKeeps
<1>8. ASSUME NEW s \in Slots, Handle(s) PROVE CabinetInv'
  BY <1>8, OnReadyKeeps, OnResultKeeps, OnErrorKeeps DEF Handle
<1>9. ASSUME NEW s \in Slots, Work(s) PROVE CabinetInv'
  BY <1>9, WorkerStartsKeeps, WorkerTakesKeeps DEF Work
<1>10. ASSUME NEW s \in Slots, WorkerFails(s) PROVE CabinetInv'
  BY <1>10, WorkerFailsKeeps
<1>11. CASE UNCHANGED vars
  <2> USE DEF vars, page, browser, query, screen, CabinetInv
  <2>1. CabinetTypes'
    BY <1>11 DEF CabinetTypes
  <2>2. JobsInPlace' /\ WalkInv' /\ NoAmountIsMissed'
    BY <1>11, JobsFrame, WalkFrame, AmountsFrame
  <2>3. ASSUME NEW s \in slots' PROVE WorkerKnows(s)'
    BY <1>11, <2>3, WorkerFrame
  <2> QED
    BY <2>1, <2>2, <2>3
<1> QED
  BY <1>1, <1>2, <1>3, <1>4, <1>5, <1>6, <1>7, <1>8, <1>9, <1>10, <1>11 DEF Next

\* pool.ts, useAmounts.ts: jobs, messages, pages and amounts are as the invariant says, in
\* every reachable state.
THEOREM CabinetInvariant == Spec => []CabinetInv
<1> QED
  BY InitCabinetInv, NextCabinetInv, PTL DEF Spec

\* pool.ts:67-68: no message between the page and a worker is lost, and no worker gets a job
\* before its key.
THEOREM JobsReachTheirWorkerCorrect == Spec => []JobsReachTheirWorker
<1>1. CabinetInv => JobsReachTheirWorker
  <2> SUFFICES ASSUME CabinetInv, NEW s \in slots
               PROVE  /\ current[s] # None =>
                           \/ \E i \in DOMAIN inbox[s] : inbox[s][i] = current[s]
                           \/ \E i \in DOMAIN outbox[s] : outbox[s][i] \in {current[s], "error"}
                      /\ KeyFirst(inbox[s], s, key)
    BY DEF JobsReachTheirWorker, KeyFirst
  <2>1. WorkerKnows(s)
    BY DEF CabinetInv
  <2> QED
    BY <2>1 DEF WorkerKnows, Has
<1> QED
  BY <1>1, CabinetInvariant, PTL

\* pool.ts: a promise is open exactly as long as one worker or one place of the queue holds its job.
THEOREM OneWorkerPerJobCorrect == Spec => []OneWorkerPerJob
<1>1. ASSUME CabinetInv, NEW g \in Sigs
      PROVE  Cardinality({s \in Slots : current[s] = g})
               + Cardinality({i \in DOMAIN queue : queue[i] = g})
                 = IF promise[g] = "waiting" THEN 1 ELSE 0
  <2> DEFINE at == {s \in Slots : current[s] = g}
             in == {i \in DOMAIN queue : queue[i] = g}
  <2>1. InPlace(current, queue) /\ (promise[g] = "waiting" <=> Placed(current, queue, g))
        /\ g # None
    BY <1>1, SigsAreSigs DEF CabinetInv, JobsInPlace
  <2>2. /\ \A s \in at : at = {s}
        /\ \A i \in in : in = {i}
        /\ at = {} \/ in = {}
        /\ promise[g] = "waiting" <=> at # {} \/ in # {}
    <3>1. \A s \in at : at = {s}
      BY <2>1 DEF InPlace
    <3>2. \A i \in in : in = {i}
      BY <2>1 DEF InPlace
    <3>3. at = {} \/ in = {}
      BY <2>1 DEF InPlace, Has
    <3>4. promise[g] = "waiting" <=> at # {} \/ in # {}
      BY <2>1 DEF Placed, Has
    <3> QED
      BY <3>1, <3>2, <3>3, <3>4
  <2> HIDE DEF at, in
  <2>3. ASSUME NEW S, \A x \in S : S = {x} PROVE Cardinality(S) = IF S = {} THEN 0 ELSE 1
    <3>1. CASE S = {}
      BY <3>1, FS_EmptySet
    <3>2. CASE S # {}
      <4>1. PICK x \in S : S = {x}
        BY <2>3, <3>2
      <4>2. Cardinality({x}) = 1
        BY FS_Singleton
      <4> QED
        BY <3>2, <4>1, <4>2
    <3> QED
      BY <3>1, <3>2
  <2>4. Cardinality(at) = IF at = {} THEN 0 ELSE 1
    BY <2>2, <2>3
  <2>5. Cardinality(in) = IF in = {} THEN 0 ELSE 1
    BY <2>2, <2>3
  <2>6. Cardinality(at) + Cardinality(in) = IF promise[g] = "waiting" THEN 1 ELSE 0
    BY <2>2, <2>4, <2>5
  <2> QED
    BY <2>6 DEF at, in
<1>2. CabinetInv => OneWorkerPerJob
  BY <1>1 DEF OneWorkerPerJob
<1> QED
  BY <1>2, CabinetInvariant, PTL

\* useAmounts.ts: contributions that are fetched while others are being decrypted cost no
\* amount.
THEOREM NoAmountIsMissedCorrect == Spec => []NoAmountIsMissed
<1>1. CabinetInv => NoAmountIsMissed
  BY DEF CabinetInv
<1> QED
  BY <1>1, CabinetInvariant, PTL

\* creators.ts:53-76: a walk that ends brings every row that was there when it began, and none
\* twice.
THEOREM WalkIsWholeCorrect == Spec => WalkIsWhole
<1> DEFINE Whole == walk' = "idle" /\ ReadPage =>
                      since \subseteq Range(items') /\ IsInjective(items')
<1>1. ASSUME CabinetInv, walk' = "idle", ReadPage
      PROVE  since \subseteq Range(items') /\ IsInjective(items')
  <2> DEFINE read == PageOf(cursor)
             rows == got \o read.rows
  <2>1. read.next = None /\ items' = rows /\ walk = "reading"
    BY <1>1 DEF ReadPage
  <2>2. rows \in Seq(Sigs) /\ Descending(rows) /\ \A g \in since : Has(rows, g)
    BY <1>1, <2>1, WalkOn DEF CabinetInv
  <2> HIDE DEF read, rows
  <2>3. \A i, j \in DOMAIN rows : rows[i] = rows[j] => i = j
    BY <2>2, RowsDiffer
  <2> QED
    BY <2>1, <2>2, <2>3 DEF Has, Range, IsInjective
<1>2. CabinetInv /\ [Next]_vars => [Whole]_vars
  BY <1>1
<1> HIDE DEF Whole
<1>3. Spec => [][Whole]_vars
  BY <1>2, CabinetInvariant, PTL DEF Spec
<1> QED
  BY <1>3 DEF WalkIsWhole, Whole
=============================================================================
