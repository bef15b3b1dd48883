------------------------- MODULE ProgramIndexProofs -------------------------
(***************************************************************************)
(* The events rebuild the accounts, and the pages say what happened, for   *)
(* any wallets, any history of instructions, any page size and any length  *)
(* of month.  The invariant is that the log replayed to its end gives the  *)
(* chain and replayed so far gives the index.                              *)
(***************************************************************************)
EXTENDS ProgramIndex, CcsupportProofs, SequenceTheorems

-----------------------------------------------------------------------------
(* What parseEvents makes of a logged transaction.                         *)

\* The log of a transaction that emitted one event.
Lines9(e) == <<Invoke("other"), Data(Lookalike(e)), Invoke("ccsupport"), Invoke("system"),
      Return, Data(e), Return, Data(Lookalike(e)), Return>>

\* Its lines, one by one.
LEMMA LinesOf == ASSUME NEW e, NEW l, l = Lines9(e)
 PROVE /\ Len(l) = 9
       /\ l[1].line = "invoke" /\ l[1].program = "other"
       /\ l[2].line = "data"
       /\ l[3].line = "invoke" /\ l[3].program = "ccsupport"
       /\ l[4].line = "invoke" /\ l[4].program = "system"
       /\ l[5].line = "return"
       /\ l[6].line = "data" /\ l[6].bytes = EventBytes(e)
       /\ l[7].line = "return"
       /\ l[8].line = "data"
       /\ l[9].line = "return"
BY DEF Lines9, Invoke, Return, Data

\* What Append does to a sequence.
LEMMA AppendToASequence ==
  ASSUME NEW S, NEW s \in Seq(S), NEW x \in S
  PROVE  /\ Append(s, x) \in Seq(S) /\ Len(Append(s, x)) = Len(s) + 1
         /\ \A i \in 1..Len(s) : Append(s, x)[i] = s[i]
         /\ Append(s, x)[Len(s) + 1] = x
  OBVIOUS

\* A program that begins is on top of the stack; when it returns, the stack is as it was.
LEMMA StackMoves ==
  ASSUME NEW S, NEW s \in Seq(S), NEW x \in S
  PROVE  /\ Append(s, x) \in Seq(S)
         /\ Front(Append(s, x)) = s /\ Last(Append(s, x)) = x
<1> DEFINE t == Append(s, x)
<1>1. /\ t \in Seq(S) /\ Len(t) = Len(s) + 1 /\ Len(s) \in Nat
      /\ \A i \in 1..Len(s) : t[i] = s[i]
      /\ t[Len(s) + 1] = x
  BY AppendToASequence
<1> HIDE DEF t
<1>2. Last(t) = x
  BY <1>1 DEF Last
<1>3. Front(t) = SubSeq(t, 1, Len(s))
  BY <1>1 DEF Front
<1>4. /\ SubSeq(t, 1, Len(s)) \in Seq(S) /\ Len(SubSeq(t, 1, Len(s))) = Len(s)
      /\ \A i \in 1..Len(s) : SubSeq(t, 1, Len(s))[i] = s[i]
  BY <1>1, SubSeqProperties
<1>5. SubSeq(t, 1, Len(s)) = s
  <2> DEFINE u == SubSeq(t, 1, Len(s))
  <2>1. u \in Seq(S) /\ Len(u) = Len(s) /\ \A i \in 1..Len(s) : u[i] = s[i]
    BY <1>4
  <2> HIDE DEF u
  <2>2. u = s
    BY <2>1, SeqEqual
  <2> QED
    BY <2>2 DEF u
<1> QED
  BY <1>1, <1>2, <1>3, <1>5 DEF t

\* A sequence of one.
LEMMA AppendToNone == ASSUME NEW a PROVE Append(<<>>, a) = <<a>>
<1>1. a \in {a} /\ <<>> \in Seq({a}) /\ <<a>> \in Seq({a})
  OBVIOUS
<1> QED
  BY <1>1, AppendProperties, SeqEqual

\* Who is on top of the stack at the data lines of the log of one event.
LEMMA Stacked ==
  ASSUME NEW e, NEW l, l = Lines9(e)
  PROVE  LET s == InvokeStack(l) IN
         /\ Last(s[2]) = "other"
         /\ Last(s[6]) = "ccsupport"
         /\ Last(s[8]) = "other"
<1> DEFINE Next1(f, i) ==
             IF i = 0 THEN <<>>
             ELSE IF l[i].line = "invoke" THEN Append(f[i - 1], l[i].program)
             ELSE IF l[i].line = "return" THEN Front(f[i - 1])
             ELSE f[i - 1]
           nil == <<>>
           o == Append(nil, "other")
           oc == Append(o, "ccsupport")
           ocs == Append(oc, "system")
           S == {"ccsupport", "system", "other"}
<1>1. /\ Len(l) = 9
      /\ l[1].line = "invoke" /\ l[1].program = "other"
      /\ l[2].line = "data"
      /\ l[3].line = "invoke" /\ l[3].program = "ccsupport"
      /\ l[4].line = "invoke" /\ l[4].program = "system"
      /\ l[5].line = "return"
      /\ l[6].line = "data"
      /\ l[7].line = "return"
      /\ l[8].line = "data"
      /\ l[9].line = "return"
  BY LinesOf
<1>2. /\ Append(nil, "other") = o /\ Append(o, "ccsupport") = oc
      /\ Append(oc, "system") = ocs
      /\ Front(ocs) = oc /\ Front(oc) = o /\ Front(o) = nil
      /\ Last(oc) = "ccsupport" /\ Last(o) = "other"
  <2>1. "ccsupport" \in S /\ "other" \in S /\ "system" \in S /\ nil \in Seq(S)
    OBVIOUS
  <2> HIDE DEF S, nil
  <2>2. o \in Seq(S) /\ Front(o) = nil /\ Last(o) = "other"
    BY <2>1, StackMoves
  <2> HIDE DEF o
  <2>3. oc \in Seq(S) /\ Front(oc) = o /\ Last(oc) = "ccsupport"
    BY <2>1, <2>2, StackMoves
  <2> HIDE DEF oc
  <2>4. Front(ocs) = oc
    BY <2>1, <2>3, StackMoves
  <2> QED
    BY <2>2, <2>3, <2>4 DEF o, oc
<1> HIDE DEF o, oc, ocs, nil
<1> DEFINE W == [i \in 0..9 |-> IF i \in {0, 9} THEN nil ELSE IF i \in {1, 2, 7, 8} THEN o
                  ELSE IF i = 4 THEN ocs ELSE oc]
<1>3. W = [i \in 0..9 |-> Next1(W, i)]
  <2>1. \A i \in 0..9 : W[i] = IF i \in {0, 9} THEN nil ELSE IF i \in {1, 2, 7, 8} THEN o
                  ELSE IF i = 4 THEN ocs ELSE oc
    OBVIOUS
  <2> HIDE DEF W
  <2>0. Next1(W, 0) = W[0]
    BY <2>1 DEF nil
  <2>2. Next1(W, 1) = W[1]
    BY <2>1, <1>1, <1>2
  <2>3. Next1(W, 2) = W[2]
    BY <2>1, <1>1, <1>2
  <2>4. Next1(W, 3) = W[3]
    BY <2>1, <1>1, <1>2
  <2>5. Next1(W, 4) = W[4]
    BY <2>1, <1>1, <1>2
  <2>6. Next1(W, 5) = W[5]
    BY <2>1, <1>1, <1>2
  <2>7. Next1(W, 6) = W[6]
    BY <2>1, <1>1, <1>2
  <2>8. Next1(W, 7) = W[7]
    BY <2>1, <1>1, <1>2
  <2>9. Next1(W, 8) = W[8]
    BY <2>1, <1>1, <1>2
  <2>10. Next1(W, 9) = W[9]
    BY <2>1, <1>1, <1>2
  <2>11. \A i \in 0..9 : i \in {0, 1, 2, 3, 4, 5, 6, 7, 8, 9}
    OBVIOUS
  <2> HIDE DEF Next1
  <2>12. \A i \in 0..9 : Next1(W, i) = W[i]
    BY <2>0, <2>2, <2>3, <2>4, <2>5, <2>6, <2>7, <2>8, <2>9, <2>10, <2>11
  <2>13. W = [i \in 0..9 |-> W[i]]
    BY DEF W
  <2> QED
    BY <2>12, <2>13
<1>4. InvokeStack(l) = CHOOSE f : f = [i \in 0..9 |-> Next1(f, i)]
  BY <1>1 DEF InvokeStack
<1> DEFINE s == InvokeStack(l)
<1>5. s = [i \in 0..9 |-> Next1(s, i)]
  <2> HIDE DEF Next1, W
  <2> QED
    BY <1>3, <1>4
<1> HIDE DEF s
<1>6. \A i \in 0..9 : s[i] = Next1(s, i)
  BY <1>5
<1> HIDE DEF Next1
<1>7. s[0] = nil
  BY <1>6 DEF Next1, nil
<1>8. s[1] = o
  <2>1. s[1] = Next1(s, 1)
    BY <1>6
  <2>2. Next1(s, 1) = Append(s[0], l[1].program)
    BY <1>1 DEF Next1
  <2> QED
    BY <2>1, <2>2, <1>7, <1>1, <1>2
<1>9. s[2] = o
  BY <1>6, <1>8, <1>1, <1>2 DEF Next1
<1>10. s[3] = oc
  <2>1. s[3] = Next1(s, 3)
    BY <1>6
  <2>2. Next1(s, 3) = Append(s[2], l[3].program)
    BY <1>1 DEF Next1
  <2> QED
    BY <2>1, <2>2, <1>9, <1>1, <1>2
<1>11. s[4] = ocs
  <2>1. s[4] = Next1(s, 4)
    BY <1>6
  <2>2. Next1(s, 4) = Append(s[3], l[4].program)
    BY <1>1 DEF Next1
  <2> QED
    BY <2>1, <2>2, <1>10, <1>1, <1>2
<1>12. s[5] = oc
  BY <1>6, <1>11, <1>1, <1>2 DEF Next1
<1>13. s[6] = oc
  BY <1>6, <1>12, <1>1, <1>2 DEF Next1
<1>14. s[7] = o
  BY <1>6, <1>13, <1>1, <1>2 DEF Next1
<1>15. s[8] = o
  BY <1>6, <1>14, <1>1, <1>2 DEF Next1
<1> QED
  BY <1>9, <1>13, <1>15, <1>2 DEF s

\* The events by kind, as record sets.
ProfileEvents(kind) ==
  [kind : {kind}, wallet : Wallets, handle : Handles, text : Texts, suggested_amount : Amounts,
   slot : U64]
PledgedEvents ==
  [kind : {"pledged"}, creator : Wallets, supporter : Wallets, periods : 1..MaxPeriods,
        started_at : Nat, expires_at : Nat, periods_total : U32, contributions : U32,
        show_publicly : BOOLEAN, slot : U64]
VisibilityEvents ==
  [kind : {"visibilityChanged"}, creator : Wallets, supporter : Wallets,
        show_publicly : BOOLEAN, slot : U64]

\* An event is of one of the four kinds.
LEMMA EventKinds ==
  ASSUME NEW e \in Event \ {NoEvent}
  PROVE  \/ e \in ProfileEvents("creatorRegistered")
         \/ e \in ProfileEvents("creatorUpdated")
         \/ e \in PledgedEvents
         \/ e \in VisibilityEvents
  BY DEF Event, NoEvent, ProfileEvents, PledgedEvents, VisibilityEvents

\* Borsh there and back: what decodeEvent reads is what emit! wrote, kind by kind.
LEMMA RegisteredCrosses ==
  ASSUME NEW e \in ProfileEvents("creatorRegistered")
  PROVE  e.kind = "creatorRegistered" /\ DecodeEvent(EventBytes(e)) = e /\ e # NotAnEvent
<1>1. e.kind = "creatorRegistered"
  BY DEF ProfileEvents
<1> DEFINE b == <<"CreatorRegistered", e.wallet, e.handle, e.text, e.suggested_amount, e.slot>>
<1>2. EventBytes(e) = b
  BY <1>1, Zenon DEF EventBytes
<1>3. b[1] = "CreatorRegistered"
  OBVIOUS
<1>4. DecodeCreatorRegisteredEvent(b) = e
  BY DEF DecodeCreatorRegisteredEvent, ProfileEvents
<1>5. DecodeEvent(b) = DecodeCreatorRegisteredEvent(b)
  <2> HIDE DEF b
  <2> QED
    BY <1>3, Zenon DEF DecodeEvent
<1> QED
  BY <1>1, <1>2, <1>4, <1>5 DEF NotAnEvent

LEMMA VisCrosses ==
  ASSUME NEW e \in VisibilityEvents
  PROVE  e.kind = "visibilityChanged" /\ DecodeEvent(EventBytes(e)) = e /\ e # NotAnEvent
<1>1. e.kind = "visibilityChanged"
  BY DEF VisibilityEvents
<1> DEFINE b == <<"VisibilityChanged", e.creator, e.supporter, e.show_publicly, e.slot>>
<1>2. EventBytes(e) = b
  BY <1>1, Zenon DEF EventBytes
<1>3. b[1] = "VisibilityChanged"
  OBVIOUS
<1>4. DecodeVisibilityChangedEvent(b) = e
  BY DEF DecodeVisibilityChangedEvent, VisibilityEvents
<1>5. DecodeEvent(b) = DecodeVisibilityChangedEvent(b)
  <2> HIDE DEF b
  <2> QED
    BY <1>3, Zenon DEF DecodeEvent
<1> QED
  BY <1>1, <1>2, <1>4, <1>5 DEF NotAnEvent

LEMMA UpdatedCrosses ==
  ASSUME NEW e \in ProfileEvents("creatorUpdated")
  PROVE  e.kind = "creatorUpdated" /\ DecodeEvent(EventBytes(e)) = e /\ e # NotAnEvent
<1>1. e.kind = "creatorUpdated"
  BY DEF ProfileEvents
<1> DEFINE b == <<"CreatorUpdated", e.wallet, e.handle, e.text, e.suggested_amount, e.slot>>
<1>2. EventBytes(e) = b
  BY <1>1, Zenon DEF EventBytes
<1>3. b[1] = "CreatorUpdated"
  OBVIOUS
<1>4. DecodeCreatorUpdatedEvent(b) = e
  BY DEF DecodeCreatorUpdatedEvent, ProfileEvents
<1>5. DecodeEvent(b) = DecodeCreatorUpdatedEvent(b)
  <2> HIDE DEF b
  <2> QED
    BY <1>3, Zenon DEF DecodeEvent
<1> QED
  BY <1>1, <1>2, <1>4, <1>5 DEF NotAnEvent

LEMMA PledgedCrosses ==
  ASSUME NEW e \in PledgedEvents
  PROVE  e.kind = "pledged" /\ DecodeEvent(EventBytes(e)) = e /\ e # NotAnEvent
<1>1. e.kind = "pledged"
  BY DEF PledgedEvents
<1> DEFINE b == <<"Pledged", e.creator, e.supporter, e.periods, e.started_at, e.expires_at,
           e.periods_total, e.contributions, e.show_publicly, e.slot>>
<1>2. EventBytes(e) = b
  BY <1>1, Zenon DEF EventBytes
<1>3. b[1] = "Pledged"
  OBVIOUS
<1>4. DecodePledgedEvent(b) = e
  BY DEF DecodePledgedEvent, PledgedEvents
<1>5. DecodeEvent(b) = DecodePledgedEvent(b)
  <2> HIDE DEF b
  <2> QED
    BY <1>3, Zenon DEF DecodeEvent
<1> QED
  BY <1>1, <1>2, <1>4, <1>5 DEF NotAnEvent

\* parseEvents finds the program's event, and the lookalikes of the other program not.
LEMMA Parsed ==
  ASSUME NEW e, NEW l, l = Lines9(e), DecodeEvent(EventBytes(e)) = e, e # NotAnEvent
  PROVE  ParseEvents(l) = <<e>>
<1> DEFINE Next1(f, i) ==
        IF i = 0 THEN <<>>
        ELSE IF OwnData(l, i) /\ DecodeEvent(l[i].bytes) # NotAnEvent
          THEN Append(f[i - 1], DecodeEvent(l[i].bytes))
          ELSE f[i - 1]
<1>1. Len(l) = 9
  BY LinesOf
<1>2. /\ OwnData(l, 6) /\ DecodeEvent(l[6].bytes) = e
      /\ \A i \in 1..9 : i # 6 => ~OwnData(l, i)
  <2>1. /\ l[1].line = "invoke" /\ l[3].line = "invoke" /\ l[4].line = "invoke"
        /\ l[6].line = "data" /\ l[6].bytes = EventBytes(e)
        /\ l[5].line = "return" /\ l[7].line = "return" /\ l[9].line = "return"
    BY LinesOf
  <2>2. /\ Last(InvokeStack(l)[6]) = "ccsupport"
        /\ Last(InvokeStack(l)[2]) = "other" /\ Last(InvokeStack(l)[8]) = "other"
    BY Stacked
  <2>3. \A i \in 1..9 : i \in {1, 2, 3, 4, 5, 6, 7, 8, 9}
    OBVIOUS
  <2> QED
    BY <2>1, <2>2, <2>3 DEF OwnData
<1> DEFINE nil == <<>>
           one == <<e>>
           W == [i \in 0..9 |-> IF i < 6 THEN nil ELSE one]
<1>3. Append(nil, e) = one
  BY AppendToNone
<1>nil. nil = <<>>
  OBVIOUS
<1> HIDE DEF nil, one
<1>4. W = [i \in 0..9 |-> Next1(W, i)]
  <2>1. \A i \in 0..9 : W[i] = IF i < 6 THEN nil ELSE one
    OBVIOUS
  <2>2. DOMAIN W = 0..9 /\ W = [i \in 0..9 |-> W[i]]
    OBVIOUS
  <2> HIDE DEF W
  <2>3. ASSUME NEW i \in 0..9 PROVE Next1(W, i) = W[i]
    <3>1. CASE i = 0
      BY <3>1, <2>1, <1>nil
    <3>2. CASE i = 6
      BY <3>2, <2>1, <1>2, <1>3
    <3>3. CASE i # 0 /\ i # 6
      BY <3>3, <2>1, <1>2
    <3> QED
      BY <3>1, <3>2, <3>3
  <2> HIDE DEF Next1
  <2> QED
    BY <2>2, <2>3
<1>5. \A f : f = [i \in 0..9 |-> Next1(f, i)] => f[9] = one
  <2> SUFFICES ASSUME NEW f, f = [i \in 0..9 |-> Next1(f, i)] PROVE f[9] = one
    OBVIOUS
  <2>0. \A i \in 0..9 : f[i] = Next1(f, i)
    <3> HIDE DEF Next1
    <3> QED
      OBVIOUS
  <2>1. f[0] = nil
    BY <2>0, <1>nil
  <2>2. ASSUME NEW i \in 1..9, i # 6 PROVE f[i] = f[i - 1]
    <3>1. ~OwnData(l, i) /\ i # 0 /\ i \in 0..9
      BY <2>2, <1>2
    <3>2. f[i] = Next1(f, i)
      BY <3>1, <2>0
    <3> QED
      BY <3>1, <3>2
  <2>3. f[1] = f[0] /\ f[2] = f[1] /\ f[3] = f[2] /\ f[4] = f[3] /\ f[5] = f[4]
    BY <2>2
  <2>4. f[6] = Append(f[5], e)
    BY <2>0, <1>2
  <2>5. f[7] = f[6] /\ f[8] = f[7] /\ f[9] = f[8]
    BY <2>2
  <2> HIDE DEF Next1
  <2> QED
    BY <2>1, <2>3, <2>4, <2>5, <1>3
<1>6. ParseEvents(l) = (CHOOSE f : f = [i \in 0..9 |-> Next1(f, i)])[9]
  BY <1>1 DEF ParseEvents
<1> QED
  <2> HIDE DEF Next1, W
  <2> QED
    BY <1>4, <1>5, <1>6 DEF one

\* The log lines of a transaction of one event.
LEMMA LogLinesOfOne == ASSUME NEW e PROVE LogLines(<<e>>) = Lines9(e)
<1> DEFINE seqs == [i \in DOMAIN <<e>> |->
    <<Invoke("other"), Data(Lookalike(<<e>>[i])), Invoke("ccsupport"), Invoke("system"),
      Return, Data(<<e>>[i]), Return, Data(Lookalike(<<e>>[i])), Return>>]
           Next1(f, i) == IF i = 1 THEN seqs[i] ELSE f[i-1] \o seqs[i]
           l == Lines9(e)
<1>1. DOMAIN <<e>> = 1..1 /\ <<e>>[1] = e
  OBVIOUS
<1>2. Len(seqs) = 1 /\ seqs[1] = l
  BY <1>1 DEF Lines9
<1>3. LogLines(<<e>>) = FlattenSeq(seqs)
  BY DEF LogLines
<1> HIDE DEF seqs, l
<1>4. FlattenSeq(seqs) = (CHOOSE f : f = [i \in 1..1 |-> Next1(f, i)])[1]
  BY <1>2 DEF FlattenSeq
<1> DEFINE W == [i \in 1..1 |-> l]
<1>5. W = [i \in 1..1 |-> Next1(W, i)]
  BY <1>2
<1>6. \A f : f = [i \in 1..1 |-> Next1(f, i)] => f[1] = l
  BY <1>2
<1> QED
  <2> HIDE DEF Next1, W
  <2> QED
    BY <1>3, <1>4, <1>5, <1>6 DEF l

\* So the worker has a transaction as the program logged it.
LEMMA ReceivedIsSent ==
  ASSUME NEW e \in Event \ {NoEvent}, NEW tx, tx = [tx EXCEPT !.events = <<e>>]
  PROVE  Received(tx) = tx
<1>1. DecodeEvent(EventBytes(e)) = e /\ e # NotAnEvent
  BY EventKinds, RegisteredCrosses, UpdatedCrosses, PledgedCrosses, VisCrosses
<1>2. ParseEvents(LogLines(<<e>>)) = <<e>>
  BY <1>1, LogLinesOfOne, Parsed
<1> QED
  BY <1>2 DEF Received

\* The fold of createApplier over one event.
LEMMA OutcomeOfOne ==
  ASSUME NEW table, NEW tx, NEW e, EventsOf(tx) = <<e>>
  PROVE  /\ Accepts(table, tx) <=> Admits(table, e)
         /\ Admits(table, e) => Apply(table, tx) = WriteEvent(table, tx, e)
<1> DEFINE events == EventsOf(tx)
           D == DOMAIN events
           base == [ok |-> TRUE, index |-> table]
           Step(done, d) == [ok |-> done.ok /\ Admits(done.index, d),
                             index |-> IF done.ok /\ Admits(done.index, d)
                                         THEN WriteEvent(done.index, tx, d)
                                         ELSE done.index]
           Next1(f, s) == IF s = {} THEN base ELSE Step(f[s \ {Max(s)}], events[Max(s)])
<1>1. D = {1} /\ events[1] = e
  OBVIOUS
<1>2. Outcome(table, tx) = (CHOOSE f : f = [s \in SUBSET D |-> Next1(f, s)])[D]
  BY Zenon DEF Outcome, FoldLeft, MapThenFoldSet
<1>3. Max({1}) = 1
  <2>1. \A x : x \in {1} /\ (\A y \in {1} : x >= y) <=> x = 1
    OBVIOUS
  <2> QED
    BY <2>1 DEF Max
<1> DEFINE W == [s \in SUBSET D |-> IF s = {} THEN base ELSE Step(base, e)]
<1> HIDE DEF base, Step, events, D
<1>4. \A s \in SUBSET D : s = {} \/ s = {1}
  BY <1>1
<1>5. {1} \ {1} = {} /\ {} \in SUBSET D /\ {1} \in SUBSET D /\ {1} # {}
  BY <1>1
<1>6. W = [s \in SUBSET D |-> Next1(W, s)]
  <2>1. W[{}] = base
    BY <1>5
  <2>2. ASSUME NEW s \in SUBSET D PROVE W[s] = Next1(W, s)
    <3>1. CASE s = {}
      BY <3>1, <2>1
    <3>2. CASE s = {1}
      <4>1. W[s] = Step(base, e)
        BY <3>2, <1>5
      <4>2. Next1(W, s) = Step(W[{}], e)
        <5> HIDE DEF W
        <5> QED
          BY <3>2, <1>1, <1>3, <1>5
      <4> QED
        BY <4>1, <4>2, <2>1
    <3> QED
      BY <3>1, <3>2, <1>4
  <2> HIDE DEF Next1
  <2> QED
    BY <2>2
<1>7. ASSUME NEW f, f = [s \in SUBSET D |-> Next1(f, s)] PROVE f[D] = Step(base, e)
  <2>1. \A s \in SUBSET D : f[s] = Next1(f, s)
    <3> HIDE DEF Next1
    <3> QED
      BY <1>7
  <2>2. f[{}] = base
    BY <2>1, <1>5
  <2>3. f[{1}] = Next1(f, {1})
    BY <2>1, <1>5
  <2>4. Next1(f, {1}) = Step(f[{}], e)
    BY <1>1, <1>3, <1>5
  <2> QED
    BY <2>2, <2>3, <2>4, <1>1
<1>8. Outcome(table, tx) = Step(base, e)
  <2> HIDE DEF Next1, W
  <2> QED
    BY <1>2, <1>6, <1>7
<1>9. Step(base, e).ok <=> Admits(table, e)
  BY Zenon DEF base, Step
<1>10. Admits(table, e) => Step(base, e).index = WriteEvent(table, tx, e)
  BY Zenon DEF base, Step
<1> QED
  BY <1>8, <1>9, <1>10 DEF Accepts, Apply

-----------------------------------------------------------------------------
(* What the worker writes for an event.                                    *)

\* The rows of the three tables, the tables of some keys, the index, the transactions.
CreatorRows == [handle : Handles, text : Texts, suggested_amount : Amounts, created_slot : Nat]
PledgeRows == [started_at : Nat, expires_at : Nat, periods_total : Nat, contributions : Nat,
               show_publicly : BOOLEAN, last_sig : Nat, last_slot : Nat]
ContributionRows == [creator : Wallets, supporter : Wallets, slot : Nat, periods : Nat,
                     kind : {"first", "renewal"}]
TablesOf(keys, rows) == UNION {[S -> rows] : S \in SUBSET keys}
Indexes == [creators : TablesOf(Wallets, CreatorRows), pledges : TablesOf(Pairs, PledgeRows),
            contributions : TablesOf(Nat, ContributionRows)]
Transactions == [sig : Nat, slot : Nat, failed : BOOLEAN,
                 events : {<<e>> : e \in Event \ {NoEvent}}]

\* A database that says what the accounts say.
IsTheChain(table) == CreatorsAreIn(table.creators) /\ PledgesAreIn(table.pledges)

\* The empty database is one.
LEMMA EmptyIndexType == EmptyIndex \in Indexes
<1>1. \A S : <<>> \in [{} -> S]
  OBVIOUS
<1> HIDE DEF CreatorRows
<1>2. <<>> \in TablesOf(Wallets, CreatorRows)
  BY <1>1 DEF TablesOf
<1>3. <<>> \in TablesOf(Pairs, PledgeRows)
  BY <1>1 DEF TablesOf
<1>4. <<>> \in TablesOf(Nat, ContributionRows)
  BY <1>1 DEF TablesOf
<1> QED
  BY <1>2, <1>3, <1>4 DEF EmptyIndex, Indexes

\* A row put into a table: what it holds, which keys it has, and that it stays a table.
LEMMA PutIs ==
  ASSUME NEW table, NEW key, NEW row
  PROVE  /\ Put(table, key, row)[key] = row
         /\ \A k \in DOMAIN table : k # key => Put(table, key, row)[k] = table[k]
BY DEF Put

LEMMA PutDomain ==
  ASSUME NEW table, NEW key, NEW row
  PROVE  DOMAIN Put(table, key, row) = DOMAIN table \cup {key}
BY DEF Put

LEMMA PutType ==
  ASSUME NEW K, NEW R, NEW table \in TablesOf(K, R), NEW key \in K, NEW row \in R
  PROVE  Put(table, key, row) \in TablesOf(K, R)
<1>1. PICK S \in SUBSET K : table \in [S -> R]
  BY DEF TablesOf
<1>2. Put(table, key, row) \in [S \cup {key} -> R]
  BY <1>1 DEF Put
<1> QED
  BY <1>1, <1>2 DEF TablesOf

\* creatorUpsert of a new wallet.
LEMMA UpsertCreates ==
  ASSUME NEW table \in Indexes, NEW e, e.wallet \in Wallets,
       e.wallet \notin DOMAIN table.creators,
         e.handle \in Handles, e.text \in Texts, e.suggested_amount \in Amounts, e.slot \in Nat
  PROVE  LET new == CreatorUpsert(table, e) IN
         /\ new \in Indexes /\ new.pledges = table.pledges
         /\ DOMAIN new.creators = DOMAIN table.creators \cup {e.wallet}
         /\ new.creators[e.wallet].handle = e.handle /\ new.creators[e.wallet].text = e.text
         /\ new.creators[e.wallet].suggested_amount = e.suggested_amount
         /\ \A w \in DOMAIN table.creators : w # e.wallet => new.creators[w] = table.creators[w]
<1> DEFINE row == [handle |-> e.handle, text |-> e.text,
                   suggested_amount |-> e.suggested_amount, created_slot |-> e.slot]
           old == table.creators
           put == Put(old, e.wallet, row)
           Tables == TablesOf(Wallets, CreatorRows)
<1>1. row \in CreatorRows
  BY DEF CreatorRows
<1>2. CreatorUpsert(table, e) = [table EXCEPT !.creators = put]
  BY DEF CreatorUpsert
<1>3. old \in Tables
  BY DEF Indexes
<1>4. row.handle = e.handle /\ row.text = e.text /\ row.suggested_amount = e.suggested_amount
  OBVIOUS
<1> HIDE DEF row, old
<1>5. /\ put \in Tables /\ DOMAIN put = DOMAIN old \cup {e.wallet}
      /\ put[e.wallet] = row
      /\ \A w \in DOMAIN old : w # e.wallet => put[w] = old[w]
  <2>1. put \in TablesOf(Wallets, CreatorRows)
    BY <1>1, <1>3, PutType
  <2>2. DOMAIN put = DOMAIN old \cup {e.wallet}
    BY PutDomain
  <2>3. put[e.wallet] = row /\ \A w \in DOMAIN old : w # e.wallet => put[w] = old[w]
    BY PutIs
  <2> HIDE DEF put
  <2> QED
    BY <2>1, <2>2, <2>3
<1> HIDE DEF put
<1>6. [table EXCEPT !.creators = put].creators = put
  BY DEF Indexes
<1>7. [table EXCEPT !.creators = put] \in Indexes
  BY <1>5 DEF Indexes
<1> QED
  BY <1>2, <1>4, <1>5, <1>6, <1>7 DEF Indexes, old

\* creatorUpsert of a known wallet: its handle stays.
LEMMA UpsertUpdates ==
  ASSUME NEW table \in Indexes, NEW e, e.wallet \in DOMAIN table.creators,
         e.text \in Texts, e.suggested_amount \in Amounts
  PROVE  LET new == CreatorUpsert(table, e) IN
         /\ new \in Indexes /\ new.pledges = table.pledges
         /\ DOMAIN new.creators = DOMAIN table.creators
         /\ new.creators[e.wallet].handle = table.creators[e.wallet].handle
         /\ new.creators[e.wallet].text = e.text
         /\ new.creators[e.wallet].suggested_amount = e.suggested_amount
         /\ \A w \in DOMAIN table.creators : w # e.wallet => new.creators[w] = table.creators[w]
<1> DEFINE old == table.creators
           put == [old EXCEPT ![e.wallet].text = e.text,
                              ![e.wallet].suggested_amount = e.suggested_amount]
           row == [old[e.wallet] EXCEPT !.text = e.text,
                                        !.suggested_amount = e.suggested_amount]
<1>1. CreatorUpsert(table, e) = [table EXCEPT !.creators = put]
  BY DEF CreatorUpsert
<1>2. PICK S \in SUBSET Wallets : old \in [S -> CreatorRows]
  BY DEF Indexes, TablesOf
<1>3. old[e.wallet] \in CreatorRows
  BY <1>2
<1>4. /\ row \in CreatorRows /\ row.handle = old[e.wallet].handle /\ row.text = e.text
      /\ row.suggested_amount = e.suggested_amount
  BY <1>3 DEF CreatorRows
<1>5. put = [old EXCEPT ![e.wallet] = row]
  BY <1>2, <1>3 DEF CreatorRows
<1> HIDE DEF row, put
<1>6. /\ put \in [S -> CreatorRows] /\ DOMAIN put = DOMAIN old /\ put[e.wallet] = row
      /\ \A w \in DOMAIN old : w # e.wallet => put[w] = old[w]
  BY <1>2, <1>4, <1>5
<1>7. [table EXCEPT !.creators = put].creators = put
  BY DEF Indexes
<1>8. [table EXCEPT !.creators = put] \in Indexes
  BY <1>6 DEF Indexes, TablesOf
<1> QED
  BY <1>1, <1>4, <1>6, <1>7, <1>8 DEF Indexes

\* pledgeUpsert and contributionInsert: the snapshot is in, whatever was there.
LEMMA PledgeIsWritten ==
  ASSUME NEW table \in Indexes, NEW tx, NEW e \in PledgedEvents, tx.sig \in Nat, tx.slot \in Nat
  PROVE  LET new == ContributionInsert(PledgeUpsert(table, tx, e), tx, e)
             p == <<e.creator, e.supporter>> IN
         /\ new \in Indexes /\ new.creators = table.creators
         /\ DOMAIN new.pledges = DOMAIN table.pledges \cup {p}
         /\ new.pledges[p] = PledgeRow(tx, e)
         /\ \A q \in DOMAIN table.pledges : q # p => new.pledges[q] = table.pledges[q]
<1> DEFINE p == <<e.creator, e.supporter>>
           row == PledgeRow(tx, e)
           old == table.pledges
           put == Put(old, p, row)
           mid == [table EXCEPT !.pledges = put]
<1>1. row \in PledgeRows /\ p \in Pairs /\ old \in TablesOf(Pairs, PledgeRows)
  BY DEF PledgeRow, PledgeRows, PledgedEvents, Pairs, Indexes, U32
<1>2. PledgeUpsert(table, tx, e) = mid
  BY DEF PledgeUpsert
<1> HIDE DEF row, p, old
<1>3. /\ put \in TablesOf(Pairs, PledgeRows) /\ DOMAIN put = DOMAIN old \cup {p} /\ put[p] = row
      /\ \A q \in DOMAIN old : q # p => put[q] = old[q]
  <2>1. put \in TablesOf(Pairs, PledgeRows)
    BY <1>1, PutType
  <2>2. DOMAIN put = DOMAIN old \cup {p}
    BY PutDomain
  <2>3. put[p] = row /\ \A q \in DOMAIN old : q # p => put[q] = old[q]
    BY PutIs
  <2> HIDE DEF put
  <2> QED
    BY <2>1, <2>2, <2>3
<1> HIDE DEF put
<1>4. mid \in Indexes /\ mid.pledges = put /\ mid.creators = table.creators
  BY <1>3 DEF Indexes
<1> HIDE DEF mid
<1> DEFINE was == mid.contributions
           crow == ContributionRow(tx, e)
           now == IF tx.sig \in DOMAIN was THEN was ELSE Put(was, tx.sig, crow)
           new == [mid EXCEPT !.contributions = now]
<1>5. ContributionInsert(mid, tx, e) = new
  BY DEF ContributionInsert
<1>6. crow \in ContributionRows /\ was \in TablesOf(Nat, ContributionRows)
  <2>1. /\ e.periods \in Nat /\ e.contributions \in Nat
        /\ e.creator \in Wallets /\ e.supporter \in Wallets
    BY PeriodsAssumption DEF PledgedEvents, U32
  <2> QED
    BY <2>1, <1>4 DEF ContributionRow, ContributionRows, Indexes
<1> HIDE DEF was, crow
<1>7. now \in TablesOf(Nat, ContributionRows)
  BY <1>6, PutType, PutIs
<1> HIDE DEF now
<1>8. new \in Indexes /\ new.creators = mid.creators /\ new.pledges = mid.pledges
  BY <1>4, <1>7 DEF Indexes
<1> HIDE DEF new
<1> QED
  BY <1>2, <1>3, <1>4, <1>5, <1>8 DEF p, row, old

\* visibilityUpdate of a row that is there.
LEMMA VisibilityIsWritten ==
  ASSUME NEW table \in Indexes, NEW e \in VisibilityEvents,
         <<e.creator, e.supporter>> \in DOMAIN table.pledges
  PROVE  LET new == VisibilityUpdate(table, e)
             p == <<e.creator, e.supporter>> IN
         /\ new \in Indexes /\ new.creators = table.creators
         /\ DOMAIN new.pledges = DOMAIN table.pledges
         /\ new.pledges[p] = [table.pledges[p] EXCEPT !.show_publicly = e.show_publicly]
         /\ \A q \in DOMAIN table.pledges : q # p => new.pledges[q] = table.pledges[q]
<1> DEFINE p == <<e.creator, e.supporter>>
           old == table.pledges
           row == [old[p] EXCEPT !.show_publicly = e.show_publicly]
           put == [old EXCEPT ![p] = row]
           new == [table EXCEPT !.pledges = put]
<1>1. VisibilityUpdate(table, e) = new
  BY DEF VisibilityUpdate
<1>2. PICK S \in SUBSET Pairs : old \in [S -> PledgeRows]
  BY DEF Indexes, TablesOf
<1>3. row \in PledgeRows
  BY <1>2 DEF PledgeRows, VisibilityEvents
<1>4. p \in DOMAIN old
  OBVIOUS
<1> HIDE DEF row, p
<1>5. /\ put \in [S -> PledgeRows] /\ DOMAIN put = DOMAIN old /\ put[p] = row
      /\ \A q \in DOMAIN old : q # p => put[q] = old[q]
  BY <1>2, <1>3, <1>4
<1> HIDE DEF put
<1>6. new \in Indexes /\ new.creators = table.creators /\ new.pledges = put
  BY <1>5 DEF Indexes, TablesOf
<1> HIDE DEF new
<1> QED
  BY <1>1, <1>5, <1>6 DEF p, row

\* planWrites and the schema, kind by kind.
LEMMA WritesByKind ==
  ASSUME NEW table, NEW tx, NEW e
  PROVE  /\ e.kind = "pledged" =>
              /\ WriteEvent(table, tx, e) = ContributionInsert(PledgeUpsert(table, tx, e), tx, e)
              /\ Admits(table, e) <=> e.creator \in DOMAIN table.creators
         /\ e.kind = "visibilityChanged" =>
              WriteEvent(table, tx, e) = VisibilityUpdate(table, e) /\ Admits(table, e)
         /\ e.kind \in {"creatorRegistered", "creatorUpdated"} =>
              /\ WriteEvent(table, tx, e) = CreatorUpsert(table, e)
              /\ Admits(table, e) <=>
                   \A w \in DOMAIN table.creators :
                     table.creators[w].handle = e.handle => w = e.wallet
<1>1. CASE e.kind = "pledged"
  BY <1>1, Zenon DEF WriteEvent, Admits
<1>2. CASE e.kind = "visibilityChanged"
  BY <1>2, Zenon DEF WriteEvent, Admits
<1>3. CASE e.kind \in {"creatorRegistered", "creatorUpdated"}
  BY <1>3, Zenon DEF WriteEvent, Admits
<1> QED
  BY <1>1, <1>2, <1>3, Zenon

\* register_creator and its event: a database that was the chain before is it after.
LEMMA RegistrationIsWritten ==
  ASSUME TypeOK, HandlesAndCreatorsAgree,
         NEW w \in Wallets, NEW handle \in Handles, NEW text \in Texts,
         RegisterCreator(w, handle, text),
         NEW table \in Indexes, IsTheChain(table), NEW tx,
         NEW e, e = event', NEW new, new = WriteEvent(table, tx, e)
  PROVE  /\ Admits(table, e)
         /\ new \in Indexes /\ CreatorsAreIn(new.creators)' /\ PledgesAreIn(new.pledges)'
<1> DEFINE made == CreatorUpsert(table, e)
<1>1. /\ e.kind = "creatorRegistered" /\ e.wallet = w /\ e.handle = handle /\ e.text = text
      /\ e.suggested_amount = 0 /\ e.slot \in Nat
  BY DEF RegisterCreator, TypeOK, U64
<1>2. creators[w] = NoAccount /\ handles[handle] = NoAccount /\ UNCHANGED pledges
  BY DEF RegisterCreator, Vacant
<1>3. /\ creators'[w] # NoAccount /\ creators'[w].handle = handle /\ creators'[w].text = text
      /\ creators'[w].suggested_amount = 0
      /\ \A v \in Wallets : v # w => creators'[v] = creators[v]
  <2>1. creators'[w] \in Creator
    BY CcsupportAssumption DEF RegisterCreator, Vacant, TypeOK, Creator, U64
  <2> QED
    BY <2>1, CcsupportAssumption DEF RegisterCreator, Vacant, TypeOK
<1>4. \A v \in Wallets : Registered(v) => creators[v].handle # handle
  BY <1>2, CcsupportAssumption DEF HandlesAndCreatorsAgree
<1>5. /\ DOMAIN table.creators = {v \in Wallets : Registered(v)}
      /\ \A v \in DOMAIN table.creators :
           /\ table.creators[v].handle = creators[v].handle
           /\ table.creators[v].text = creators[v].text
           /\ table.creators[v].suggested_amount = creators[v].suggested_amount
  BY DEF IsTheChain, CreatorsAreIn
<1>6. w \notin DOMAIN table.creators /\ \A v \in Wallets : Registered(v)' <=> Registered(v) \/ v = w
  BY <1>2, <1>3, <1>5 DEF Registered
<1>7. /\ made \in Indexes /\ made.pledges = table.pledges
      /\ DOMAIN made.creators = DOMAIN table.creators \cup {w}
      /\ made.creators[w].handle = handle /\ made.creators[w].text = text
      /\ made.creators[w].suggested_amount = 0
      /\ \A v \in DOMAIN table.creators : v # w => made.creators[v] = table.creators[v]
  BY <1>1, <1>6, UpsertCreates, CcsupportAssumption
<1>8. Admits(table, e) /\ new = made
  BY <1>1, <1>4, <1>5, WritesByKind
<1> HIDE DEF made
<1>9. CreatorsAreIn(new.creators)'
  BY <1>3, <1>5, <1>6, <1>7, <1>8 DEF CreatorsAreIn
<1>10. PledgesAreIn(new.pledges)'
  BY <1>2, <1>7, <1>8 DEF PledgesAreIn, IsTheChain, Pledged
<1> QED
  BY <1>7, <1>8, <1>9, <1>10

\* update_creator and its event.
LEMMA UpdateIsWritten ==
  ASSUME TypeOK, HandlesAndCreatorsAgree,
         NEW w \in Wallets, NEW text \in Texts, NEW amount \in Amounts,
         UpdateCreator(w, text, amount),
         NEW table \in Indexes, IsTheChain(table), NEW tx,
         NEW e, e = event', NEW new, new = WriteEvent(table, tx, e)
  PROVE  /\ Admits(table, e)
         /\ new \in Indexes /\ CreatorsAreIn(new.creators)' /\ PledgesAreIn(new.pledges)'
<1> DEFINE made == CreatorUpsert(table, e)
<1>1. /\ e.kind = "creatorUpdated" /\ e.wallet = w /\ e.handle = creators[w].handle
      /\ e.text = text /\ e.suggested_amount = amount
  BY DEF UpdateCreator
<1>2. Registered(w) /\ UNCHANGED pledges /\ creators[w] \in Creator
  BY DEF UpdateCreator, Registered, TypeOK
<1>3. /\ creators'[w] # NoAccount /\ creators'[w].handle = creators[w].handle
      /\ creators'[w].text = text /\ creators'[w].suggested_amount = amount
      /\ \A v \in Wallets : v # w => creators'[v] = creators[v]
  <2>1. creators'[w] = [creators[w] EXCEPT !.text = text, !.suggested_amount = amount]
    BY <1>2 DEF UpdateCreator, TypeOK, Creator
  <2>2. /\ creators'[w] \in Creator /\ creators'[w].handle = creators[w].handle
        /\ creators'[w].text = text /\ creators'[w].suggested_amount = amount
    BY <1>2, <2>1 DEF Creator
  <2>3. \A v \in Wallets : v # w => creators'[v] = creators[v]
    BY DEF UpdateCreator, TypeOK
  <2> QED
    BY <2>2, <2>3, CcsupportAssumption
<1>4. \A v \in Wallets : Registered(v) /\ creators[v].handle = creators[w].handle => v = w
  <2>1. creators[w].handle \in Handles
    BY <1>2 DEF Creator
  <2> QED
    BY <1>2, <2>1 DEF HandlesAndCreatorsAgree
<1>5. /\ DOMAIN table.creators = {v \in Wallets : Registered(v)}
      /\ \A v \in DOMAIN table.creators :
           /\ table.creators[v].handle = creators[v].handle
           /\ table.creators[v].text = creators[v].text
           /\ table.creators[v].suggested_amount = creators[v].suggested_amount
  BY DEF IsTheChain, CreatorsAreIn
<1>6. w \in DOMAIN table.creators /\ \A v \in Wallets : Registered(v)' <=> Registered(v)
  BY <1>2, <1>3, <1>5 DEF Registered
<1>7. /\ made \in Indexes /\ made.pledges = table.pledges
      /\ DOMAIN made.creators = DOMAIN table.creators
      /\ made.creators[w].handle = table.creators[w].handle /\ made.creators[w].text = text
      /\ made.creators[w].suggested_amount = amount
      /\ \A v \in DOMAIN table.creators : v # w => made.creators[v] = table.creators[v]
  BY <1>1, <1>6, UpsertUpdates
<1>8. Admits(table, e) /\ new = made
  BY <1>1, <1>4, <1>5, WritesByKind
<1> HIDE DEF made
<1>9. CreatorsAreIn(new.creators)'
  BY <1>3, <1>5, <1>6, <1>7, <1>8 DEF CreatorsAreIn
<1>10. PledgesAreIn(new.pledges)'
  BY <1>2, <1>7, <1>8 DEF PledgesAreIn, IsTheChain, Pledged
<1> QED
  BY <1>7, <1>8, <1>9, <1>10

\* pledge and its event.
LEMMA ContributionIsWritten ==
  ASSUME TypeOK,
         NEW w \in Wallets, NEW supporter \in Wallets, NEW show \in BOOLEAN,
         NEW periods \in 0..MaxPeriods + 1, NEW transfers \in TransferLists,
         MakePledge(supporter, w, periods, show, transfers),
         NEW table \in Indexes, IsTheChain(table), NEW tx, tx.sig \in Nat, tx.slot = clock.slot,
         NEW e, e = event', NEW new, new = WriteEvent(table, tx, e)
  PROVE  /\ Admits(table, e)
         /\ new \in Indexes /\ CreatorsAreIn(new.creators)' /\ PledgesAreIn(new.pledges)'
<1> DEFINE p == <<w, supporter>>
           row == Contributed(pledges[p], periods, show)
           made == ContributionInsert(PledgeUpsert(table, tx, e), tx, e)
<1>1. /\ periods \in 1..MaxPeriods /\ p \in Pairs /\ row \in Pledge /\ row.contributions > 0
      /\ row.show_publicly = show /\ row.last_slot = clock.slot /\ clock.slot \in Nat
  <2>1. periods \in 1..MaxPeriods /\ p \in Pairs /\ FitsCounters(row)
    BY DEF MakePledge, MayPledge, PledgedEvent, ValidPeriods, Pairs
  <2>2. row \in Pledge /\ row.contributions = pledges[p].contributions + 1
    BY <2>1, ContributedType
  <2> QED
    BY <2>1, <2>2 DEF Contributed, TypeOK, Pledge, U32, U64
<1>2. /\ e = [kind |-> "pledged", creator |-> w, supporter |-> supporter,
                   periods |-> periods, started_at |-> row.started_at,
                   expires_at |-> row.expires_at, periods_total |-> row.periods_total,
                   contributions |-> row.contributions, show_publicly |-> show,
                   slot |-> clock.slot]
      /\ pledges' = [pledges EXCEPT ![p] = row]
      /\ Registered(w)
  <2>1. row.show_publicly = show
    BY <1>1
  <2> HIDE DEF row
  <2>2. e = PledgedEvent(supporter, w, periods, row) /\ Registered(w)
    BY DEF MakePledge, MayPledge, row
  <2>3. pledges' = [pledges EXCEPT ![p] = row]
    BY DEF MakePledge, row
  <2> QED
    BY <2>1, <2>2, <2>3 DEF PledgedEvent
<1>u. FirstContribution(pledges[p]) => creators[w].pledges_total < MaxU64
  BY DEF MakePledge, MayPledge
<1> HIDE DEF row
<1>3. /\ e \in PledgedEvents /\ e.kind = "pledged" /\ e.creator = w /\ e.supporter = supporter
      /\ tx.slot \in Nat
  BY <1>1, <1>2 DEF PledgedEvents, Pledge, TypeOK
<1>4. PledgeRow(tx, e) = [started_at |-> row.started_at, expires_at |-> row.expires_at,
        periods_total |-> row.periods_total, contributions |-> row.contributions,
        show_publicly |-> row.show_publicly, last_sig |-> tx.sig, last_slot |-> row.last_slot]
  BY <1>1, <1>2 DEF PledgeRow
<1>5. /\ pledges'[p] = row /\ Pledged(p)'
      /\ \A q \in Pairs : q # p => pledges'[q] = pledges[q] /\ (Pledged(q)' <=> Pledged(q))
  BY <1>1, <1>2 DEF TypeOK, Pledged
<1>6. \A v \in Wallets : /\ Registered(v)' <=> Registered(v)
                         /\ Registered(v) =>
                              /\ creators'[v].handle = creators[v].handle
                              /\ creators'[v].text = creators[v].text
                              /\ creators'[v].suggested_amount = creators[v].suggested_amount
  <2>1. CASE creators' = creators
    BY <2>1 DEF Registered
  <2>2. CASE /\ FirstContribution(pledges[p])
             /\ creators' = [creators EXCEPT ![w].pledges_total = @ + 1]
    <3>1. creators[w] \in Creator
      BY <1>2 DEF Registered, TypeOK
    <3>t. creators[w].pledges_total + 1 \in U64
      <4>1. creators[w].pledges_total \in Nat /\ creators[w].pledges_total < MaxU64
        BY <1>u, <2>2, <3>1 DEF Creator, U64
      <4> QED
        BY <4>1, CcsupportAssumption DEF U64
    <3>2. creators'[w] = [creators[w] EXCEPT !.pledges_total = @ + 1]
      BY <2>2 DEF TypeOK
    <3>3. creators'[w] \in Creator /\ creators'[w].handle = creators[w].handle
          /\ creators'[w].text = creators[w].text
          /\ creators'[w].suggested_amount = creators[w].suggested_amount
      BY <3>1, <3>2, <3>t DEF Creator
    <3>4. \A v \in Wallets : v # w => creators'[v] = creators[v]
      BY <2>2 DEF TypeOK
    <3> QED
      BY <1>2, <3>3, <3>4, CcsupportAssumption DEF Registered
  <2> QED
    BY <2>1, <2>2 DEF MakePledge, MayPledge, PledgedEvent
<1> HIDE DEF p
<1>7. /\ made \in Indexes /\ made.creators = table.creators
      /\ DOMAIN made.pledges = DOMAIN table.pledges \cup {p}
      /\ made.pledges[p] = PledgeRow(tx, e)
      /\ \A q \in DOMAIN table.pledges : q # p => made.pledges[q] = table.pledges[q]
  <2>1. p = <<e.creator, e.supporter>>
    BY <1>3 DEF p
  <2> QED
    BY <1>3, <2>1, PledgeIsWritten
<1>8. /\ Admits(table, e) /\ new = made
  <2>1. w \in DOMAIN table.creators
    BY <1>2 DEF IsTheChain, CreatorsAreIn
  <2> QED
    BY <1>3, <2>1, WritesByKind
<1> HIDE DEF made
<1>9. CreatorsAreIn(new.creators)'
  BY <1>6, <1>7, <1>8 DEF CreatorsAreIn, IsTheChain
<1>10. PledgesAreIn(new.pledges)'
  <2>1. DOMAIN new.pledges = {q \in Pairs : Pledged(q)'}
    BY <1>1, <1>5, <1>7, <1>8 DEF PledgesAreIn, IsTheChain
  <2>2. /\ new.pledges[p].started_at = pledges'[p].started_at
        /\ new.pledges[p].expires_at = pledges'[p].expires_at
        /\ new.pledges[p].periods_total = pledges'[p].periods_total
        /\ new.pledges[p].contributions = pledges'[p].contributions
        /\ new.pledges[p].show_publicly = pledges'[p].show_publicly
        /\ new.pledges[p].last_slot = pledges'[p].last_slot
    BY <1>4, <1>5, <1>7, <1>8
  <2>3. \A q \in DOMAIN new.pledges : q # p =>
          q \in DOMAIN table.pledges /\ pledges'[q] = pledges[q]
            /\ new.pledges[q] = table.pledges[q]
    BY <1>5, <1>7, <1>8, <2>1
  <2> QED
    BY <2>1, <2>2, <2>3 DEF PledgesAreIn, IsTheChain
<1> QED
  BY <1>7, <1>8, <1>9, <1>10

\* set_visibility and its event.
LEMMA VisibilityChangeIsWritten ==
  ASSUME TypeOK,
         NEW w \in Wallets, NEW supporter \in Wallets, NEW show \in BOOLEAN,
         SetVisibility(supporter, w, show),
         NEW table \in Indexes, IsTheChain(table), NEW tx,
         NEW e, e = event', NEW new, new = WriteEvent(table, tx, e)
  PROVE  /\ Admits(table, e)
         /\ new \in Indexes /\ CreatorsAreIn(new.creators)' /\ PledgesAreIn(new.pledges)'
<1> DEFINE p == <<w, supporter>>
           made == VisibilityUpdate(table, e)
           row == [table.pledges[p] EXCEPT !.show_publicly = show]
<1>1. /\ e \in VisibilityEvents /\ e.kind = "visibilityChanged" /\ p = <<e.creator, e.supporter>>
      /\ e.show_publicly = show
  BY DEF SetVisibility, VisibilityEvent, VisibilityEvents, TypeOK
<1>2. p \in Pairs /\ Pledged(p) /\ UNCHANGED creators /\ pledges[p] \in Pledge
  BY DEF SetVisibility, VisibilityEvent, Pairs, TypeOK
<1>3. p \in DOMAIN table.pledges
  BY <1>2 DEF IsTheChain, PledgesAreIn
<1>4. /\ pledges'[p] = [pledges[p] EXCEPT !.show_publicly = show]
      /\ \A q \in Pairs : q # p => pledges'[q] = pledges[q]
  BY <1>2 DEF SetVisibility, VisibilityEvent, TypeOK
<1>5. \A q \in Pairs : Pledged(q)' <=> Pledged(q)
  BY <1>2, <1>4 DEF Pledged, Pledge
<1> HIDE DEF p
<1>6. /\ made \in Indexes /\ made.creators = table.creators
      /\ DOMAIN made.pledges = DOMAIN table.pledges
      /\ made.pledges[p] = row
      /\ \A q \in DOMAIN table.pledges : q # p => made.pledges[q] = table.pledges[q]
  BY <1>1, <1>3, VisibilityIsWritten
<1>7. Admits(table, e) /\ new = made
  BY <1>1, WritesByKind
<1>8. table.pledges[p] \in PledgeRows
  BY <1>3 DEF Indexes, TablesOf
<1> HIDE DEF made
<1>9. CreatorsAreIn(new.creators)'
  BY <1>2, <1>6, <1>7 DEF CreatorsAreIn, IsTheChain, Registered
<1>10. PledgesAreIn(new.pledges)'
  <2>1. DOMAIN new.pledges = {q \in Pairs : Pledged(q)'}
    BY <1>5, <1>6, <1>7 DEF PledgesAreIn, IsTheChain
  <2>2. /\ new.pledges[p].started_at = pledges'[p].started_at
        /\ new.pledges[p].expires_at = pledges'[p].expires_at
        /\ new.pledges[p].periods_total = pledges'[p].periods_total
        /\ new.pledges[p].contributions = pledges'[p].contributions
        /\ new.pledges[p].show_publicly = pledges'[p].show_publicly
        /\ new.pledges[p].last_slot = pledges'[p].last_slot
    BY <1>2, <1>3, <1>4, <1>6, <1>7, <1>8 DEF PledgesAreIn, IsTheChain, PledgeRows, Pledge
  <2>3. \A q \in DOMAIN new.pledges : q # p =>
          q \in DOMAIN table.pledges /\ pledges'[q] = pledges[q]
            /\ new.pledges[q] = table.pledges[q]
    BY <1>4, <1>6, <1>7, <2>1
  <2> QED
    BY <2>1, <2>2, <2>3 DEF PledgesAreIn, IsTheChain
<1> QED
  BY <1>6, <1>7, <1>9, <1>10

-----------------------------------------------------------------------------
(* The index is a replay of the log.                                       *)

\* The log and how far it is applied.
LogTypes == log \in Seq(Transactions) /\ applied \in 0..Len(log)

\* tables[k] is what the first k transactions leave in an empty index.
AreTables(tables) ==
  /\ tables \in [0..Len(log) -> Indexes]
  /\ tables[0] = EmptyIndex
  /\ \A k \in 1..Len(log) :
       /\ Accepts(tables[k - 1], log[k])
       /\ tables[k] = Apply(tables[k - 1], log[k])

\* The index is what the applied part of the log leaves, and the whole log would leave the
\* chain: inductive, where IndexIsTheChain speaks of a caught-up index only.
ReplayInv ==
  \E tables : AreTables(tables) /\ tables[applied] = index /\ IsTheChain(tables[Len(log)])

IndexInv == LogTypes /\ ReplayInv

\* Every transaction of the log reaches the worker unchanged.
LEMMA ReceivedOfTheLog == ASSUME NEW tx \in Transactions PROVE Received(tx) = tx
<1>1. PICK e \in Event \ {NoEvent} : tx.events = <<e>>
  BY DEF Transactions
<1> QED
  BY <1>1, ReceivedIsSent DEF Transactions

\* createApplier writes nothing for a failed transaction.
LEMMA OutcomeOfNone ==
  ASSUME NEW table, NEW tx, tx.failed = TRUE
  PROVE  Accepts(table, tx) /\ Apply(table, tx) = table
<1> DEFINE events == EventsOf(tx)
           D == DOMAIN events
           base == [ok |-> TRUE, index |-> table]
           Step(done, d) == [ok |-> done.ok /\ Admits(done.index, d),
                             index |-> IF done.ok /\ Admits(done.index, d)
                                         THEN WriteEvent(done.index, tx, d)
                                         ELSE done.index]
           Next1(f, s) == IF s = {} THEN base ELSE Step(f[s \ {Max(s)}], events[Max(s)])
<1>1. D = {}
  BY DEF EventsOf
<1>2. Outcome(table, tx) = (CHOOSE f : f = [s \in SUBSET D |-> Next1(f, s)])[D]
  BY Zenon DEF Outcome, FoldLeft, MapThenFoldSet
<1> DEFINE W == [s \in SUBSET D |-> base]
<1> HIDE DEF base, Step, events, D
<1>3. W = [s \in SUBSET D |-> Next1(W, s)]
  BY <1>1
<1>4. ASSUME NEW f, f = [s \in SUBSET D |-> Next1(f, s)] PROVE f[D] = base
  <2>1. \A s \in SUBSET D : f[s] = Next1(f, s)
    <3> HIDE DEF Next1
    <3> QED
      BY <1>4
  <2> QED
    BY <2>1, <1>1
<1>5. Outcome(table, tx) = base
  <2> HIDE DEF Next1, W
  <2> QED
    BY <1>2, <1>3, <1>4
<1> QED
  BY <1>5 DEF Accepts, Apply, base

\* One more transaction, applied after all the others.
LEMMA TablesGrow ==
  ASSUME LogTypes, NEW tables, AreTables(tables), tables[applied] = index,
         NEW tx \in Transactions, log' = Append(log, tx), UNCHANGED <<applied, index>>,
         NEW last, Accepts(tables[Len(log)], tx), last = Apply(tables[Len(log)], tx),
         last \in Indexes, (CreatorsAreIn(last.creators) /\ PledgesAreIn(last.pledges))'
  PROVE  IndexInv'
<1>n. PICK n : n = Len(log)
  OBVIOUS
<1>0. PICK new : new = [k \in 0..n + 1 |-> IF k = n + 1 THEN last ELSE tables[k]]
  OBVIOUS
<1>1. /\ n \in Nat /\ Len(log') = n + 1 /\ log' \in Seq(Transactions)
      /\ \A k \in 1..n : log'[k] = log[k]
      /\ log'[n + 1] = tx
  BY <1>n DEF LogTypes
<1>2. LogTypes'
  BY <1>n, <1>1 DEF LogTypes
<1>3. /\ new \in [0..n + 1 -> Indexes] /\ new[n + 1] = last
      /\ \A k \in 0..n : new[k] = tables[k]
  BY <1>n, <1>0, <1>1 DEF AreTables
<1>4. AreTables(new)'
  <2>1. new[0] = EmptyIndex
    BY <1>n, <1>1, <1>3 DEF AreTables
  <2>2. ASSUME NEW k \in 1..n + 1
        PROVE  Accepts(new[k - 1], log'[k]) /\ new[k] = Apply(new[k - 1], log'[k])
    <3>1. CASE k = n + 1
      BY <1>n, <3>1, <1>1, <1>3
    <3>2. CASE k # n + 1
      <4>1. k \in 1..n /\ k - 1 \in 0..n /\ k \in 0..n
        BY <3>2, <1>1
      <4> QED
        BY <1>n, <4>1, <1>1, <1>3 DEF AreTables
    <3> QED
      BY <3>1, <3>2
  <2>3. /\ new \in [0..Len(log') -> Indexes]
        /\ \A k \in 1..Len(log') :
             Accepts(new[k - 1], log'[k]) /\ new[k] = Apply(new[k - 1], log'[k])
    BY <1>1, <1>3, <2>2
  <2> QED
    BY <2>1, <2>3 DEF AreTables
<1>5. new[applied'] = index'
  BY <1>n, <1>1, <1>3 DEF LogTypes
<1>6. IsTheChain(new[Len(log)])'
  BY <1>n, <1>1, <1>3 DEF IsTheChain
<1> QED
  BY <1>2, <1>4, <1>5, <1>6 DEF IndexInv, ReplayInv

\* A step of the whole is a step of the program or leaves it alone.
LEMMA ProgramStep == [ProgramIndexNext]_allVars => [Next]_vars
BY DEF ProgramIndexNext, Execute, RollBack, RollBackVisibility, RollBackPledge,
  ApplyNext, allVars, vars

\* The whole runs the on-chain program and nothing else does: what is proved of instructions/
\* alone holds here.
THEOREM ProgramRuns == ProgramIndexSpec => Spec
BY ProgramStep, PTL DEF ProgramIndexSpec, ProgramIndexInit, Spec

\* The invariant at the start.
LEMMA InitIndexInv == ProgramIndexInit => IndexInv
<1> SUFFICES ASSUME ProgramIndexInit PROVE IndexInv
  OBVIOUS
<1>1. Len(log) = 0 /\ applied = 0 /\ index = EmptyIndex /\ LogTypes
  BY DEF ProgramIndexInit, LogTypes
<1> DEFINE tables == [k \in 0..0 |-> EmptyIndex]
<1>2. AreTables(tables)
  BY <1>1, EmptyIndexType DEF AreTables
<1>3. DOMAIN EmptyIndex.creators = {} /\ DOMAIN EmptyIndex.pledges = {}
  BY DEF EmptyIndex
<1>4. /\ \A w \in Wallets : ~Registered(w)
      /\ \A p \in Pairs : ~Pledged(p)
  BY DEF ProgramIndexInit, Init, Registered, Pledged, ZeroPledge
<1>5. IsTheChain(EmptyIndex)
  <2> HIDE DEF tables
  <2>1. CreatorsAreIn(EmptyIndex.creators)
    BY <1>3, <1>4 DEF CreatorsAreIn
  <2>2. PledgesAreIn(EmptyIndex.pledges)
    BY <1>3, <1>4 DEF PledgesAreIn
  <2> QED
    BY <2>1, <2>2 DEF IsTheChain
<1>6. tables[applied] = index /\ IsTheChain(tables[Len(log)])
  BY <1>1, <1>5
<1> QED
  BY <1>1, <1>2, <1>6 DEF IndexInv, ReplayInv

\* Whatever instruction ran, its event carries enough.
LEMMA EventIsWritten ==
  ASSUME TypeOK, HandlesAndCreatorsAgree, Next, event' # NoEvent,
         NEW table \in Indexes, IsTheChain(table), NEW tx, tx.sig \in Nat, tx.slot = clock.slot,
         NEW e, e = event', NEW new, new = WriteEvent(table, tx, e)
  PROVE  /\ Admits(table, e)
         /\ new \in Indexes /\ CreatorsAreIn(new.creators)' /\ PledgesAreIn(new.pledges)'
<1> USE DEF NoEvent
<1>1. CASE Tick
  BY <1>1 DEF Tick
<1>2. ASSUME NEW w \in Wallets, NEW mint \in Mints, InitConfig(w, mint)
      PROVE  FALSE
  BY <1>2 DEF InitConfig
<1>3. CASE \E w \in Wallets, handle \in Handles, text \in Texts : RegisterCreator(w, handle, text)
  BY <1>3, RegistrationIsWritten
<1>4. CASE \E w \in Wallets, text \in Texts, amount \in Amounts : UpdateCreator(w, text, amount)
  BY <1>4, UpdateIsWritten
<1>5. CASE \E w, supporter \in Wallets, show \in BOOLEAN, periods \in 0..MaxPeriods + 1,
             transfers \in TransferLists : MakePledge(supporter, w, periods, show, transfers)
  BY <1>5, ContributionIsWritten
<1>6. CASE \E w, supporter \in Wallets, show \in BOOLEAN : SetVisibility(supporter, w, show)
  BY <1>6, VisibilityChangeIsWritten
<1> QED
  BY <1>1, <1>2, <1>3, <1>4, <1>5, <1>6 DEF Next

\* An instruction without an event changes no profile and no pledge.
LEMMA QuietStep ==
  ASSUME TypeOK, Next, event' = NoEvent
  PROVE  UNCHANGED <<creators, pledges>>
<1> USE DEF NoEvent
<1>1. CASE Tick
  BY <1>1 DEF Tick, accounts
<1>2. CASE \E w \in Wallets, mint \in Mints : InitConfig(w, mint)
  BY <1>2 DEF InitConfig
<1>3. ASSUME NEW w \in Wallets, NEW handle \in Handles, NEW text \in Texts,
             RegisterCreator(w, handle, text)
      PROVE  FALSE
  BY <1>3 DEF RegisterCreator
<1>4. ASSUME NEW w \in Wallets, NEW text \in Texts, NEW amount \in Amounts,
             UpdateCreator(w, text, amount)
      PROVE  FALSE
  BY <1>4 DEF UpdateCreator
<1>5. ASSUME NEW w \in Wallets, NEW supporter \in Wallets, NEW show \in BOOLEAN,
             NEW periods \in 0..MaxPeriods + 1, NEW transfers \in TransferLists,
             MakePledge(supporter, w, periods, show, transfers)
      PROVE  FALSE
  BY <1>5 DEF MakePledge, MayPledge, PledgedEvent
<1>6. ASSUME NEW w \in Wallets, NEW supporter \in Wallets, NEW show \in BOOLEAN,
             SetVisibility(supporter, w, show)
      PROVE  FALSE
  BY <1>6 DEF SetVisibility, VisibilityEvent
<1> QED
  BY <1>1, <1>2, <1>3, <1>4, <1>5, <1>6 DEF Next

\* A step that touches none of it.
LEMMA IndexInvKept ==
  ASSUME IndexInv, UNCHANGED <<log, applied, index, creators, pledges>>
  PROVE  IndexInv'
  BY DEF IndexInv, LogTypes, ReplayInv, AreTables, IsTheChain, CreatorsAreIn, PledgesAreIn,
         Registered, Pledged

\* Every step keeps it.
LEMMA StepIndexInv ==
  TypeOK /\ TypeOK' /\ HandlesAndCreatorsAgree /\ IndexInv /\ [ProgramIndexNext]_allVars
    => IndexInv'
<1> SUFFICES ASSUME TypeOK, TypeOK', HandlesAndCreatorsAgree, IndexInv, [ProgramIndexNext]_allVars
             PROVE  IndexInv'
  OBVIOUS
<1>0. PICK tables : AreTables(tables) /\ tables[applied] = index /\ IsTheChain(tables[Len(log)])
  BY DEF IndexInv, ReplayInv
<1>t. /\ LogTypes /\ Len(log) \in Nat /\ tables[Len(log)] \in Indexes
      /\ clock.slot \in Nat
  <2>1. LogTypes /\ Len(log) \in Nat
    BY DEF IndexInv, LogTypes
  <2>2. tables[Len(log)] \in Indexes
    BY <1>0, <2>1 DEF AreTables
  <2>3. clock.slot \in Nat
    BY DEF TypeOK, U64
  <2> QED
    BY <2>1, <2>2, <2>3
<1>1. CASE Execute /\ event' = NoEvent
  BY <1>1, QuietStep, IndexInvKept DEF Execute
<1>2. CASE Execute /\ event' # NoEvent
  <2>1. PICK e : e = event'
    OBVIOUS
  <2>2. PICK tx : tx = Transaction(e, FALSE)
    OBVIOUS
  <2>3. /\ tx \in Transactions /\ EventsOf(tx) = <<e>> /\ tx.sig \in Nat /\ tx.slot = clock.slot
        /\ log' = Append(log, tx) /\ UNCHANGED <<applied, index>>
    <3>1. e \in Event \ {NoEvent}
      BY <1>2, <2>1 DEF TypeOK
    <3>2. tx = [sig |-> Len(log) + 1, slot |-> clock.slot, failed |-> FALSE, events |-> <<e>>]
      BY <2>2 DEF Transaction
    <3>3. tx \in Transactions
      <4>1. <<e>> \in {<<x>> : x \in Event \ {NoEvent}}
        BY <3>1
      <4> QED
        BY <1>t, <3>2, <4>1 DEF Transactions
    <3>4. EventsOf(tx) = <<e>> /\ tx.sig \in Nat /\ tx.slot = clock.slot
      BY <1>t, <3>2 DEF EventsOf
    <3>5. log' = Append(log, tx) /\ UNCHANGED <<applied, index>>
      BY <1>2, <2>1, <2>2 DEF Execute
    <3> QED
      BY <3>3, <3>4, <3>5
  <2>4. PICK last : last = WriteEvent(tables[Len(log)], tx, e)
    OBVIOUS
  <2>5. /\ Admits(tables[Len(log)], e)
        /\ last \in Indexes /\ CreatorsAreIn(last.creators)' /\ PledgesAreIn(last.pledges)'
    BY <1>0, <1>2, <1>t, <2>1, <2>3, <2>4, EventIsWritten DEF Execute
  <2>6. Accepts(tables[Len(log)], tx) /\ Apply(tables[Len(log)], tx) = last
    BY <2>3, <2>4, <2>5, OutcomeOfOne
  <2> QED
    BY <1>0, <1>t, <2>3, <2>5, <2>6, TablesGrow
<1>r. ASSUME NEW e \in Event \ {NoEvent}, RollBack(e)
      PROVE  IndexInv'
  <2>1. PICK tx : tx = Transaction(e, TRUE)
    OBVIOUS
  <2>2. /\ tx \in Transactions /\ tx.failed = TRUE
        /\ log' = Append(log, tx) /\ UNCHANGED <<applied, index, creators, pledges>>
    <3>1. tx = [sig |-> Len(log) + 1, slot |-> clock.slot, failed |-> TRUE, events |-> <<e>>]
      BY <2>1 DEF Transaction
    <3>2. <<e>> \in {<<x>> : x \in Event \ {NoEvent}}
      OBVIOUS
    <3>3. tx \in Transactions /\ tx.failed = TRUE
      BY <1>t, <3>1, <3>2 DEF Transactions
    <3>4. log' = Append(log, tx) /\ UNCHANGED <<applied, index, creators, pledges>>
      BY <1>r, <2>1 DEF RollBack, vars
    <3> QED
      BY <3>3, <3>4
  <2>3. Accepts(tables[Len(log)], tx) /\ Apply(tables[Len(log)], tx) = tables[Len(log)]
    BY <2>2, OutcomeOfNone
  <2>4. PICK last : last = tables[Len(log)]
    OBVIOUS
  <2>5. CreatorsAreIn(last.creators)' /\ PledgesAreIn(last.pledges)'
    BY <1>0, <2>2, <2>4 DEF IsTheChain, CreatorsAreIn, PledgesAreIn, Registered, Pledged
  <2> QED
    BY <1>0, <1>t, <2>2, <2>3, <2>4, <2>5, TablesGrow
<1>3. ASSUME NEW w \in Wallets, NEW supporter \in Wallets, NEW show \in BOOLEAN,
             \/ RollBackVisibility(w, supporter, show)
             \/ \E periods \in 0..MaxPeriods + 1, transfers \in TransferLists :
                  RollBackPledge(w, supporter, show, periods, transfers)
      PROVE  IndexInv'
  <2>1. CASE RollBackVisibility(w, supporter, show)
    <3>1. VisibilityEvent(supporter, w, show) \in Event \ {NoEvent}
      BY <1>t DEF VisibilityEvent, Event, NoEvent, TypeOK
    <3> QED
      BY <1>r, <2>1, <3>1 DEF RollBackVisibility
  <2>2. ASSUME NEW periods \in 0..MaxPeriods + 1, NEW transfers \in TransferLists,
               RollBackPledge(w, supporter, show, periods, transfers)
        PROVE  IndexInv'
    <3> DEFINE new == Contributed(pledges[<<w, supporter>>], periods, show)
    <3>1. /\ periods \in 1..MaxPeriods /\ <<w, supporter>> \in Pairs
          /\ FitsCounters(new) /\ RollBack(PledgedEvent(supporter, w, periods, new))
      BY <2>2 DEF RollBackPledge, MayPledge, ValidPeriods, Pairs
    <3>2. new \in Pledge
      BY <3>1, ContributedType
    <3> HIDE DEF new
    <3>3. PledgedEvent(supporter, w, periods, new) \in Event \ {NoEvent}
      BY <1>t, <3>1, <3>2 DEF PledgedEvent, Event, NoEvent, TypeOK, Pledge
    <3> QED
      BY <1>r, <3>1, <3>3
  <2> QED
    BY <1>3, <2>1, <2>2
<1>4. CASE ApplyNext
  <2>1. PICK n : n = applied
    OBVIOUS
  <2>2. n + 1 \in 1..Len(log) /\ n \in 0..Len(log) /\ log[n + 1] \in Transactions
    BY <1>4, <1>t, <2>1 DEF ApplyNext, LogTypes
  <2>3. Received(log[n + 1]) = log[n + 1]
    BY <2>2, ReceivedOfTheLog
  <2>4. tables[n + 1] = Apply(index, log[n + 1])
    BY <1>0, <2>1, <2>2 DEF AreTables
  <2>5. applied' = n + 1 /\ index' = tables[n + 1] /\ UNCHANGED <<log, creators, pledges>>
    BY <1>4, <2>1, <2>3, <2>4 DEF ApplyNext, vars
  <2>6. LogTypes'
    BY <1>t, <2>2, <2>5 DEF LogTypes
  <2>7. AreTables(tables)'
    BY <1>0, <2>5 DEF AreTables
  <2>8. PICK last : last = tables[Len(log)]
    OBVIOUS
  <2>9. IsTheChain(last)'
    BY <1>0, <2>5, <2>8
      DEF IsTheChain, CreatorsAreIn, PledgesAreIn, Registered, Pledged
  <2> QED
    BY <2>5, <2>6, <2>7, <2>8, <2>9 DEF IndexInv, ReplayInv
<1>5. CASE UNCHANGED allVars
  BY <1>5, IndexInvKept DEF allVars, vars
<1> QED
  BY <1>1, <1>2, <1>3, <1>4, <1>5 DEF ProgramIndexNext

LEMMA IndexInvCorrect == ProgramIndexSpec => [](TypeOK /\ HandlesAndCreatorsAgree /\ IndexInv)
<1>1. ProgramIndexInit => TypeOK /\ HandlesAndCreatorsAgree /\ IndexInv
  <2>1. Init => HandlesAndCreatorsAgree
    BY CcsupportAssumption DEF Init, HandlesAndCreatorsAgree, Registered
  <2> QED
    BY <2>1, InitTypeOK, InitIndexInv DEF ProgramIndexInit
<1> QED
  BY <1>1, StepTypeOK, StepHandles, ProgramStep, StepIndexInv, PTL DEF ProgramIndexSpec

\* events.rs:3-4, 25-26: for any history, an index that has applied the log in order says of
\* every profile and every pledge what the accounts say, with no account re-read: the events
\* carry enough, parseEvents loses none and takes none of another program, and rolled-back
\* transactions leave no trace.
THEOREM IndexIsTheChainCorrect == ProgramIndexSpec => []IndexIsTheChain
<1>1. IndexInv => IndexIsTheChain
  BY DEF IndexInv, ReplayInv, IndexIsTheChain, IsTheChain, CaughtUp
<1> QED
  BY <1>1, IndexInvCorrect, PTL

\* createApplier: the schema refuses nothing that the program logs, no handle twice and no
\* pledge without its creator, so that the worker at its best is never stuck.
THEOREM NothingIsRefused ==
  ProgramIndexSpec => [](applied < Len(log) => Accepts(index, Received(log[applied + 1])))
<1>1. IndexInv => (applied < Len(log) => Accepts(index, Received(log[applied + 1])))
  <2> SUFFICES ASSUME IndexInv, applied < Len(log) PROVE Accepts(index,
       Received(log[applied + 1]))
    OBVIOUS
  <2>1. PICK tables : AreTables(tables) /\ tables[applied] = index
    BY DEF IndexInv, ReplayInv
  <2>2. applied + 1 \in 1..Len(log) /\ log[applied + 1] \in Transactions
    BY DEF IndexInv, LogTypes
  <2> QED
    BY <2>1, <2>2, ReceivedOfTheLog DEF AreTables, IndexInv, LogTypes
<1> QED
  BY <1>1, IndexInvCorrect, PTL

-----------------------------------------------------------------------------
(* What the pages read: the series and a supporter's page.                 *)

\* What the readers need of the program and of the history besides.
StartsAreTimes ==
  clock.unix_timestamp > 0 /\ \A p \in Pairs : Pledged(p) => pledges[p].started_at > 0

\* A lived month is one that the series will count, and stays so.
LivedCounts ==
  \A active \in lived :
    /\ active[1] \in Pairs /\ active[2] \in Nat
    /\ Pledged(active[1])
    /\ pledges[active[1]].started_at < (active[2] + 1) * MonthLength
    /\ IsActive(active[2] * MonthLength, pledges[active[1]].expires_at)

\* Arithmetic of \div, for the months of the series and the days of a standing.
LEMMA ChunkBounds ==
  ASSUME NEW t \in Nat, NEW n \in Nat \ {0}
  PROVE  /\ t \div n \in Nat
         /\ (t \div n) * n <= t /\ t < ((t \div n) + 1) * n
  BY SMT

LEMMA DivSign ==
  ASSUME NEW t \in Int, NEW n \in Nat \ {0}
  PROVE  /\ t \div n \in Int
         /\ t \div n >= 0 <=> t >= 0
  BY SMT

\* A pledge stays, keeps its start, and its end only moves on; the clock does too.
LEMMA PledgesGrow ==
  ASSUME TypeOK, [Next]_vars, NEW p \in Pairs
  PROVE  /\ Pledged(p) => /\ Pledged(p)'
                          /\ pledges'[p].started_at = pledges[p].started_at
                          /\ pledges'[p].expires_at >= pledges[p].expires_at
         /\ ~Pledged(p) /\ Pledged(p)' => pledges'[p].started_at = clock.unix_timestamp
         /\ clock'.unix_timestamp >= clock.unix_timestamp
<1>1. /\ pledges[p].expires_at \in Nat /\ pledges[p].contributions \in Nat
      /\ clock.unix_timestamp \in Nat
  BY DEF TypeOK, Pledge, U32
<1>2. CASE /\ SameTerm(p)
           /\ ~Pledged(p) => pledges'[p] = pledges[p]
           /\ clock'.unix_timestamp >= clock.unix_timestamp
  BY <1>1, <1>2 DEF SameTerm, Pledged
<1>3. ASSUME NEW k \in 1..MaxPeriods, NEW show \in BOOLEAN,
             pledges'[p] = Contributed(pledges[p], k, show), clock' = clock
      PROVE  /\ Pledged(p) => /\ Pledged(p)'
                              /\ pledges'[p].started_at = pledges[p].started_at
                              /\ pledges'[p].expires_at >= pledges[p].expires_at
             /\ ~Pledged(p) /\ Pledged(p)' => pledges'[p].started_at = clock.unix_timestamp
  <2>1. k \in Nat /\ k * Period \in Nat
    BY PeriodsAssumption, PaidTimeAddsUp
  <2> DEFINE K == k * Period
  <2>2. /\ pledges'[p].expires_at = Later(clock.unix_timestamp, pledges[p].expires_at) + K
        /\ pledges'[p].contributions = pledges[p].contributions + 1
        /\ pledges'[p].started_at = IF pledges[p].contributions = 0 THEN clock.unix_timestamp
                                    ELSE pledges[p].started_at
    BY <1>1, <1>3 DEF Contributed, FirstContribution, ExtendExpiry
  <2>3. K \in Nat
    BY <2>1
  <2> HIDE DEF K
  <2> QED
    BY <1>1, <2>2, <2>3 DEF Later, Pledged
<1>4. clock' = clock => clock'.unix_timestamp >= clock.unix_timestamp
  BY <1>1
<1> QED
  BY <1>2, <1>3, <1>4, PledgeStep

\* Each of the readers' facts is kept by every step.
LEMMA StepStartsAreTimes == TypeOK /\ StartsAreTimes /\ [Next]_vars => StartsAreTimes'
<1> SUFFICES ASSUME TypeOK, StartsAreTimes, [Next]_vars PROVE StartsAreTimes'
  OBVIOUS
<1>1. clock.unix_timestamp \in Nat
  BY DEF TypeOK
<1>2. clock'.unix_timestamp >= clock.unix_timestamp
  <2>1. CASE \E p \in Pairs : TRUE
    BY <2>1, PledgesGrow
  <2>2. CASE Pairs = {}
    <3>1. \A w \in Wallets : <<w, w>> \in Pairs
      BY DEF Pairs
    <3> QED
      BY <2>2, <3>1, <1>1, CcsupportAssumption DEF Next, Tick, vars
  <2> QED
    BY <2>1, <2>2
<1>3. clock'.unix_timestamp > 0
  <2>1. clock'.unix_timestamp \in Int
    BY StepTypeOK DEF TypeOK
  <2> QED
    BY <1>1, <1>2, <2>1 DEF StartsAreTimes
<1>4. ASSUME NEW p \in Pairs, Pledged(p)' PROVE pledges'[p].started_at > 0
  BY <1>4, PledgesGrow DEF StartsAreTimes
<1> QED
  BY <1>3, <1>4 DEF StartsAreTimes

LEMMA StepLivedCounts ==
  TypeOK /\ TypeOK' /\ LivedCounts /\ [ProgramIndexNext]_allVars => LivedCounts'
<1> SUFFICES ASSUME TypeOK, TypeOK', LivedCounts, [ProgramIndexNext]_allVars PROVE LivedCounts'
  OBVIOUS
<1>0. [Next]_vars
  BY ProgramStep
<1>1. ASSUME NEW active \in lived
      PROVE  /\ active[1] \in Pairs /\ active[2] \in Nat
             /\ Pledged(active[1])'
             /\ pledges'[active[1]].started_at < (active[2] + 1) * MonthLength
             /\ IsActive(active[2] * MonthLength, pledges'[active[1]].expires_at)
  <2> DEFINE p == active[1]
             m == active[2]
  <2>1. /\ p \in Pairs /\ m \in Nat
        /\ Pledged(p) /\ pledges[p].started_at < (m + 1) * MonthLength
        /\ IsActive(m * MonthLength, pledges[p].expires_at)
    BY <1>1, Zenon DEF LivedCounts
  <2> HIDE DEF p, m
  <2>2. /\ Pledged(p)' /\ pledges'[p].started_at = pledges[p].started_at
        /\ pledges'[p].expires_at >= pledges[p].expires_at
    BY <1>0, <2>1, PledgesGrow
  <2>3. /\ pledges[p].expires_at \in Nat /\ pledges'[p].expires_at \in Nat
        /\ m * MonthLength \in Nat
    BY <2>1, ProgramIndexAssumption DEF TypeOK, Pledge
  <2> DEFINE M == m * MonthLength
  <2>4. IsActive(M, pledges'[p].expires_at)
    <3>1. M \in Nat /\ IsActive(M, pledges[p].expires_at)
      BY <2>1, <2>3
    <3> HIDE DEF M
    <3> QED
      BY <2>2, <2>3, <3>1, PeriodsAssumption DEF IsActive
  <2> QED
    BY <2>1, <2>2, <2>4 DEF p, m
<1>2. CASE lived' = lived
  BY <1>1, <1>2 DEF LivedCounts, Pledged
<1>3. CASE Execute
  <2>1. ASSUME NEW p \in Pairs, NEW m \in 0..Month(MaxTime), pledges'[p].contributions > 0,
               ActiveInMonth(pledges'[p], m, clock.unix_timestamp, clock'.unix_timestamp)
        PROVE  /\ m \in Nat /\ Pledged(p)'
               /\ pledges'[p].started_at < (m + 1) * MonthLength
               /\ IsActive(m * MonthLength, pledges'[p].expires_at)
    <3>1. PICK t \in clock.unix_timestamp..clock'.unix_timestamp :
            Month(t) = m /\ pledges'[p].started_at <= t /\ IsActive(t, pledges'[p].expires_at)
      BY <2>1 DEF ActiveInMonth
    <3>2. /\ t \in Nat /\ pledges'[p].started_at \in Nat /\ pledges'[p].expires_at \in Nat
      BY DEF TypeOK, Pledge
    <3>3. /\ m = t \div MonthLength /\ m \in Nat
          /\ m * MonthLength <= t /\ t < (m + 1) * MonthLength
      BY <3>1, <3>2, ChunkBounds, ProgramIndexAssumption DEF Month
    <3> DEFINE from == m * MonthLength
               to == (m + 1) * MonthLength
    <3>4. from \in Nat /\ to \in Nat /\ from <= t /\ t < to
      BY <3>3, ProgramIndexAssumption
    <3> HIDE DEF from, to
    <3>5. pledges'[p].started_at < to /\ IsActive(from, pledges'[p].expires_at)
      BY <3>1, <3>2, <3>4, PeriodsAssumption DEF IsActive
    <3> QED
      BY <2>1, <3>3, <3>5 DEF from, to, Pledged
  <2>2. \A active \in lived' :
          \/ active \in lived
          \/ /\ active[1] \in Pairs /\ active[2] \in 0..Month(MaxTime)
             /\ pledges'[active[1]].contributions > 0
             /\ ActiveInMonth(pledges'[active[1]], active[2], clock.unix_timestamp,
                              clock'.unix_timestamp)
    BY <1>3 DEF Execute
  <2>3. ASSUME NEW active \in lived'
        PROVE  /\ active[1] \in Pairs /\ active[2] \in Nat
               /\ Pledged(active[1])'
               /\ pledges'[active[1]].started_at < (active[2] + 1) * MonthLength
               /\ IsActive(active[2] * MonthLength, pledges'[active[1]].expires_at)
    <3>1. CASE active \in lived
      BY <3>1, <1>1, Zenon
    <3>2. CASE active \notin lived
      BY <3>2, <2>1, <2>2, <2>3, Zenon
    <3> QED
      BY <3>1, <3>2
  <2> QED
    BY <2>3, Zenon DEF LivedCounts
<1> QED
  BY <1>2, <1>3 DEF ProgramIndexNext, RollBack, RollBackVisibility, RollBackPledge,
  ApplyNext, allVars

\* monthlySeries over the index of a lived month.
LEMMA LivedIsCounted ==
  ASSUME TypeOK, LivedCounts, IndexInv
  PROVE  SeriesMissesNoActiveMonth
<1> SUFFICES ASSUME CaughtUp, NEW active \in lived
             PROVE  active[1][2] \in SeriesMonth(active[1][1], active[2])
  BY DEF SeriesMissesNoActiveMonth, MonthlySeries
<1> DEFINE p == active[1]
           m == active[2]
<1>1. /\ p \in Pairs /\ Pledged(p)
      /\ pledges[p].started_at < (m + 1) * MonthLength
      /\ IsActive(m * MonthLength, pledges[p].expires_at)
  BY Zenon DEF LivedCounts
<1>2. PledgesAreIn(index.pledges)
  BY DEF IndexInv, ReplayInv, IsTheChain, CaughtUp
<1>3. /\ p \in DOMAIN index.pledges
      /\ index.pledges[p].started_at = pledges[p].started_at
      /\ index.pledges[p].expires_at = pledges[p].expires_at
  BY <1>1, <1>2 DEF PledgesAreIn
<1> HIDE DEF p, m
<1>4. p \in {q \in DOMAIN index.pledges :
               /\ q[1] = p[1]
               /\ index.pledges[q].started_at < (m + 1) * MonthLength
               /\ IsActive(m * MonthLength, index.pledges[q].expires_at)}
  BY <1>1, <1>3, Zenon
<1>5. p[2] \in SeriesMonth(p[1], m)
  BY <1>4, Zenon DEF SeriesMonth
<1> QED
  BY <1>5 DEF p, m

\* daysLeft and standing: rounding up says grace no earlier and no later than it is due.
LEMMA StandingIsDue ==
  ASSUME NEW now \in Nat, NEW expires \in Nat
  PROVE  LET standing == Standing(IsActive(now, expires), DaysLeft(now, expires)) IN
         /\ standing = "ended" <=> ~IsActive(now, expires)
         /\ standing \in {"ended", "grace"} <=> now >= expires
<1> DEFINE days == (now - expires) \div Day
<1>1. days \in Int /\ (days >= 0 <=> now >= expires)
  BY DivSign, ProgramIndexAssumption
<1>2. DaysLeft(now, expires) = Later(0, -days)
  BY DEF DaysLeft
<1> HIDE DEF days
<1>3. DaysLeft(now, expires) = 0 <=> now >= expires
  BY <1>1, <1>2 DEF Later
<1>4. ~IsActive(now, expires) => now >= expires
  BY PeriodsAssumption DEF IsActive
<1> QED
  BY <1>3, <1>4 DEF Standing

\* supporterPledges over an index that is the chain.
LEMMA SupporterPageTells ==
  ASSUME TypeOK, PledgesTotalCountsPledges, IndexInv
  PROVE  SupporterPageIsTrue
<1> SUFFICES ASSUME CaughtUp, NEW s \in Wallets
             PROVE  LET rows == SupporterPage(s, clock.unix_timestamp)
                        now == clock.unix_timestamp
                    IN  /\ {<<r.creator, r.contributions>> : r \in rows} =
                           {<<p[1], pledges[p].contributions>> :
                              p \in {q \in Pairs : Pledged(q) /\ q[2] = s}}
                        /\ \A r \in rows :
                             LET expires == pledges[<<r.creator, s>>].expires_at
                             IN  /\ r.standing = "ended" <=> ~IsActive(now, expires)
                                 /\ r.standing \in {"ended", "grace"} <=> now >= expires
  BY DEF SupporterPageIsTrue
<1> DEFINE now == clock.unix_timestamp
           rows == SupporterPage(s, now)
           mine == {q \in DOMAIN index.pledges : q[2] = s /\ q[1] \in DOMAIN index.creators}
           Row(p) == [creator |-> p[1], contributions |-> index.pledges[p].contributions,
                      standing |-> Standing(IsActive(now, index.pledges[p].expires_at),
                                            DaysLeft(now, index.pledges[p].expires_at))]
<1>1. CreatorsAreIn(index.creators) /\ PledgesAreIn(index.pledges)
  BY DEF IndexInv, ReplayInv, IsTheChain, CaughtUp
<1>2. \A p \in Pairs : Pledged(p) => Registered(p[1]) /\ p[1] \in Wallets
  <2> SUFFICES ASSUME NEW p \in Pairs, Pledged(p) PROVE Registered(p[1]) /\ p[1] \in Wallets
    OBVIOUS
  <2>1. p[1] \in Wallets /\ p[2] \in Wallets /\ p = <<p[1], p[2]>>
    BY DEF Pairs
  <2>2. p[2] \in SupportersOf(p[1])
    BY <2>1 DEF SupportersOf
  <2> QED
    BY <2>1, <2>2 DEF PledgesTotalCountsPledges
<1>3. mine = {q \in Pairs : Pledged(q) /\ q[2] = s}
  BY <1>1, <1>2 DEF CreatorsAreIn, PledgesAreIn
<1>4. rows = {Row(p) : p \in mine}
  <2> DEFINE Joined(p) == [creator |-> p[1], expiresAt |-> index.pledges[p].expires_at,
                           active |-> IsActive(now, index.pledges[p].expires_at),
                           contributions |-> index.pledges[p].contributions]
             Told(row) == [creator |-> row.creator, contributions |-> row.contributions,
                           standing |-> Standing(row.active, DaysLeft(now, row.expiresAt))]
  <2>1. SupporterPledges(s, now) = {Joined(p) : p \in mine}
    BY Zenon DEF SupporterPledges
  <2>2. rows = {Told(row) : row \in SupporterPledges(s, now)}
    BY Zenon DEF SupporterPage
  <2>3. \A p : Told(Joined(p)) = Row(p)
    OBVIOUS
  <2> HIDE DEF Joined, Told, rows, mine, Row
  <2> QED
    BY <2>1, <2>2, <2>3
<1>5. ASSUME NEW p \in mine
      PROVE  /\ p = <<p[1], s>> /\ Pledged(p) /\ p \in Pairs
             /\ Row(p).creator = p[1] /\ Row(p).contributions = pledges[p].contributions
             /\ Row(p).standing = "ended" <=> ~IsActive(now, pledges[p].expires_at)
             /\ Row(p).standing \in {"ended", "grace"} <=> now >= pledges[p].expires_at
  <2>1. p \in Pairs /\ Pledged(p) /\ p = <<p[1], s>>
    BY <1>3 DEF Pairs
  <2>2. /\ index.pledges[p].contributions = pledges[p].contributions
        /\ index.pledges[p].expires_at = pledges[p].expires_at
    BY <1>1, <2>1 DEF PledgesAreIn
  <2>3. now \in Nat /\ pledges[p].expires_at \in Nat
    BY <2>1 DEF TypeOK, Pledge
  <2>4. Row(p).standing = Standing(IsActive(now, pledges[p].expires_at),
                                   DaysLeft(now, pledges[p].expires_at))
    BY <2>2
  <2>5. Row(p).creator = p[1] /\ Row(p).contributions = pledges[p].contributions
    BY <2>2
  <2> HIDE DEF Row, now, mine
  <2> QED
    BY <2>1, <2>3, <2>4, <2>5, StandingIsDue
<1> HIDE DEF Row, rows, mine, now
<1>6. {<<r.creator, r.contributions>> : r \in rows} =
        {<<p[1], pledges[p].contributions>> : p \in mine}
  BY <1>4, <1>5
<1>7. ASSUME NEW r \in rows
      PROVE  LET expires == pledges[<<r.creator, s>>].expires_at
             IN  /\ r.standing = "ended" <=> ~IsActive(now, expires)
                 /\ r.standing \in {"ended", "grace"} <=> now >= expires
  <2>1. PICK p \in mine : r = Row(p)
    BY <1>4
  <2>2. <<r.creator, s>> = p
    BY <1>5, <2>1
  <2> QED
    BY <1>5, <2>1, <2>2
<1> QED
  BY <1>3, <1>6, <1>7 DEF rows, now

\* All that the readers need.
ReadersInv == StartsAreTimes /\ LivedCounts /\ PledgesTotalCountsPledges

\* At the start, after each step, and so always.
LEMMA InitReadersInv == ProgramIndexInit => ReadersInv
<1> SUFFICES ASSUME ProgramIndexInit PROVE ReadersInv
  OBVIOUS
<1>1. \A p \in Pairs : ~Pledged(p)
  BY DEF ProgramIndexInit, Init, Pledged, ZeroPledge
<1>2. StartsAreTimes
  BY <1>1 DEF ProgramIndexInit, Init, StartsAreTimes
<1>3. LivedCounts
  BY DEF ProgramIndexInit, LivedCounts
<1>4. PledgesTotalCountsPledges
  <2>1. \A w, s \in Wallets : ~Pledged(<<w, s>>)
    BY <1>1 DEF Pairs
  <2>2. \A w \in Wallets : SupportersOf(w) = {} /\ ~Registered(w)
    BY <2>1 DEF SupportersOf, ProgramIndexInit, Init, Registered
  <2> QED
    BY <2>2 DEF PledgesTotalCountsPledges
<1> QED
  BY <1>2, <1>3, <1>4 DEF ReadersInv

LEMMA StepReadersInv ==
  TypeOK /\ TypeOK' /\ ReadersInv /\ [ProgramIndexNext]_allVars => ReadersInv'
BY ProgramStep, StepStartsAreTimes, StepLivedCounts, StepPledgesTotal DEF ReadersInv

LEMMA PagesInvCorrect == ProgramIndexSpec => [](TypeOK /\ IndexInv /\ ReadersInv)
BY IndexInvCorrect, InitReadersInv, StepReadersInv, PTL DEF ProgramIndexSpec

\* monthlySeries: whoever supported a creator at any instant of a month is counted in it, for
\* every length of month and every grace.
THEOREM SeriesMissesNoActiveMonthCorrect == ProgramIndexSpec => []SeriesMissesNoActiveMonth
<1>1. TypeOK /\ IndexInv /\ ReadersInv => SeriesMissesNoActiveMonth
  BY LivedIsCounted DEF ReadersInv
<1> QED
  BY <1>1, PagesInvCorrect, PTL

\* supporterPledges and the page over it: a supporter is told of all pledges and of no other,
\* "grace" exactly while a term is over and the pledge still counts, "ended" exactly after.
THEOREM SupporterPageCorrect == ProgramIndexSpec => []SupporterPageIsTrue
<1>1. TypeOK /\ IndexInv /\ ReadersInv => SupporterPageIsTrue
  BY SupporterPageTells DEF ReadersInv
<1> QED
  BY <1>1, PagesInvCorrect, PTL

-----------------------------------------------------------------------------
(* A creator's page: the order of the list, its pages, and the walk over them. *)

\* Rows of the pledges of one creator.
AreRowsOf(w, S) ==
  /\ IsFiniteSet(S) /\ S \subseteq DOMAIN index.pledges
  /\ \A p \in S : p \in Pairs /\ p[1] = w /\ index.pledges[p].started_at \in Nat

\* ORDER BY started_at, supporter is a total order on them: addresses part the ties.
LEMMA RowsAreOrdered ==
  ASSUME NEW w, NEW S, AreRowsOf(w, S), NEW p \in S, NEW q \in S
  PROVE  /\ ~Precedes(p, p)
         /\ p = q \/ Precedes(p, q) \/ Precedes(q, p)
         /\ \A r \in S : Precedes(p, q) /\ Precedes(q, r) => Precedes(p, r)
<1> DEFINE at(r) == index.pledges[r].started_at
           rank(r) == Rank[r[2]]
<1>1. \A r \in S : at(r) \in Nat /\ rank(r) \in Nat
  <2>1. \A r \in S : r[2] \in Wallets
    BY DEF AreRowsOf, Pairs
  <2> QED
    BY <2>1, ProgramIndexAssumption DEF AreRowsOf
<1>2. rank(p) = rank(q) => p = q
  <2>1. /\ p = <<w, p[2]>> /\ q = <<w, q[2]>> /\ p[2] \in Wallets /\ q[2] \in Wallets
    BY DEF AreRowsOf, Pairs
  <2>2. rank(p) = rank(q) => p[2] = q[2]
    BY <2>1, ProgramIndexAssumption
  <2> QED
    BY <2>1, <2>2
<1>3. \A r, s : Precedes(r, s) <=> at(r) < at(s) \/ (at(r) = at(s) /\ rank(r) < rank(s))
  BY DEF Precedes
<1> HIDE DEF at, rank
<1>4. p = q \/ Precedes(p, q) \/ Precedes(q, p)
  BY <1>1, <1>2, <1>3
<1>5. ~Precedes(p, p)
  BY <1>1, <1>3
<1>6. \A r \in S : Precedes(p, q) /\ Precedes(q, r) => Precedes(p, r)
  BY <1>1, <1>3
<1> QED
  BY <1>4, <1>5, <1>6

\* So each has a place of its own, and each place a row.
LEMMA PlacesOfRows ==
  ASSUME NEW w, NEW S, AreRowsOf(w, S)
  PROVE  /\ Cardinality(S) \in Nat
         /\ \A p \in S : PlaceOf(p, S) \in 1..Cardinality(S)
         /\ \A p, q \in S : Precedes(p, q) <=> PlaceOf(p, S) < PlaceOf(q, S)
         /\ \A p, q \in S : PlaceOf(p, S) = PlaceOf(q, S) => p = q
         /\ \A i \in 1..Cardinality(S) : \E p \in S : PlaceOf(p, S) = i
<1> DEFINE n == Cardinality(S)
           upTo(p) == {q \in S : q = p \/ Precedes(q, p)}
<1>0. IsFiniteSet(S)
  BY DEF AreRowsOf
<1>1. n \in Nat
  BY <1>0, FS_CardinalityType
<1>2. ASSUME NEW p \in S
      PROVE  /\ PlaceOf(p, S) = Cardinality(upTo(p)) /\ IsFiniteSet(upTo(p))
             /\ PlaceOf(p, S) \in 1..n
  <2>1. PlaceOf(p, S) = Cardinality(upTo(p))
    BY DEF PlaceOf
  <2>2. upTo(p) \in SUBSET S /\ p \in upTo(p)
    BY <1>2
  <2> HIDE DEF upTo
  <2>3. IsFiniteSet(upTo(p)) /\ Cardinality(upTo(p)) <= n
    BY <1>0, <2>2, FS_Subset
  <2>4. Cardinality(upTo(p)) \in Nat /\ Cardinality(upTo(p)) # 0
    BY <2>2, <2>3, FS_CardinalityType, FS_EmptySet
  <2> QED
    BY <1>1, <2>1, <2>3, <2>4
<1>3. ASSUME NEW p \in S, NEW q \in S, Precedes(p, q) PROVE PlaceOf(p, S) < PlaceOf(q, S)
  <2>1. upTo(p) \in SUBSET upTo(q) /\ q \in upTo(q) /\ q \notin upTo(p)
    BY <1>3, RowsAreOrdered
  <2>2. IsFiniteSet(upTo(q)) /\ PlaceOf(p, S) = Cardinality(upTo(p))
        /\ PlaceOf(q, S) = Cardinality(upTo(q))
        /\ PlaceOf(p, S) \in 1..n /\ PlaceOf(q, S) \in 1..n
    BY <1>2
  <2> HIDE DEF upTo
  <2>3. Cardinality(upTo(p)) <= Cardinality(upTo(q))
        /\ Cardinality(upTo(p)) # Cardinality(upTo(q))
    BY <2>1, <2>2, FS_Subset
  <2> QED
    BY <1>1, <2>2, <2>3
<1> HIDE DEF upTo
<1>4. ASSUME NEW p \in S, NEW q \in S
      PROVE  /\ Precedes(p, q) <=> PlaceOf(p, S) < PlaceOf(q, S)
             /\ PlaceOf(p, S) = PlaceOf(q, S) => p = q
  <2>1. p = q \/ Precedes(p, q) \/ Precedes(q, p)
    BY RowsAreOrdered
  <2>2. PlaceOf(p, S) \in Int /\ PlaceOf(q, S) \in Int
    BY <1>1, <1>2
  <2> QED
    BY <1>3, <2>1, <2>2
<1>5. ASSUME NEW i \in 1..n PROVE \E p \in S : PlaceOf(p, S) = i
  <2> DEFINE place == [p \in S |-> PlaceOf(p, S)]
  <2>1. place \in [S -> 1..n] /\ \A p, q \in S : place[p] = place[q] => p = q
    BY <1>2, <1>4
  <2>2. place \in Injection(S, 1..n)
    BY <2>1, Zenon DEF Injection, IsInjective
  <2>3. IsFiniteSet(1..n) /\ Cardinality(1..n) = n
    BY <1>1, FS_Interval
  <2>4. place \in Surjection(S, 1..n)
    BY <2>2, <2>3, FS_Injection
  <2>5. PICK p \in S : place[p] = i
    BY <2>4 DEF Surjection
  <2> QED
    BY <2>5
<1> QED
  BY <1>1, <1>2, <1>4, <1>5

\* The rows of a set in their order.
InOrder(S) == [i \in 1..Cardinality(S) |-> CHOOSE p \in S : PlaceOf(p, S) = i]

\* The list holds every row once, each in its place.
LEMMA InOrderFacts ==
  ASSUME NEW w, NEW S, AreRowsOf(w, S)
  PROVE  /\ Cardinality(S) \in Nat
         /\ InOrder(S) \in [1..Cardinality(S) -> S]
         /\ \A i \in 1..Cardinality(S) : PlaceOf(InOrder(S)[i], S) = i
         /\ \A p \in S : PlaceOf(p, S) \in 1..Cardinality(S) /\ InOrder(S)[PlaceOf(p, S)] = p
         /\ \A i, j \in 1..Cardinality(S) : Precedes(InOrder(S)[i], InOrder(S)[j]) <=> i < j
<1> DEFINE n == Cardinality(S)
           list == InOrder(S)
<1>2. /\ n \in Nat
      /\ \A p \in S : PlaceOf(p, S) \in 1..n
      /\ \A p, q \in S : Precedes(p, q) <=> PlaceOf(p, S) < PlaceOf(q, S)
      /\ \A p, q \in S : PlaceOf(p, S) = PlaceOf(q, S) => p = q
      /\ \A i \in 1..n : \E p \in S : PlaceOf(p, S) = i
  BY PlacesOfRows
<1>4. list = [i \in 1..n |-> CHOOSE p \in S : PlaceOf(p, S) = i]
  BY DEF InOrder
<1> HIDE DEF list, n
<1>5. \A i \in 1..n : list[i] \in S /\ PlaceOf(list[i], S) = i
  BY <1>2, <1>4
<1>6. list \in [1..n -> S]
  BY <1>4, <1>5
<1>8. \A p \in S : list[PlaceOf(p, S)] = p
  BY <1>2, <1>5
<1>9. \A i, j \in 1..n : Precedes(list[i], list[j]) <=> i < j
  BY <1>2, <1>5
<1> QED
  BY <1>2, <1>5, <1>6, <1>8, <1>9 DEF list, n

\* The rows after one of them are the rest of the list, in the same order.
LEMMA RestOfTheRows ==
  ASSUME NEW w, NEW S, AreRowsOf(w, S), NEW j \in 1..Cardinality(S), NEW T,
         T = {p \in S : Precedes(InOrder(S)[j], p)}
  PROVE  /\ AreRowsOf(w, T)
         /\ Cardinality(T) = Cardinality(S) - j
         /\ \A i \in 1..Cardinality(T) : InOrder(T)[i] = InOrder(S)[i + j]
<1> DEFINE n == Cardinality(S)
           list == InOrder(S)
           c == list[j]
           upTo(p) == {q \in S : q = p \/ Precedes(q, p)}
           upToIn(p) == {q \in T : q = p \/ Precedes(q, p)}
<1>1. /\ n \in Nat /\ list \in [1..n -> S] /\ IsFiniteSet(S)
      /\ \A i \in 1..n : PlaceOf(list[i], S) = i
      /\ \A p \in S : PlaceOf(p, S) \in 1..n /\ list[PlaceOf(p, S)] = p
      /\ \A p, q \in S : Precedes(p, q) <=> PlaceOf(p, S) < PlaceOf(q, S)
  BY InOrderFacts, PlacesOfRows DEF AreRowsOf
<1> HIDE DEF list, n
<1>2. c \in S /\ PlaceOf(c, S) = j /\ j \in Nat /\ j <= n
  BY <1>1 DEF n
<1>3. AreRowsOf(w, T)
  <2>1. T \in SUBSET S
    OBVIOUS
  <2> QED
    BY <2>1, FS_Subset DEF AreRowsOf
<1>4. ASSUME NEW p \in S, c = p \/ Precedes(c, p)
      PROVE  /\ upTo(c) \cup {q \in T : q = p \/ Precedes(q, p)} = upTo(p)
             /\ upTo(c) \cap {q \in T : q = p \/ Precedes(q, p)} = {}
  <2>1. \A q \in S : q = c \/ Precedes(q, c) \/ Precedes(c, q)
    BY <1>2, RowsAreOrdered
  <2>2. \A q \in S : ~(Precedes(c, q) /\ (q = c \/ Precedes(q, c)))
    BY <1>2, RowsAreOrdered
  <2>3. \A q \in S : q = c \/ Precedes(q, c) => q = p \/ Precedes(q, p)
    BY <1>2, <1>4, RowsAreOrdered
  <2>4. \A q : q \in T <=> q \in S /\ Precedes(c, q)
    BY DEF list
  <2> HIDE DEF c
  <2> QED
    BY <1>4, <2>1, <2>2, <2>3, <2>4
<1>5. ASSUME NEW p \in S, c = p \/ Precedes(c, p)
      PROVE  Cardinality(upToIn(p)) = PlaceOf(p, S) - j
  <2>1. /\ upTo(c) \in SUBSET S /\ upToIn(p) \in SUBSET S
        /\ PlaceOf(c, S) = Cardinality(upTo(c)) /\ PlaceOf(p, S) = Cardinality(upTo(p))
    BY DEF PlaceOf
  <2>2. upTo(c) \cup upToIn(p) = upTo(p) /\ upTo(c) \cap upToIn(p) = {}
    BY <1>4, <1>5
  <2> HIDE DEF upTo, upToIn
  <2>3. IsFiniteSet(upTo(c)) /\ IsFiniteSet(upToIn(p))
    BY <1>1, <2>1, FS_Subset
  <2>4. Cardinality(upTo(p)) = Cardinality(upTo(c)) + Cardinality(upToIn(p)) - Cardinality({})
    BY <2>2, <2>3, FS_Union
  <2>5. Cardinality({}) = 0 /\ Cardinality(upTo(c)) \in Nat /\ Cardinality(upToIn(p)) \in Nat
    BY <2>3, FS_EmptySet, FS_CardinalityType
  <2> QED
    BY <1>2, <2>1, <2>4, <2>5
<1>6. ASSUME NEW p \in T PROVE PlaceOf(p, T) = PlaceOf(p, S) - j
  <2>1. p \in S /\ Precedes(c, p)
    BY DEF list
  <2>2. PlaceOf(p, T) = Cardinality(upToIn(p))
    BY DEF PlaceOf
  <2> QED
    BY <1>5, <2>1, <2>2
<1>7. Cardinality(T) = n - j
  <2>0. n \in 1..n
    BY <1>1, <1>2
  <2> DEFINE z == list[n]
  <2>1. z \in S /\ PlaceOf(z, S) = n
    BY <1>1, <2>0
  <2>2. c = z \/ Precedes(c, z)
    BY <1>1, <1>2, <2>0, <2>1
  <2>3. \A q \in S : q = z \/ Precedes(q, z)
    <3> SUFFICES ASSUME NEW q \in S PROVE q = z \/ Precedes(q, z)
      OBVIOUS
    <3>1. PlaceOf(q, S) \in 1..n /\ (PlaceOf(q, S) = n => q = z)
      BY <1>1
    <3> QED
      BY <1>1, <2>1, <3>1
  <2> HIDE DEF z
  <2>4. upToIn(z) = T
    BY <2>3
  <2>5. Cardinality(upToIn(z)) = n - j
    BY <1>5, <2>1, <2>2
  <2> QED
    BY <2>4, <2>5
<1>8. ASSUME NEW i \in 1..Cardinality(T) PROVE InOrder(T)[i] = list[i + j]
  <2>1. i + j \in 1..n /\ i \in Nat
    BY <1>1, <1>2, <1>7
  <2> DEFINE p == InOrder(T)[i]
  <2>2. p \in T /\ PlaceOf(p, T) = i
    BY <1>3, InOrderFacts
  <2>3. p \in S
    BY <2>2
  <2> HIDE DEF p
  <2>4. PlaceOf(p, S) \in 1..n /\ PlaceOf(p, T) = PlaceOf(p, S) - j
    BY <1>1, <1>6, <2>2, <2>3
  <2>5. PlaceOf(p, S) = i + j
    BY <1>1, <1>2, <2>1, <2>2, <2>4
  <2>6. list[PlaceOf(p, S)] = p
    BY <1>1, <2>3
  <2> QED
    BY <2>5, <2>6 DEF p
<1> QED
  BY <1>3, <1>7, <1>8 DEF n, list

\* A nonempty set of naturals has a least one.
LEMMA NatMin ==
  ASSUME NEW T, T \subseteq Nat, T # {}
  PROVE  \E x \in T : \A y \in T : x <= y
<1> DEFINE R == OpToRel(<, Nat)
<1>1. IsWellFoundedOn(R, Nat)
  BY NatLessThanWellFounded
<1>2. \A x, y \in Nat : y < x => <<y, x>> \in R
  BY DEF OpToRel
<1> HIDE DEF R
<1>3. PICK x \in T : \A y \in T : <<y, x>> \notin R
  BY <1>1, WFMin
<1>4. \A y \in T : x <= y
  <2> TAKE y \in T
  <2>1. x \in Nat /\ y \in Nat
    OBVIOUS
  <2>2. ~(y < x)
    BY <1>2, <1>3, <2>1
  <2> QED
    BY <2>1, <2>2
<1> QED
  BY <1>3, <1>4

\* There are finitely many pledges.
LEMMA PairsAreFinite == IsFiniteSet(Pairs)
<1>1. Pairs = Wallets \X Wallets
  BY DEF Pairs
<1> QED
  BY <1>1, CcsupportAssumption, FS_Product

\* The pledges of some supporters to w; those that w's page shows.
PairsOf(w, A) == {<<w, s>> : s \in A}
ShownOf(w, now) ==
  {s \in SupportersOf(w) :
     IsActive(now, pledges[<<w, s>>].expires_at) /\ pledges[<<w, s>>].show_publicly}

\* The cursor of a row leads to the rows behind it.
CursorsLead(w, now, S) ==
  \A p \in S : /\ KeyOf(p) # NoCursor
               /\ Listed(w, now, KeyOf(p)) = {q \in S : Precedes(p, q)}

\* The rows of a page without a cursor are the pledges shown, and a cursor leads on from
\* its row.  That needs every start to be after 0.
LEMMA ListedRows ==
  ASSUME TypeOK, StartsAreTimes, PledgesAreIn(index.pledges), NEW w \in Wallets, NEW now,
         NEW S, S = Listed(w, now, NoCursor)
  PROVE  /\ AreRowsOf(w, S) /\ Cardinality(S) <= Cardinality(Wallets)
         /\ CursorsLead(w, now, S)
         /\ S = PairsOf(w, ShownOf(w, now))
<1>1. \A p \in DOMAIN index.pledges :
        /\ p \in Pairs /\ Pledged(p)
        /\ index.pledges[p].started_at = pledges[p].started_at
        /\ index.pledges[p].started_at \in Nat /\ index.pledges[p].started_at > 0
        /\ Rank[p[2]] \in Nat
  <2> SUFFICES ASSUME NEW p \in DOMAIN index.pledges
               PROVE  /\ p \in Pairs /\ Pledged(p)
                      /\ index.pledges[p].started_at = pledges[p].started_at
                      /\ index.pledges[p].started_at \in Nat /\ index.pledges[p].started_at > 0
                      /\ Rank[p[2]] \in Nat
    OBVIOUS
  <2>1. p \in Pairs /\ Pledged(p) /\ index.pledges[p].started_at = pledges[p].started_at
    BY DEF PledgesAreIn
  <2>2. pledges[p].started_at \in Nat /\ pledges[p].started_at > 0
    BY <2>1 DEF TypeOK, Pledge, StartsAreTimes
  <2>3. Rank[p[2]] \in Nat
    BY <2>1, ProgramIndexAssumption DEF Pairs
  <2> QED
    BY <2>1, <2>2, <2>3
<1> DEFINE Shown(p) == /\ p[1] = w /\ index.pledges[p].show_publicly
                       /\ IsActive(now, index.pledges[p].expires_at)
<1>2. S = {p \in DOMAIN index.pledges : Shown(p)}
  <2>1. \A p \in DOMAIN index.pledges : After(p, NoCursor)
    BY <1>1 DEF After, NoCursor
  <2> QED
    BY <2>1 DEF Listed
<1>3. AreRowsOf(w, S)
  <2>1. S \in SUBSET Pairs
    BY <1>1, <1>2
  <2>2. IsFiniteSet(S)
    BY <2>1, PairsAreFinite, FS_Subset
  <2> QED
    BY <1>1, <1>2, <2>2 DEF AreRowsOf
<1>4. ASSUME NEW p \in S
      PROVE  /\ KeyOf(p) # NoCursor
             /\ Listed(w, now, KeyOf(p)) = {q \in S : Precedes(p, q)}
  <2>1. KeyOf(p) # NoCursor
    BY <1>1, <1>2 DEF KeyOf, NoCursor
  <2>2. ASSUME NEW q \in S PROVE After(q, KeyOf(p)) <=> Precedes(p, q)
    BY <1>1, <1>2 DEF After, KeyOf, Precedes
  <2>3. Listed(w, now, KeyOf(p)) = {q \in S : After(q, KeyOf(p))}
    BY <1>2 DEF Listed
  <2> QED
    BY <2>1, <2>2, <2>3
<1>5. S = PairsOf(w, ShownOf(w, now))
  <2> DEFINE shown == ShownOf(w, now)
  <2>1. ASSUME NEW p \in S PROVE p = <<w, p[2]>> /\ p[2] \in shown
    <3>1. p \in DOMAIN index.pledges /\ p \in Pairs /\ Pledged(p) /\ Shown(p)
      BY <1>1, <1>2
    <3>2. p = <<w, p[2]>> /\ p[2] \in Wallets
      BY <3>1 DEF Pairs
    <3>3. /\ index.pledges[p].expires_at = pledges[p].expires_at
          /\ index.pledges[p].show_publicly = pledges[p].show_publicly
      BY <3>1 DEF PledgesAreIn
    <3> QED
      BY <3>1, <3>2, <3>3, Zenon DEF SupportersOf, ShownOf
  <2>2. ASSUME NEW v \in shown PROVE <<w, v>> \in S
    <3> DEFINE p == <<w, v>>
    <3>1. /\ p \in Pairs /\ Pledged(p) /\ p[1] = w
          /\ IsActive(now, pledges[p].expires_at) /\ pledges[p].show_publicly
      BY DEF ShownOf, SupportersOf, Pairs
    <3> HIDE DEF p
    <3>2. /\ p \in DOMAIN index.pledges
          /\ index.pledges[p].expires_at = pledges[p].expires_at
          /\ index.pledges[p].show_publicly = pledges[p].show_publicly
      BY <3>1 DEF PledgesAreIn
    <3>3. p \in S
      BY <1>2, <3>1, <3>2
    <3> QED
      BY <3>3 DEF p
  <2> HIDE DEF shown
  <2>3. S = {<<w, s>> : s \in shown}
    BY <2>1, <2>2
  <2> QED
    BY <2>3 DEF shown, PairsOf
<1>6. Cardinality(S) <= Cardinality(Wallets)
  <2> DEFINE who == [p \in S |-> p[2]]
  <2>1. who \in [S -> Wallets] /\ \A p, q \in S : who[p] = who[q] => p = q
    <3>1. \A p \in S : p = <<w, p[2]>> /\ p[2] \in Wallets
      BY <1>1, <1>2 DEF Pairs
    <3> QED
      BY <3>1
  <2>2. who \in Injection(S, Wallets)
    BY <2>1, Zenon DEF Injection, IsInjective
  <2> QED
    BY <2>2, CcsupportAssumption, FS_Injection
<1> QED
  BY <1>3, <1>4, <1>5, <1>6 DEF CursorsLead

\* k rows of a list, from the one behind its j-th.
RowsBehind(list, j, k) == [i \in 1..k |-> list[i + j]]

\* supportersPage from the j-th row.
LEMMA PageOfRows ==
  ASSUME NEW w, NEW now, NEW S, S = Listed(w, now, NoCursor), AreRowsOf(w, S),
         CursorsLead(w, now, S),
         NEW j \in 0..Cardinality(S), NEW n \in Nat, NEW key,
         key = IF j = 0 THEN NoCursor ELSE KeyOf(InOrder(S)[j])
  PROVE  SupportersPage(w, now, key, n) =
           RowsBehind(InOrder(S), j, Smaller(Cardinality(S) - j, n))
<1> DEFINE T == Listed(w, now, key)
           N == Cardinality(S)
           list == InOrder(S)
<1>0. /\ N \in Nat /\ list \in [1..N -> S]
  BY InOrderFacts
<1>1. /\ AreRowsOf(w, T) /\ Cardinality(T) = N - j
      /\ \A i \in 1..Cardinality(T) : InOrder(T)[i] = list[i + j]
  <2>1. CASE j = 0
    <3>1. T = S
      BY <2>1
    <3>2. \A i \in 1..N : i + 0 = i
      BY <1>0
    <3> HIDE DEF T, list, N
    <3> QED
      BY <1>0, <2>1, <3>1, <3>2 DEF N, list
  <2>2. CASE j # 0
    <3>1. j \in 1..N
      BY <1>0, <2>2
    <3>2. list[j] \in S
      BY <1>0, <3>1
    <3>3. T = {q \in S : Precedes(list[j], q)}
      BY <2>2, <3>2 DEF CursorsLead
    <3> HIDE DEF T
    <3> QED
      BY <3>1, <3>3, RestOfTheRows
  <2> QED
    BY <2>1, <2>2
<1>2. SupportersPage(w, now, key, n) =
        [i \in 1..Smaller(Cardinality(T), n) |-> CHOOSE p \in T : PlaceOf(p, T) = i]
  BY DEF SupportersPage
<1> HIDE DEF T, list, N
<1>3. ASSUME NEW i \in 1..Smaller(N - j, n)
      PROVE  (CHOOSE p \in T : PlaceOf(p, T) = i) = list[i + j]
  <2>1. i \in 1..Cardinality(T)
    BY <1>0, <1>1 DEF Smaller, N
  <2>2. InOrder(T)[i] = CHOOSE p \in T : PlaceOf(p, T) = i
    BY <2>1 DEF InOrder
  <2> QED
    BY <1>1, <2>1, <2>2
<1> QED
  BY <1>1, <1>2, <1>3 DEF list, N, RowsBehind

\* The first n rows of a list, and the cursor behind them.
FirstRows(list, n) == [i \in 1..n |-> list[i]]
CursorAfter(list, n, all) == IF n < all THEN KeyOf(list[n]) ELSE NoCursor

\* Names that keep the provers from looking inside.
Joined(s, t) == s \o t
ListsRows(list, N, S) == list \in [1..N -> S]

\* What is read so far and the next page make what is read then.
LEMMA FirstRowsGrow ==
  ASSUME NEW S, NEW N \in Nat, NEW list, ListsRows(list, N, S),
         NEW j \in Nat, NEW k \in Nat, j + k <= N
  PROVE  Joined(FirstRows(list, j), RowsBehind(list, j, k)) = FirstRows(list, j + k)
<1> DEFINE one == FirstRows(list, j)
           two == RowsBehind(list, j, k)
           both == FirstRows(list, j + k)
<1>1. /\ one \in Seq(S) /\ Len(one) = j /\ \A i \in 1..j : one[i] = list[i]
  BY DEF FirstRows, ListsRows
<1>2. /\ two \in Seq(S) /\ Len(two) = k /\ \A i \in 1..k : two[i] = list[i + j]
  BY DEF RowsBehind, ListsRows
<1>3. /\ both \in Seq(S) /\ Len(both) = j + k /\ \A i \in 1..j + k : both[i] = list[i]
  BY DEF FirstRows, ListsRows
<1> HIDE DEF one, two, both
<1>4. /\ one \o two \in Seq(S) /\ Len(one \o two) = j + k
      /\ \A i \in 1..j + k : (one \o two)[i] = IF i <= j THEN one[i] ELSE two[i - j]
  <2>1. one \in Seq(S) /\ two \in Seq(S) /\ Len(one) = j /\ Len(two) = k
    BY <1>1, <1>2
  <2>2. one \o two \in Seq(S) /\ Len(one \o two) = j + k
    BY <2>1, ConcatProperties
  <2>3. \A i \in 1..j + k : (one \o two)[i] = IF i <= j THEN one[i] ELSE two[i - j]
    BY <2>1, ConcatProperties
  <2> QED
    BY <2>2, <2>3
<1>5. ASSUME NEW i \in 1..j + k PROVE (one \o two)[i] = both[i]
  <2>1. CASE i <= j
    <3>1. i \in 1..j
      BY <2>1
    <3>2. one[i] = list[i] /\ both[i] = list[i] /\ (one \o two)[i] = one[i]
      BY <2>1, <3>1, <1>1, <1>3, <1>4
    <3> QED
      BY <3>2
  <2>2. CASE ~(i <= j)
    <3>1. i - j \in 1..k /\ (i - j) + j = i
      BY <2>2
    <3>2. two[i - j] = list[i]
      BY <3>1, <1>2
    <3>3. both[i] = list[i] /\ (one \o two)[i] = two[i - j]
      BY <2>2, <1>3, <1>4
    <3> QED
      BY <3>2, <3>3
  <2> QED
    BY <2>1, <2>2
<1>6. one \o two = both
  BY <1>3, <1>4, <1>5, SeqEqual
<1> QED
  BY <1>6 DEF one, two, both, Joined

\* page: the answer of the route, and its cursor.
LEMMA AnswerOfRows ==
  ASSUME NEW w, NEW now, NEW S, S = Listed(w, now, NoCursor), AreRowsOf(w, S),
         CursorsLead(w, now, S),
         NEW j \in 0..Cardinality(S), NEW limit \in Nat \ {0}, NEW key,
         key = IF j = 0 THEN NoCursor ELSE KeyOf(InOrder(S)[j]),
         NEW k \in Nat, k = Smaller(Cardinality(S) - j, limit)
  PROVE  SupportersAnswer(w, now, key, limit) =
           [items |-> RowsBehind(InOrder(S), j, k),
            next |-> CursorAfter(InOrder(S), j + k, Cardinality(S))]
<1> DEFINE N == Cardinality(S)
           list == InOrder(S)
           rows == SupportersPage(w, now, key, limit + 1)
           n == Smaller(N - j, limit + 1)
<1>0. /\ N \in Nat /\ list \in [1..N -> S]
  BY InOrderFacts
<1>1. rows = [i \in 1..n |-> list[i + j]]
  <2>1. PICK m \in Nat : m = limit + 1
    OBVIOUS
  <2>2. SupportersPage(w, now, key, m) =
          RowsBehind(InOrder(S), j, Smaller(Cardinality(S) - j, m))
    BY PageOfRows
  <2> QED
    BY <2>1, <2>2 DEF RowsBehind
<1>2. SupportersAnswer(w, now, key, limit) =
        [items |-> IF Len(rows) > limit THEN SubSeq(rows, 1, limit) ELSE rows,
         next |-> IF Len(rows) > limit THEN KeyOf(rows[limit]) ELSE NoCursor]
  BY DEF SupportersAnswer
<1>a. N = Cardinality(S)
  OBVIOUS
<1> HIDE DEF N, list, rows
<1>3. n \in Nat /\ n <= N - j
  BY <1>0, <1>a DEF Smaller
<1>4. rows \in Seq(S) /\ Len(rows) = n /\ \A i \in 1..n : rows[i] = list[i + j]
  <2>1. \A i \in 1..n : list[i + j] \in S
    BY <1>0, <1>3
  <2> HIDE DEF n
  <2> QED
    BY <1>1, <1>3, <2>1
<1>5. CASE N - j > limit
  <2>1. n = limit + 1 /\ k = limit /\ j + k < N
    BY <1>0, <1>5, <1>a DEF Smaller
  <2>2. SubSeq(rows, 1, limit) = [i \in 1..k |-> list[i + j]]
    <3> DEFINE sub == SubSeq(rows, 1, limit)
               want == [i \in 1..k |-> list[i + j]]
    <3>1. \A i \in 1..limit : rows[i] \in S
      BY <1>4, <2>1
    <3>2. /\ sub \in Seq(S) /\ Len(sub) = limit
          /\ \A i \in 1..limit - 1 + 1 : sub[i] = rows[1 + i - 1]
      BY <3>1, SubSeqProperties
    <3>3. \A i \in 1..limit : sub[i] = list[i + j]
      <4> HIDE DEF sub
      <4>1. \A i \in 1..limit : sub[i] = rows[i]
        BY <3>2
      <4> QED
        BY <1>4, <2>1, <4>1
    <3>4. want \in Seq(S) /\ Len(want) = limit /\ \A i \in 1..limit : want[i] = list[i + j]
      <4>1. \A i \in 1..k : list[i + j] \in S
        BY <1>0, <2>1
      <4> QED
        BY <2>1, <4>1
    <3> HIDE DEF sub, want
    <3> QED
      BY <3>2, <3>3, <3>4, SeqEqual DEF sub, want
  <2>3. rows[limit] = list[j + k]
    BY <1>4, <2>1
  <2>4. Len(rows) > limit
    BY <1>4, <2>1
  <2> HIDE DEF n
  <2> QED
    BY <1>2, <2>1, <2>2, <2>3, <2>4 DEF CursorAfter, RowsBehind, N, list
<1>6. CASE ~(N - j > limit)
  <2>1. n = k /\ j + k = N
    BY <1>0, <1>6, <1>a DEF Smaller
  <2>2. ~(Len(rows) > limit)
    BY <1>0, <1>4, <1>6, <2>1, <1>a
  <2>3. rows = [i \in 1..k |-> list[i + j]]
    BY <1>1, <2>1
  <2>4. ~(j + k < N)
    BY <1>0, <2>1
  <2> HIDE DEF n
  <2> QED
    BY <1>2, <2>2, <2>3, <2>4 DEF CursorAfter, RowsBehind, N, list
<1> QED
  BY <1>5, <1>6

\* Two sequences that begin alike and go on alike end alike.
LEMMA RecursionIsUnique ==
  ASSUME NEW C \in Nat, NEW W, NEW f, f[0] = W[0],
         \A n \in 1..C : f[n - 1] = W[n - 1] => f[n] = W[n]
  PROVE  f[C] = W[C]
<1> SUFFICES ASSUME f[C] # W[C] PROVE FALSE
  OBVIOUS
<1> DEFINE T == {n \in 0..C : f[n] # W[n]}
<1>1. T \subseteq Nat /\ C \in T
  OBVIOUS
<1>2. PICK n \in T : \A m \in T : n <= m
  BY <1>1, NatMin
<1>3. n # 0 /\ n \in 1..C /\ n - 1 \in 0..C /\ n - 1 < n
  BY <1>2
<1>4. f[n - 1] = W[n - 1]
  BY <1>2, <1>3
<1> QED
  BY <1>2, <1>3, <1>4

\* The pages joined.
LEMMA ItemsBefore ==
  ASSUME NEW x, NEW y, NEW c, NEW a, a = [items |-> y, next |-> c]
  PROVE  [a EXCEPT !.items = x \o @] = [items |-> Joined(x, y), next |-> c]
<1>1. PICK z : z = Joined(x, y)
  OBVIOUS
<1>2. [a EXCEPT !.items = x \o @] = [a EXCEPT !.items = x \o a.items]
  BY Zenon
<1>3. x \o a.items = z
  BY <1>1 DEF Joined
<1>4. [a EXCEPT !.items = x \o a.items] = [a EXCEPT !.items = z]
  BY <1>3, Zenon
<1>5. [a EXCEPT !.items = z] = [items |-> z, next |-> c]
  OBVIOUS
<1> QED
  BY <1>1, <1>2, <1>4, <1>5, Zenon

\* The walk of getNextPageParam ends with all rows in order, for any page size.
LEMMA WalkOfRows ==
  ASSUME NEW w, NEW now, NEW S, S = Listed(w, now, NoCursor), AreRowsOf(w, S),
         Cardinality(S) <= Cardinality(Wallets),
         CursorsLead(w, now, S),
         NEW limit \in Nat \ {0}
  PROVE  ListedSupporters(w, now, limit) = FirstRows(InOrder(S), Cardinality(S))
<1> DEFINE N == Cardinality(S)
           list == InOrder(S)
           C == Cardinality(Wallets)
           Reached(n) == Smaller(N, (n + 1) * limit)
           State(n) == [items |-> FirstRows(list, Reached(n)),
                        next |-> CursorAfter(list, Reached(n), N)]
           Answer(key) == SupportersAnswer(w, now, key, limit)
           More(seen) == IF seen.next = NoCursor THEN seen
                         ELSE [Answer(seen.next) EXCEPT !.items = seen.items \o @]
           Next1(f, n) == IF n = 0 THEN Answer(NoCursor) ELSE More(f[n - 1])
           W == [n \in 0..C |-> State(n)]
<1>0. N \in Nat /\ list \in [1..N -> S] /\ C \in Nat /\ N <= C
  BY InOrderFacts, CcsupportAssumption, FS_CardinalityType
<1>1. ASSUME NEW j \in 0..N, NEW key, key = IF j = 0 THEN NoCursor ELSE KeyOf(list[j]),
             NEW k \in Nat, k = Smaller(N - j, limit)
      PROVE  Answer(key) = [items |-> RowsBehind(list, j, k), next |-> CursorAfter(list, j + k,
           N)]
  BY <1>1, AnswerOfRows
<1>2. ListedSupporters(w, now, limit) = (CHOOSE f : f = [n \in 0..C |-> Next1(f, n)])[C].items
  BY Zenon DEF ListedSupporters
<1>k. \A j \in 1..N : KeyOf(list[j]) # NoCursor
  BY <1>0 DEF CursorsLead
<1> HIDE DEF N, list, C, Answer
<1>3. State(0) = Answer(NoCursor)
  <2>1. PICK k \in Nat : k = Smaller(N - 0, limit)
    BY <1>0 DEF Smaller
  <2>2. Answer(NoCursor) = [items |-> RowsBehind(list, 0, k), next |-> CursorAfter(list, 0 + k,
       N)]
    BY <1>0, <1>1, <2>1
  <2>3. Reached(0) = k /\ 0 + k = k /\ k <= N
    BY <1>0, <2>1 DEF Smaller
  <2>4. RowsBehind(list, 0, k) = FirstRows(list, k)
    <3>1. \A i \in 1..k : list[i + 0] = list[i]
      OBVIOUS
    <3> QED
      BY <3>1 DEF RowsBehind, FirstRows
  <2> QED
    BY <2>2, <2>3, <2>4
<1>4. ASSUME NEW n \in 1..C PROVE More(State(n - 1)) = State(n)
  <2> DEFINE P == n * limit
  <2>1. /\ P \in Nat /\ ((n - 1) + 1) * limit = P /\ (n + 1) * limit = P + limit
    BY <1>0
  <2> HIDE DEF P
  <2>p. P \in Nat
    BY <2>1
  <2>2. /\ Reached(n - 1) = Smaller(N, P) /\ Reached(n) = Smaller(N, P + limit)
    BY <2>1
  <2>3. CASE P >= N
    <3>1. Reached(n - 1) = N /\ Reached(n) = N
      BY <1>0, <2>1, <2>2, <2>3 DEF Smaller
    <3> HIDE DEF Reached
    <3>2. State(n - 1) = State(n) /\ State(n - 1).next = NoCursor
      BY <1>0, <3>1 DEF CursorAfter
    <3> HIDE DEF State
    <3> QED
      BY <3>2
  <2>4. CASE P < N
    <3>0. P \in 1..N
      BY <1>0, <2>1, <2>4
    <3>1. PICK k \in Nat : k = Smaller(N - P, limit)
      <4>1. N - P \in Nat /\ limit \in Nat
        BY <1>0, <2>p, <2>4
      <4> QED
        BY <4>1 DEF Smaller
    <3>2. Reached(n - 1) = P /\ Reached(n) = P + k /\ P + k <= N
      BY <1>0, <2>1, <2>2, <2>4, <3>1 DEF Smaller
    <3> HIDE DEF Reached
    <3>3. PICK key : key = KeyOf(list[P])
      OBVIOUS
    <3>4. State(n - 1) = [items |-> FirstRows(list, P), next |-> key]
      BY <2>4, <3>2, <3>3 DEF CursorAfter
    <3>5. key # NoCursor
      BY <1>k, <3>0, <3>3
    <3>6. Answer(key) = [items |-> RowsBehind(list, P, k), next |-> CursorAfter(list, P + k, N)]
      BY <1>0, <1>1, <3>0, <3>1, <3>3
    <3>7. Joined(FirstRows(list, P), RowsBehind(list, P, k)) = FirstRows(list, P + k)
      <4>1. ListsRows(list, N, S) /\ N \in Nat
        BY <1>0 DEF ListsRows
      <4> QED
        BY <2>p, <3>1, <3>2, <4>1, FirstRowsGrow
    <3>8. State(n) = [items |-> FirstRows(list, P + k), next |-> CursorAfter(list, P + k, N)]
      BY <3>2
    <3> HIDE DEF State
    <3>9. PICK seen : seen = State(n - 1)
      OBVIOUS
    <3>10. seen.next = key /\ seen.items = FirstRows(list, P)
      BY <3>4, <3>9
    <3>11. More(seen) = [Answer(key) EXCEPT !.items = FirstRows(list, P) \o @]
      BY <3>5, <3>10, Zenon
    <3>12. [Answer(key) EXCEPT !.items = FirstRows(list, P) \o @] =
             [items |-> Joined(FirstRows(list, P), RowsBehind(list, P, k)),
              next |-> CursorAfter(list, P + k, N)]
      <4>1. PICK x, y, c : /\ x = FirstRows(list, P) /\ y = RowsBehind(list, P, k)
                           /\ c = CursorAfter(list, P + k, N)
        OBVIOUS
      <4>2. Answer(key) = [items |-> y, next |-> c]
        BY <3>6, <4>1
      <4>3. [Answer(key) EXCEPT !.items = x \o @] = [items |-> Joined(x, y), next |-> c]
        <5>1. PICK a : a = Answer(key)
          OBVIOUS
        <5>2. [a EXCEPT !.items = x \o @] = [items |-> Joined(x, y), next |-> c]
          BY <4>2, <5>1, ItemsBefore
        <5> QED
          BY <5>1, <5>2, Zenon
      <4> QED
        BY <4>1, <4>3, Zenon
    <3> QED
      BY <3>7, <3>8, <3>9, <3>11, <3>12
  <2> QED
    BY <1>0, <2>1, <2>3, <2>4
<1>5. State(C).items = FirstRows(list, N)
  <2>1. (C + 1) * limit \in Nat /\ (C + 1) * limit >= C
    <3>1. limit >= 1
      OBVIOUS
    <3>2. C * limit \in Nat /\ (C + 1) * limit = C * limit + limit /\ C * limit >= C
      BY <1>0, <3>1
    <3> QED
      BY <1>0, <3>1, <3>2
  <2>2. Reached(C) = N
    BY <1>0, <2>1 DEF Smaller
  <2> QED
    BY <2>2
<1> HIDE DEF State, More
<1>6. W = [n \in 0..C |-> Next1(W, n)]
  <2>1. \A n \in 0..C : W[n] = State(n)
    OBVIOUS
  <2>2. DOMAIN W = 0..C /\ W = [n \in 0..C |-> W[n]]
    OBVIOUS
  <2> HIDE DEF W
  <2>3. ASSUME NEW n \in 0..C PROVE Next1(W, n) = W[n]
    <3>1. CASE n = 0
      BY <3>1, <2>1, <1>3
    <3>2. CASE n # 0
      <4>1. n \in 1..C /\ n - 1 \in 0..C
        BY <1>0, <3>2
      <4> QED
        BY <4>1, <2>1, <1>4
    <3> QED
      BY <3>1, <3>2
  <2> HIDE DEF Next1
  <2> QED
    BY <2>2, <2>3
<1>7. ASSUME NEW f, f = [n \in 0..C |-> Next1(f, n)] PROVE f[C] = State(C)
  <2>1. \A n \in 0..C : f[n] = Next1(f, n)
    <3> HIDE DEF Next1
    <3> QED
      BY <1>7
  <2>2. \A n \in 0..C : W[n] = State(n)
    OBVIOUS
  <2>3. f[0] = W[0]
    BY <1>0, <1>3, <2>1, <2>2
  <2>4. ASSUME NEW n \in 1..C, f[n - 1] = W[n - 1] PROVE f[n] = W[n]
    <3>1. n \in 0..C /\ n - 1 \in 0..C /\ n # 0
      BY <1>0
    <3>2. f[n] = More(f[n - 1])
      BY <2>1, <3>1
    <3> HIDE DEF W
    <3> QED
      BY <1>4, <2>2, <2>4, <3>1, <3>2
  <2> HIDE DEF W, Next1
  <2>5. f[C] = W[C]
    BY <1>0, <2>3, <2>4, RecursionIsUnique
  <2> QED
    BY <1>0, <2>2, <2>5
<1> QED
  <2> HIDE DEF Next1, W
  <2> QED
    BY <1>2, <1>5, <1>6, <1>7 DEF N, list

\* Counting pledges of a creator is counting supporters.
LEMMA CountBySupporter ==
  ASSUME NEW w, NEW A \in SUBSET Wallets, NEW B, B = PairsOf(w, A)
  PROVE  IsFiniteSet(B) /\ Cardinality(B) = Cardinality(A)
<1> DEFINE f == [s \in A |-> <<w, s>>]
<1>1. IsFiniteSet(A)
  BY CcsupportAssumption, FS_Subset
<1>2. /\ f \in [A -> B] /\ \A s, t \in A : f[s] = f[t] => s = t
      /\ \A p \in B : \E s \in A : f[s] = p
  BY DEF PairsOf
<1> HIDE DEF f
<1>3. f \in Bijection(A, B)
  BY <1>2, Zenon DEF Bijection, Injection, Surjection, IsInjective
<1>4. ExistsBijection(A, B)
  BY <1>3 DEF ExistsBijection
<1> QED
  BY <1>1, <1>4, FS_Bijection

\* creatorByHandle: the two counters.
LEMMA CountersTell ==
  ASSUME TypeOK, PledgesTotalCountsPledges, PledgesAreIn(index.pledges), NEW w \in Wallets,
         Registered(w), NEW now
  PROVE  /\ TotalSupporters(w) = creators[w].pledges_total
         /\ ActiveSupporters(w, now) =
              Cardinality({s \in SupportersOf(w) : IsActive(now, pledges[<<w, s>>].expires_at)})
<1> DEFINE rows == {p \in DOMAIN index.pledges : p[1] = w}
           active == {s \in SupportersOf(w) : IsActive(now, pledges[<<w, s>>].expires_at)}
           paying == {p \in DOMAIN index.pledges :
                        p[1] = w /\ IsActive(now, index.pledges[p].expires_at)}
<1>1. \A p : p \in DOMAIN index.pledges <=> p \in Pairs /\ Pledged(p)
  BY DEF PledgesAreIn
<1>2. ASSUME NEW s \in Wallets
      PROVE  /\ <<w, s>> \in DOMAIN index.pledges <=> s \in SupportersOf(w)
             /\ s \in SupportersOf(w) =>
                  index.pledges[<<w, s>>].expires_at = pledges[<<w, s>>].expires_at
  <2>1. <<w, s>> \in Pairs
    BY DEF Pairs
  <2>2. <<w, s>> \in DOMAIN index.pledges <=> s \in SupportersOf(w)
    BY <1>1, <2>1 DEF SupportersOf
  <2>3. <<w, s>> \in DOMAIN index.pledges =>
          index.pledges[<<w, s>>].expires_at = pledges[<<w, s>>].expires_at
    BY DEF PledgesAreIn
  <2> QED
    BY <2>2, <2>3
<1>3. ASSUME NEW p \in DOMAIN index.pledges, p[1] = w PROVE p = <<w, p[2]>> /\ p[2] \in Wallets
  BY <1>1, <1>3 DEF Pairs
<1>4. SupportersOf(w) \in SUBSET Wallets /\ active \in SUBSET Wallets
  BY DEF SupportersOf
<1>5. rows = PairsOf(w, SupportersOf(w))
  <2>1. ASSUME NEW p \in rows PROVE \E s \in SupportersOf(w) : p = <<w, s>>
    BY <1>2, <1>3
  <2>2. ASSUME NEW s \in SupportersOf(w) PROVE <<w, s>> \in rows
    BY <1>2, <1>4
  <2> HIDE DEF rows
  <2> QED
    BY <2>1, <2>2 DEF PairsOf
<1>6. paying = PairsOf(w, active)
  <2>1. ASSUME NEW p \in paying PROVE \E s \in active : p = <<w, s>>
    <3>1. p \in DOMAIN index.pledges /\ p = <<w, p[2]>> /\ p[2] \in Wallets
      BY <1>3
    <3>2. p[2] \in SupportersOf(w) /\ index.pledges[p].expires_at = pledges[p].expires_at
      BY <1>2, <3>1
    <3>3. IsActive(now, pledges[<<w, p[2]>>].expires_at)
      BY <3>1, <3>2
    <3> QED
      BY <3>1, <3>2, <3>3
  <2>2. ASSUME NEW s \in active PROVE <<w, s>> \in paying
    BY <1>2, <1>4
  <2> HIDE DEF paying, active
  <2> QED
    BY <2>1, <2>2 DEF PairsOf
<1> HIDE DEF rows, active, paying
<1>7. Cardinality(rows) = Cardinality(SupportersOf(w))
  BY <1>4, <1>5, CountBySupporter
<1>8. Cardinality(paying) = Cardinality(active)
  BY <1>4, <1>6, CountBySupporter
<1>9. TotalSupporters(w) = Cardinality(rows) /\ ActiveSupporters(w, now) = Cardinality(paying)
  BY DEF TotalSupporters, ActiveSupporters, rows, paying
<1> QED
  BY <1>7, <1>8, <1>9 DEF active, PledgesTotalCountsPledges

\* The list of a creator's page.
LEMMA ListTells ==
  ASSUME TypeOK, StartsAreTimes, PledgesAreIn(index.pledges), NEW w \in Wallets, NEW now,
         NEW limit \in Nat \ {0}, NEW rows, rows = ListedSupporters(w, now, limit)
  PROVE  /\ {rows[i] : i \in DOMAIN rows} =
              PairsOf(w, ShownOf(w, now))
         /\ \A i, j \in DOMAIN rows : i < j =>
              /\ rows[i] # rows[j]
              /\ pledges[rows[i]].started_at <= pledges[rows[j]].started_at
<1>1. PICK S : S = Listed(w, now, NoCursor)
  OBVIOUS
<1> DEFINE N == Cardinality(S)
           list == InOrder(S)
<1>2. /\ AreRowsOf(w, S) /\ Cardinality(S) <= Cardinality(Wallets)
      /\ CursorsLead(w, now, S) /\ S = PairsOf(w, ShownOf(w, now))
  BY <1>1, ListedRows
<1>3. /\ N \in Nat /\ list \in [1..N -> S]
      /\ \A p \in S : PlaceOf(p, S) \in 1..N /\ list[PlaceOf(p, S)] = p
      /\ \A i, j \in 1..N : Precedes(list[i], list[j]) <=> i < j
  BY <1>2, InOrderFacts
<1>4. rows = FirstRows(list, N)
  BY <1>1, <1>2, WalkOfRows
<1> HIDE DEF N, list
<1>5. DOMAIN rows = 1..N /\ \A i \in 1..N : rows[i] = list[i]
  BY <1>4 DEF FirstRows
<1>6. {rows[i] : i \in DOMAIN rows} = S
  BY <1>3, <1>5
<1>7. ASSUME NEW i \in DOMAIN rows, NEW j \in DOMAIN rows, i < j
      PROVE  /\ rows[i] # rows[j]
             /\ pledges[rows[i]].started_at <= pledges[rows[j]].started_at
  <2>1. Precedes(rows[i], rows[j]) /\ rows[i] \in S /\ rows[j] \in S
    BY <1>3, <1>5, <1>7
  <2>2. rows[i] # rows[j]
    BY <1>2, <2>1, RowsAreOrdered
  <2>3. /\ rows[i] \in DOMAIN index.pledges /\ rows[j] \in DOMAIN index.pledges
        /\ index.pledges[rows[i]].started_at \in Nat /\ index.pledges[rows[j]].started_at \in Nat
    BY <1>2, <2>1 DEF AreRowsOf
  <2>4. /\ index.pledges[rows[i]].started_at = pledges[rows[i]].started_at
        /\ index.pledges[rows[j]].started_at = pledges[rows[j]].started_at
    BY <2>3 DEF PledgesAreIn
  <2>5. index.pledges[rows[i]].started_at <= index.pledges[rows[j]].started_at
    BY <2>1, <2>3 DEF Precedes
  <2> QED
    BY <2>2, <2>4, <2>5
<1> QED
  BY <1>2, <1>6, <1>7

\* Both together.
LEMMA CreatorPageTells ==
  ASSUME TypeOK, ReadersInv, IndexInv
  PROVE  CreatorPageIsTrue
<1> SUFFICES ASSUME CaughtUp, NEW w \in Wallets, Registered(w)
             PROVE  LET now == clock.unix_timestamp
                        active == {s \in SupportersOf(w) :
                                     IsActive(now, pledges[<<w, s>>].expires_at)}
                    IN  /\ TotalSupporters(w) = creators[w].pledges_total
                        /\ ActiveSupporters(w, now) = Cardinality(active)
                        /\ \A limit \in PageLimits :
                             LET rows == ListedSupporters(w, now, limit)
                             IN  /\ {rows[i] : i \in DOMAIN rows} =
                                      {<<w, s>> : s \in {v \in active :
                                                           pledges[<<w, v>>].show_publicly}}
                                 /\ \A i, j \in DOMAIN rows : i < j =>
                                      /\ rows[i] # rows[j]
                                      /\ pledges[rows[i]].started_at <=
                                           pledges[rows[j]].started_at
  BY Zenon DEF CreatorPageIsTrue
<1>1. PledgesAreIn(index.pledges)
  BY DEF IndexInv, ReplayInv, IsTheChain, CaughtUp
<1>n. PICK now : now = clock.unix_timestamp
  OBVIOUS
<1> DEFINE active == {s \in SupportersOf(w) : IsActive(now, pledges[<<w, s>>].expires_at)}
           shown == {v \in active : pledges[<<w, v>>].show_publicly}
<1>2. /\ TotalSupporters(w) = creators[w].pledges_total
      /\ ActiveSupporters(w, now) = Cardinality(active)
  BY <1>1, CountersTell DEF ReadersInv
<1>3. {<<w, s>> : s \in shown} = PairsOf(w, ShownOf(w, now))
  BY DEF PairsOf, ShownOf
<1>4. ASSUME NEW limit \in PageLimits, NEW rows, rows = ListedSupporters(w, now, limit)
      PROVE  /\ {rows[i] : i \in DOMAIN rows} = {<<w, s>> : s \in shown}
             /\ \A i, j \in DOMAIN rows : i < j =>
                  /\ rows[i] # rows[j]
                  /\ pledges[rows[i]].started_at <= pledges[rows[j]].started_at
  <2>1. limit \in Nat \ {0}
    BY ProgramIndexAssumption
  <2>2. StartsAreTimes
    BY DEF ReadersInv
  <2>3. /\ {rows[i] : i \in DOMAIN rows} = PairsOf(w, ShownOf(w, now))
        /\ \A i, j \in DOMAIN rows : i < j =>
             /\ rows[i] # rows[j]
             /\ pledges[rows[i]].started_at <= pledges[rows[j]].started_at
    BY <1>1, <1>4, <2>1, <2>2, ListTells
  <2> HIDE DEF shown
  <2> QED
    BY <1>3, <2>3
<1> QED
  BY <1>n, <1>2, <1>4, Zenon

\* README "Every counter on a page can be rebuilt from chain state": the counters of a caught-up
\* creator's page are the chain's, and the walk over its list shows each public and active
\* supporter once, in order, at every page size, also when several pledges share a start.
THEOREM CreatorPageCorrect == ProgramIndexSpec => []CreatorPageIsTrue
<1>1. TypeOK /\ IndexInv /\ ReadersInv => CreatorPageIsTrue
  BY CreatorPageTells
<1> QED
  BY <1>1, PagesInvCorrect, PTL
=============================================================================
