---------------------------- MODULE PaymentsProofs ----------------------------
(***************************************************************************)
(* What is read of a payment is what was paid, for any number of payments, *)
(* any amounts that the two parts can hold and any other use of the proof  *)
(* accounts.  The argument is an invariant of the ledger and the index:    *)
(* what the transactions of an account are, by their place in its history. *)
(* The totals need a second one, of what arrived in the account, and facts *)
(* about sums over a set.                                                  *)
(***************************************************************************)
EXTENDS Payments, FiniteSetTheorems, WellFoundedInduction, TLAPS

-----------------------------------------------------------------------------
(* The key session, for any wallets and any number of prompts.  Neither of *)
(* its two properties is inductive: an answer to a prompt is only harmless *)
(* because of how the prompts, the session's map and those who wait for    *)
(* them relate, which is what SessionInv adds.                             *)

Answers == {"open", "signed", "refused", "refused late", "over"}
Prompts == [owner : SessionWallets, answer : Answers, fresh : BOOLEAN]

SessionTypes ==
  /\ selected \in SessionWallets \union {NoKeys}
  /\ keys \in SessionWallets \union {NoKeys}
  /\ pending \in [SessionWallets -> Nat]
  /\ prompts \in Seq(Prompts)
  /\ callers \subseteq DOMAIN prompts

\* What the map remembers is an attempt of its wallet, of this life, that was not refused.
RememberedIsCurrent ==
  \A w \in SessionWallets : pending[w] # 0 =>
    /\ pending[w] \in DOMAIN prompts
    /\ prompts[pending[w]].owner = w
    /\ prompts[pending[w]].fresh
    /\ prompts[pending[w]].answer \in {"open", "signed"}

\* A prompt that a derive could join is the one in the map.
OpenIsRemembered ==
  \A p \in DOMAIN prompts :
    prompts[p].fresh /\ prompts[p].answer = "open" =>
      pending[prompts[p].owner] = p \/ RefusedLate(prompts[p].owner)

\* Who waits, waits for a prompt of the selected wallet, of this life.
CallersWaitForTheSelected ==
  \A p \in callers :
    /\ prompts[p].owner = selected
    /\ prompts[p].answer = "open"
    /\ prompts[p].fresh \/ RefusedLate(selected)

\* The keys that are shown are those of the map ...
ShownIsRemembered ==
  keys # NoKeys =>
    /\ keys = selected
    /\ \/ pending[keys] # 0 /\ prompts[pending[keys]].answer = "signed"
       \/ RefusedLate(keys)

\* ... and while none are shown somebody waits for what the map holds.
RememberedIsAwaited ==
  keys = NoKeys /\ selected # NoKeys /\ pending[selected] # 0 => pending[selected] \in callers

SessionInv ==
  /\ SessionTypes
  /\ RememberedIsCurrent
  /\ OpenIsRemembered
  /\ CallersWaitForTheSelected
  /\ ShownIsRemembered
  /\ RememberedIsAwaited

-----------------------------------------------------------------------------
\* The start: nothing is selected, remembered or awaited.
LEMMA InitSessionInv == SessionInit => SessionInv
<1> SUFFICES ASSUME SessionInit PROVE SessionInv
  OBVIOUS
<1> USE KeySessionAssumption DEF SessionInit
<1>1. SessionTypes
  BY DEF SessionTypes, Prompts
<1>2. RememberedIsCurrent /\ OpenIsRemembered
  BY DEF RememberedIsCurrent, OpenIsRemembered
<1>3. CallersWaitForTheSelected /\ ShownIsRemembered /\ RememberedIsAwaited
  BY DEF CallersWaitForTheSelected, ShownIsRemembered, RememberedIsAwaited
<1> QED
  BY <1>1, <1>2, <1>3 DEF SessionInv

\* Every prompt is one of a wallet.
LEMMA PromptType ==
  ASSUME SessionTypes, NEW q \in DOMAIN prompts
  PROVE  prompts[q] \in Prompts /\ prompts[q].owner \in SessionWallets
<1>1. prompts[q] \in Prompts
  BY DEF SessionTypes
<1> QED
  BY <1>1 DEF Prompts

\* Emptying the session keeps every prompt with its owner and whether it is open, none of them
\* fresh, and the late refusals where somebody still waits.
LEMMA ClearedPrompts ==
  ASSUME SessionTypes, Clear
  PROVE  /\ prompts' \in Seq(Prompts)
         /\ DOMAIN prompts' = DOMAIN prompts
         /\ \A p \in DOMAIN prompts : /\ prompts'[p].owner = prompts[p].owner
                                      /\ (prompts'[p].answer = "open"
                                            <=> prompts[p].answer = "open")
                                      /\ prompts'[p].fresh = FALSE
         /\ pending' \in [SessionWallets -> Nat]
         /\ \A w \in SessionWallets : pending'[w] = 0
         /\ callers' # {} => \A w : RefusedLate(w)' <=> RefusedLate(w)
<1>1. \A p \in DOMAIN prompts : prompts[p] \in Prompts
  BY DEF SessionTypes
<1>2. DOMAIN prompts = 1..Len(prompts) /\ Len(prompts) \in Nat
  BY DEF SessionTypes
<1>3. prompts' \in [1..Len(prompts) -> Prompts]
  BY <1>1, <1>2 DEF Clear, StillMatters, Prompts, Answers
<1>4. prompts' \in Seq(Prompts) /\ DOMAIN prompts' = DOMAIN prompts
  BY <1>2, <1>3
<1>5. \A p \in DOMAIN prompts : /\ prompts'[p].owner = prompts[p].owner
                                /\ prompts'[p].answer = "open" <=> prompts[p].answer = "open"
                                /\ callers' # {} => (prompts'[p].answer = "refused late"
                                                       <=> prompts[p].answer = "refused late")
                                /\ prompts'[p].fresh = FALSE
  BY <1>1 DEF Clear, StillMatters, Prompts
<1>6. callers' # {} => \A w : RefusedLate(w)' <=> RefusedLate(w)
  BY <1>4, <1>5 DEF RefusedLate
<1> QED
  BY <1>4, <1>5, <1>6 DEF Clear

\* A wallet is selected: nothing is shown, remembered or awaited.
LEMMA SelectKeeps ==
  ASSUME SessionInv, NEW w \in SessionWallets \union {NoKeys}, Select(w)
  PROVE  SessionInv'
<1>1. SessionTypes /\ Clear /\ Remounts /\ selected' = w
  BY DEF SessionInv, Select
<1> HIDE DEF Clear
<1>2. SessionTypes'
  BY <1>1, ClearedPrompts DEF SessionTypes, Remounts
<1>3. RememberedIsCurrent'
  BY <1>1, ClearedPrompts DEF RememberedIsCurrent
<1>4. OpenIsRemembered'
  BY <1>1, ClearedPrompts DEF OpenIsRemembered
<1>5. CallersWaitForTheSelected' /\ ShownIsRemembered'
  BY <1>1 DEF Remounts, CallersWaitForTheSelected, ShownIsRemembered
<1>6. RememberedIsAwaited'
  BY <1>1, ClearedPrompts DEF SessionTypes, RememberedIsAwaited
<1> QED
  BY <1>2, <1>3, <1>4, <1>5, <1>6 DEF SessionInv

\* The keys are forgotten.  Who still waits then waits for a prompt that the session had shared no
\* longer, which only a late refusal brings about.
LEMMA ForgetKeeps ==
  ASSUME SessionInv, Forget
  PROVE  SessionInv'
<1>1. SessionTypes /\ Clear /\ keys' = NoKeys /\ selected' = selected /\ callers' = callers
  BY DEF SessionInv, Forget
<1>2. keys # NoKeys /\ keys = selected /\ selected \in SessionWallets
  BY DEF SessionInv, SessionTypes, Forget, ShownIsRemembered
<1> HIDE DEF Clear
<1>3. SessionTypes'
  BY <1>1, ClearedPrompts DEF SessionTypes
<1>4. RememberedIsCurrent'
  BY <1>1, ClearedPrompts DEF RememberedIsCurrent
<1>5. OpenIsRemembered'
  BY <1>1, ClearedPrompts DEF OpenIsRemembered
<1>6. \A p \in callers : RefusedLate(selected)
  <2> SUFFICES ASSUME NEW p \in callers, ~RefusedLate(selected) PROVE FALSE
    OBVIOUS
  <2>1. p \in DOMAIN prompts /\ prompts[p].owner = selected
        /\ prompts[p].answer = "open" /\ prompts[p].fresh
    BY <1>1 DEF SessionInv, SessionTypes, CallersWaitForTheSelected
  <2>2. pending[selected] = p
    BY <2>1 DEF SessionInv, OpenIsRemembered
  <2>3. prompts[pending[selected]].answer = "signed"
    BY <1>2 DEF SessionInv, ShownIsRemembered
  <2> QED
    BY <2>1, <2>2, <2>3
<1>7. CallersWaitForTheSelected'
  <2> SUFFICES ASSUME NEW p \in callers
               PROVE  /\ prompts'[p].owner = selected
                      /\ prompts'[p].answer = "open"
                      /\ RefusedLate(selected)'
    BY <1>1 DEF CallersWaitForTheSelected
  <2>1. p \in DOMAIN prompts /\ prompts[p].owner = selected /\ prompts[p].answer = "open"
    BY <1>1 DEF SessionInv, SessionTypes, CallersWaitForTheSelected
  <2> QED
    BY <1>1, <1>6, <2>1, ClearedPrompts
<1>8. ShownIsRemembered'
  BY <1>1 DEF ShownIsRemembered
<1>9. RememberedIsAwaited'
  BY <1>1, <1>2, ClearedPrompts DEF RememberedIsAwaited
<1> QED
  BY <1>3, <1>4, <1>5, <1>7, <1>8, <1>9 DEF SessionInv

-----------------------------------------------------------------------------
\* An answer changes one open prompt and nothing else of it than its answer.
LEMMA AnsweredPrompt ==
  ASSUME SessionTypes, NEW p \in DOMAIN prompts, NEW a \in Answers, Answered(p, a)
  PROVE  /\ prompts' \in Seq(Prompts)
         /\ DOMAIN prompts' = DOMAIN prompts
         /\ prompts[p].answer = "open" /\ prompts[p] \in Prompts
         /\ prompts'[p].answer = a
         /\ prompts'[p].owner = prompts[p].owner /\ prompts'[p].fresh = prompts[p].fresh
         /\ \A q \in DOMAIN prompts : q # p => prompts'[q] = prompts[q]
         /\ callers' = callers \ {p} /\ selected' = selected
         /\ \A w : RefusedLate(w) => RefusedLate(w)'
<1>1. prompts \in Seq(Prompts) /\ prompts[p] \in Prompts
  BY DEF SessionTypes
<1>2. prompts[p].answer = "open" /\ callers' = callers \ {p} /\ selected' = selected
      /\ prompts' = [prompts EXCEPT ![p].answer = a]
  BY DEF Answered, IsOpen
<1>3. [prompts[p] EXCEPT !.answer = a] \in Prompts
  BY <1>1 DEF Prompts
<1>4. prompts' \in Seq(Prompts) /\ DOMAIN prompts' = DOMAIN prompts
  BY <1>1, <1>2, <1>3
<1>5. /\ prompts'[p].answer = a
      /\ prompts'[p].owner = prompts[p].owner /\ prompts'[p].fresh = prompts[p].fresh
      /\ \A q \in DOMAIN prompts : q # p => prompts'[q] = prompts[q]
  BY <1>1, <1>2 DEF Prompts
<1>6. \A w : RefusedLate(w) => RefusedLate(w)'
  BY <1>2, <1>4, <1>5 DEF RefusedLate
<1> QED
  BY <1>1, <1>2, <1>4, <1>5, <1>6

\* An attempt is signed.  It shows keys where somebody waits for it, and then it is the one in the
\* map, but for a late refusal.
LEMMA ApproveKeeps ==
  ASSUME SessionInv, NEW p \in DOMAIN prompts, Approve(p)
  PROVE  SessionInv'
<1> SUFFICES ASSUME NEW a, a = IF prompts[p].fresh THEN "signed" ELSE "over"
             PROVE  SessionInv'
  OBVIOUS
<1>1. SessionTypes /\ Answered(p, a) /\ a \in Answers /\ pending' = pending
      /\ keys' = IF p \in callers THEN prompts[p].owner ELSE keys
  BY DEF SessionInv, Approve, Answers
<1> HIDE DEF Answers
<1>a. /\ prompts' \in Seq(Prompts)
      /\ DOMAIN prompts' = DOMAIN prompts
      /\ prompts[p].answer = "open" /\ prompts[p] \in Prompts
      /\ prompts'[p].answer = a
      /\ prompts'[p].owner = prompts[p].owner /\ prompts'[p].fresh = prompts[p].fresh
      /\ \A q \in DOMAIN prompts : q # p => prompts'[q] = prompts[q]
      /\ callers' = callers \ {p} /\ selected' = selected
      /\ \A w : RefusedLate(w) => RefusedLate(w)'
  BY <1>1, AnsweredPrompt
<1>2. SessionTypes'
  BY <1>1, <1>a DEF SessionTypes, Prompts
<1>3. RememberedIsCurrent'
  <2>1. prompts[p].fresh => a = "signed"
    OBVIOUS
  <2> QED
    BY <1>1, <1>a, <2>1 DEF SessionInv, RememberedIsCurrent
<1>4. OpenIsRemembered'
  BY <1>1, <1>a DEF SessionInv, OpenIsRemembered
<1>5. CallersWaitForTheSelected'
  BY <1>1, <1>a DEF SessionInv, SessionTypes, CallersWaitForTheSelected
<1>6. ShownIsRemembered'
  <2>1. CASE p \in callers
    <3>1. keys' = selected /\ prompts[p].owner = selected
          /\ (prompts[p].fresh \/ RefusedLate(selected))
      BY <1>1, <2>1 DEF SessionInv, CallersWaitForTheSelected
    <3>2. pending[selected] = p \/ RefusedLate(selected)
      BY <1>a, <3>1 DEF SessionInv, OpenIsRemembered
    <3>3. p # 0
      BY <1>1 DEF SessionTypes
    <3>4. selected \in SessionWallets
      BY <1>a, <3>1 DEF Prompts
    <3>5. pending[selected] = p => a = "signed"
      BY <3>3, <3>4 DEF SessionInv, RememberedIsCurrent
    <3> QED
      BY <1>1, <1>a, <3>1, <3>2, <3>3, <3>5 DEF ShownIsRemembered
  <2>2. CASE p \notin callers
    <3>1. keys # NoKeys => pending[keys] = 0 \/ pending[keys] \in DOMAIN prompts
      BY <1>1, KeySessionAssumption DEF SessionInv, SessionTypes, RememberedIsCurrent
    <3> QED
      BY <1>1, <1>a, <2>2, <3>1 DEF SessionInv, ShownIsRemembered
  <2> QED
    BY <2>1, <2>2
<1>7. RememberedIsAwaited'
  <2>1. CASE p \in callers
    BY <1>1, <1>a, <2>1, KeySessionAssumption DEF RememberedIsAwaited, Prompts
  <2>2. CASE p \notin callers
    BY <1>1, <1>a, <2>2 DEF SessionInv, RememberedIsAwaited
  <2> QED
    BY <2>1, <2>2
<1> QED
  BY <1>2, <1>3, <1>4, <1>5, <1>6, <1>7 DEF SessionInv

\* An attempt is refused.  Where the map holds another one, the refusal comes late.
LEMMA RefuseKeeps ==
  ASSUME SessionInv, NEW p \in DOMAIN prompts, Refuse(p)
  PROVE  SessionInv'
<1> SUFFICES ASSUME NEW w, w = prompts[p].owner,
                    NEW a, a = IF prompts[p].fresh THEN "refused" ELSE "refused late"
             PROVE  SessionInv'
  OBVIOUS
<1>1. SessionTypes /\ Answered(p, a) /\ a \in Answers /\ keys' = keys
      /\ pending' = [pending EXCEPT ![w] = 0]
  BY DEF SessionInv, Refuse, Unremember, Answers
<1>a. /\ prompts' \in Seq(Prompts)
      /\ DOMAIN prompts' = DOMAIN prompts
      /\ prompts[p].answer = "open" /\ prompts[p] \in Prompts
      /\ prompts'[p].answer = a
      /\ prompts'[p].owner = w /\ prompts'[p].fresh = prompts[p].fresh
      /\ \A q \in DOMAIN prompts : q # p => prompts'[q] = prompts[q]
      /\ callers' = callers \ {p} /\ selected' = selected
      /\ \A v : RefusedLate(v) => RefusedLate(v)'
  BY <1>1, AnsweredPrompt
<1>b. w \in SessionWallets /\ w # NoKeys
  BY <1>a, KeySessionAssumption DEF Prompts
<1>c. pending' \in [SessionWallets -> Nat] /\ pending'[w] = 0
      /\ \A v \in SessionWallets : v # w => pending'[v] = pending[v]
  BY <1>1, <1>b DEF SessionTypes
<1>d. prompts[p].fresh \/ RefusedLate(w)'
  BY <1>a DEF RefusedLate
<1>e. \A q \in DOMAIN prompts : prompts[q].owner \in SessionWallets
  BY <1>1, PromptType
<1>2. SessionTypes'
  BY <1>1, <1>a, <1>c DEF SessionTypes
<1>3. RememberedIsCurrent'
  <2> SUFFICES ASSUME NEW v \in SessionWallets, pending'[v] # 0
               PROVE  /\ pending'[v] \in DOMAIN prompts'
                      /\ prompts'[pending'[v]].owner = v
                      /\ prompts'[pending'[v]].fresh
                      /\ prompts'[pending'[v]].answer \in {"open", "signed"}
    BY DEF RememberedIsCurrent
  <2>1. v # w /\ pending'[v] = pending[v]
    BY <1>c
  <2>2. /\ pending[v] \in DOMAIN prompts /\ prompts[pending[v]].owner = v
        /\ prompts[pending[v]].fresh /\ prompts[pending[v]].answer \in {"open", "signed"}
    BY <2>1 DEF SessionInv, RememberedIsCurrent
  <2>3. pending[v] # p
    BY <2>1, <2>2
  <2> QED
    BY <1>a, <2>1, <2>2, <2>3
<1>4. OpenIsRemembered'
  <2> SUFFICES ASSUME NEW q \in DOMAIN prompts', prompts'[q].fresh, prompts'[q].answer = "open",
                      NEW v, v = prompts'[q].owner
               PROVE  pending'[v] = q \/ RefusedLate(v)'
    BY DEF OpenIsRemembered
  <2>1. q \in DOMAIN prompts /\ q # p /\ prompts'[q] = prompts[q]
    BY <1>a
  <2>2. pending[v] = q \/ RefusedLate(v)
    BY <2>1 DEF SessionInv, OpenIsRemembered
  <2>3. CASE v # w
    <3>1. v \in SessionWallets
      BY <1>e, <2>1
    <3> QED
      BY <1>a, <1>c, <2>2, <2>3, <3>1
  <2>4. CASE v = w
    <3>1. pending[w] = p \/ RefusedLate(w) \/ RefusedLate(w)'
      BY <1>a, <1>d DEF SessionInv, OpenIsRemembered
    <3> QED
      BY <1>a, <2>1, <2>2, <2>4, <3>1
  <2> QED
    BY <2>3, <2>4
<1>5. CallersWaitForTheSelected'
  BY <1>1, <1>a DEF SessionInv, SessionTypes, CallersWaitForTheSelected
<1>6. ShownIsRemembered'
  <2> SUFFICES ASSUME keys # NoKeys, NEW v, v = keys
               PROVE  /\ v = selected
                      /\ \/ pending'[v] # 0 /\ prompts'[pending'[v]].answer = "signed"
                         \/ RefusedLate(v)'
    BY <1>1, <1>a DEF ShownIsRemembered
  <2>1. /\ v = selected /\ v \in SessionWallets
        /\ \/ pending[v] # 0 /\ prompts[pending[v]].answer = "signed"
           \/ RefusedLate(v)
    BY DEF SessionInv, SessionTypes, ShownIsRemembered
  <2>2. CASE v # w
    <3>1. pending[v] # 0 => pending[v] \in DOMAIN prompts /\ prompts[pending[v]].owner = v
      BY <2>1 DEF SessionInv, RememberedIsCurrent
    <3>2. pending[v] # 0 => pending[v] # p
      BY <2>2, <3>1
    <3> QED
      BY <1>a, <1>c, <2>1, <2>2, <3>1, <3>2
  <2>3. CASE v = w
    <3>1. pending[w] = p \/ RefusedLate(w) \/ RefusedLate(w)'
      BY <1>a, <1>d DEF SessionInv, OpenIsRemembered
    <3> QED
      BY <1>a, <2>1, <2>3, <3>1
  <2> QED
    BY <2>2, <2>3
<1>7. RememberedIsAwaited'
  <2> SUFFICES ASSUME keys = NoKeys, selected # NoKeys, pending'[selected] # 0
               PROVE  pending'[selected] \in callers'
    BY <1>1, <1>a DEF RememberedIsAwaited
  <2>1. selected \in SessionWallets /\ selected # w /\ pending'[selected] = pending[selected]
    BY <1>1, <1>c DEF SessionTypes
  <2>2. pending[selected] \in callers /\ prompts[pending[selected]].owner = selected
    BY <2>1 DEF SessionInv, RememberedIsAwaited, CallersWaitForTheSelected
  <2> QED
    BY <1>a, <2>1, <2>2
<1> QED
  BY <1>2, <1>3, <1>4, <1>5, <1>6, <1>7 DEF SessionInv

-----------------------------------------------------------------------------
\* A screen asks for the keys: it joins what the map holds or adds a prompt to it.
LEMMA DeriveKeeps ==
  ASSUME SessionInv, Derive
  PROVE  SessionInv'
<1>1. SessionTypes /\ selected \in SessionWallets /\ keys = NoKeys
      /\ selected' = selected /\ keys' = keys
  BY DEF SessionInv, SessionTypes, Derive
<1>2. CASE pending[selected] # 0
  <2>1. callers' = callers \union {pending[selected]} /\ pending' = pending /\ prompts' = prompts
    BY <1>2 DEF Derive
  <2>2. pending[selected] \in callers
    BY <1>1, <1>2 DEF SessionInv, RememberedIsAwaited, Derive
  <2>3. callers' = callers
    BY <2>1, <2>2
  <2> QED
    BY <1>1, <2>1, <2>3
    DEF SessionInv, SessionTypes, RememberedIsCurrent, OpenIsRemembered, RefusedLate,
        CallersWaitForTheSelected, ShownIsRemembered, RememberedIsAwaited
<1>3. CASE pending[selected] = 0
  <2> SUFFICES ASSUME NEW n, n = Len(prompts) + 1, NEW w, w = selected
               PROVE  SessionInv'
    OBVIOUS
  <2>1. /\ prompts' = Append(prompts, Prompt(w, "open")) /\ callers' = callers \union {n}
        /\ pending' = [pending EXCEPT ![w] = n]
    BY <1>3 DEF Derive, Remember
  <2>2. /\ Prompt(w, "open") \in Prompts /\ Prompt(w, "open").owner = w
        /\ Prompt(w, "open").answer = "open" /\ Prompt(w, "open").fresh
    BY <1>1 DEF Prompt, Prompts, Answers
  <2>3. prompts \in Seq(Prompts) /\ n \in Nat /\ n # 0 /\ DOMAIN prompts = 1..(n - 1)
    BY <1>1 DEF SessionTypes
  <2>4. /\ prompts' \in Seq(Prompts) /\ DOMAIN prompts' = 1..n
        /\ prompts'[n] = Prompt(w, "open")
        /\ \A q \in DOMAIN prompts : q # n /\ q \in DOMAIN prompts' /\ prompts'[q] = prompts[q]
    BY <2>1, <2>2, <2>3
  <2>5. DOMAIN prompts' = DOMAIN prompts \union {n}
    BY <2>3, <2>4
  <2>6. pending' \in [SessionWallets -> Nat] /\ pending'[w] = n
        /\ \A v \in SessionWallets : v # w => pending'[v] = pending[v]
    BY <1>1, <2>1, <2>3 DEF SessionTypes
  <2>7. \A v : RefusedLate(v) => RefusedLate(v)'
    BY <2>4 DEF RefusedLate
  <2>8. \A q \in DOMAIN prompts : prompts[q].owner \in SessionWallets
    BY <1>1, PromptType
  <2> HIDE DEF Prompts
  <2>9. SessionTypes'
    BY <1>1, <2>1, <2>4, <2>5, <2>6 DEF SessionTypes
  <2>10. RememberedIsCurrent'
    BY <2>2, <2>4, <2>5, <2>6 DEF SessionInv, RememberedIsCurrent
  <2>11. OpenIsRemembered'
    <3> SUFFICES ASSUME NEW q \in DOMAIN prompts', prompts'[q].fresh, prompts'[q].answer = "open",
                        NEW v, v = prompts'[q].owner
                 PROVE  pending'[v] = q \/ RefusedLate(v)'
      BY DEF OpenIsRemembered
    <3>1. CASE q = n
      BY <2>2, <2>4, <2>6, <3>1
    <3>2. CASE q # n
      <4>1. q \in DOMAIN prompts /\ prompts'[q] = prompts[q] /\ v \in SessionWallets
        BY <2>4, <2>5, <2>8, <3>2
      <4>2. pending[v] = q \/ RefusedLate(v)
        BY <4>1 DEF SessionInv, OpenIsRemembered
      <4>3. v = w => RefusedLate(v)
        BY <1>3, <2>3, <4>1, <4>2
      <4> QED
        BY <2>6, <2>7, <4>1, <4>2, <4>3
    <3> QED
      BY <3>1, <3>2
  <2>12. CallersWaitForTheSelected'
    <3> SUFFICES ASSUME NEW q \in callers'
                 PROVE  /\ prompts'[q].owner = w /\ prompts'[q].answer = "open"
                        /\ prompts'[q].fresh \/ RefusedLate(w)'
      BY <1>1 DEF CallersWaitForTheSelected
    <3>1. CASE q = n
      BY <2>2, <2>4, <3>1
    <3>2. CASE q # n
      <4>1. q \in callers /\ q \in DOMAIN prompts /\ prompts'[q] = prompts[q]
        BY <1>1, <2>1, <2>4, <3>2 DEF SessionTypes
      <4>2. /\ prompts[q].owner = w /\ prompts[q].answer = "open"
            /\ prompts[q].fresh \/ RefusedLate(w)
        BY <4>1 DEF SessionInv, CallersWaitForTheSelected
      <4> QED
        BY <2>7, <4>1, <4>2
    <3> QED
      BY <3>1, <3>2
  <2>13. ShownIsRemembered' /\ RememberedIsAwaited'
    BY <1>1, <2>1, <2>6 DEF ShownIsRemembered, RememberedIsAwaited
  <2> QED
    BY <2>9, <2>10, <2>11, <2>12, <2>13 DEF SessionInv
<1> QED
  BY <1>2, <1>3

\* Whatever the user does next, in whatever order.
LEMMA StepSessionInv == SessionInv /\ [SessionNext]_sessionVars => SessionInv'
<1> SUFFICES ASSUME SessionInv, [SessionNext]_sessionVars PROVE SessionInv'
  OBVIOUS
<1>1. CASE \E w \in SessionWallets \union {NoKeys} : Select(w)
  BY <1>1, SelectKeeps
<1>2. CASE Derive
  BY <1>2, DeriveKeeps
<1>3. CASE \E p \in DOMAIN prompts : Approve(p) \/ Refuse(p)
  BY <1>3, ApproveKeeps, RefuseKeeps
<1>4. CASE Forget
  BY <1>4, ForgetKeeps
<1>5. CASE UNCHANGED sessionVars
  BY <1>5 DEF sessionVars, SessionInv, SessionTypes, RememberedIsCurrent, OpenIsRemembered,
              RefusedLate, CallersWaitForTheSelected, ShownIsRemembered, RememberedIsAwaited
<1> QED
  BY <1>1, <1>2, <1>3, <1>4, <1>5 DEF SessionNext

LEMMA SessionInvIsInvariant == SessionSpec => []SessionInv
BY InitSessionInv, StepSessionInv, PTL DEF SessionSpec

-----------------------------------------------------------------------------
\* The invariant says of the keys that are shown what is promised.
LEMMA ShownFollows == SessionInv => ShownKeysAreCurrent
<1> SUFFICES ASSUME SessionInv, keys # NoKeys, ~RefusedLate(keys)
             PROVE  keys = selected /\ SignedFor(keys)
  BY DEF ShownKeysAreCurrent, SessionInv, ShownIsRemembered
<1> DEFINE p == pending[keys]
<1>1. keys = selected /\ keys \in SessionWallets /\ p # 0 /\ prompts[p].answer = "signed"
  BY DEF SessionInv, SessionTypes, ShownIsRemembered
<1>2. p \in DOMAIN prompts /\ prompts[p].owner = keys /\ prompts[p].fresh
  BY <1>1 DEF SessionInv, RememberedIsCurrent
<1>3. prompts[p] \in Prompts
  BY <1>2, PromptType DEF SessionInv
<1>4. prompts[p] = Prompt(keys, "signed")
  BY <1>1, <1>2, <1>3 DEF Prompts, Prompt
<1> QED
  BY <1>1, <1>2, <1>4 DEF SignedFor

\* Two prompts that the session would share are both the one in the map.
LEMMA OnePromptFollows == SessionInv => OnePromptAtATime
<1> SUFFICES ASSUME SessionInv,
                    NEW p \in DOMAIN prompts, NEW q \in DOMAIN prompts,
                    prompts[p] = Prompt(prompts[p].owner, "open"), prompts[q] = prompts[p]
             PROVE  p = q \/ RefusedLate(prompts[p].owner)
  BY DEF OnePromptAtATime
<1>1. prompts[p].fresh /\ prompts[p].answer = "open" /\ prompts[q].fresh /\ prompts[q].answer = "open"
  BY DEF Prompt
<1> QED
  BY <1>1 DEF SessionInv, OpenIsRemembered

\* KeysProvider.tsx:34: whatever wallets a user selects and however late a prompt is answered, the
\* keys on the screen are the selected wallet's and were signed for since they were forgotten last,
\* but for a life of the session in which a prompt of an earlier one is refused.
THEOREM ShownKeysCorrect == SessionSpec => []ShownKeysAreCurrent
BY SessionInvIsInvariant, ShownFollows, PTL

\* session.ts:15: one prompt per wallet and life of the session, with the same exception.
THEOREM OnePromptCorrect == SessionSpec => []OnePromptAtATime
BY SessionInvIsInvariant, OnePromptFollows, PTL

-----------------------------------------------------------------------------
(* The payments.                                                           *)

InstructionLists ==
  {BuildContribution(p, units)[i] : p \in 1..MaxPayments, units \in Amounts, i \in 1..4}
  \union {OtherUse(p, units, "again") : p \in 1..MaxPayments, units \in Amounts}

LedgerTypes ==
  /\ ledger \in [1..MaxPayments -> Seq([ok : BOOLEAN, instructions : InstructionLists])]
  /\ used \in [1..MaxPayments -> Amounts \union {Nothing}]
  /\ DOMAIN asked = 1..MaxPayments

\* The first four transactions of an account are those of its payment, the fifth another use;
\* nothing follows one that failed.
HistoryOf(p) ==
  /\ ledger[p] # <<>> => asked[p] \in Amounts
  /\ Len(ledger[p]) <= 5
  /\ \A i \in 1..4 : i <= Len(ledger[p]) =>
       ledger[p][i].instructions = BuildContribution(p, asked[p])[i]
  /\ \A i \in 1..4 : i < Len(ledger[p]) => ledger[p][i].ok
  /\ 5 <= Len(ledger[p]) =>
       \E units \in Amounts : ledger[p][5].instructions = OtherUse(p, units, "again")

\* A row of the index is the ciphertext that was proven first over the account of the payment, with
\* the place of its proof.
FirstUse(p) == IF used[p] = Nothing THEN "paid" ELSE "before"
FirstContext(p) == ValidityContext(FirstProven(p), Keys, <<p, FirstUse(p)>>)
Row(p) ==
  [lo |-> FirstContext(p).lo, hi |-> FirstContext(p).hi,
   proofSig |-> <<p, IF used[p] = Nothing THEN 2 ELSE 0>>]
RowsAreOfPayments ==
  \A t \in DOMAIN rows :
    \E p \in 1..MaxPayments :
      /\ t = <<p, 3>> /\ 3 <= Len(ledger[p]) /\ ledger[p][2].ok /\ ledger[p][3].ok
      /\ rows[t] = Row(p)

LedgerInv ==
  /\ LedgerTypes
  /\ \A p \in 1..MaxPayments : HistoryOf(p)
  /\ RowsAreOfPayments

-----------------------------------------------------------------------------
(* The amounts.                                                            *)

\* The two parts of an amount are within the search and put together again give the amount.
LEMMA PartsOfAnAmount ==
  ASSUME NEW units \in Amounts
  PROVE  /\ units \in Nat
         /\ units % LoRange \in Nat /\ units % LoRange < LoRange
         /\ units \div LoRange \in Nat
         /\ (units % LoRange) + (units \div LoRange) * LoRange = units
         /\ units % LoRange < Search /\ units \div LoRange < Search
<1>1. LoRange \in Nat \ {0} /\ Search \in Nat /\ LoRange <= Search
  BY CiphertextsAssumption
<1>2. units \in Nat /\ units < LoRange * Search
  <2>1. units \in 1..(LoRange * Search - 1)
    BY PaymentsAssumption
  <2>2. LoRange * Search \in Nat
    BY <1>1
  <2> QED
    BY <2>1, <2>2
<1>3. /\ units % LoRange \in Nat /\ units % LoRange < LoRange
      /\ units \div LoRange \in Nat
  BY <1>1, <1>2, SMTT(30)
<1>4. (units % LoRange) + (units \div LoRange) * LoRange = units
  BY <1>1, <1>2, SMTT(30)
<1>5. units \div LoRange < Search
  <2> DEFINE q == units \div LoRange
  <2>1. q \in Nat /\ q * LoRange <= units
    BY <1>1, <1>2, <1>3, <1>4, SMTT(30)
  <2> HIDE DEF q
  <2>2. SUFFICES ASSUME q >= Search PROVE FALSE
    BY <1>1, <2>1 DEF q
  <2>3. q * LoRange >= Search * LoRange
    BY <1>1, <2>1, <2>2, SMTT(30)
  <2> QED
    BY <1>1, <1>2, <2>1, <2>3, SMTT(30)
<1> QED
  BY <1>1, <1>2, <1>3, <1>4, <1>5

\* What a key reads of a proof context: the units under the key that the handle is for, and
\* nothing under another one.
LEMMA DecryptContext ==
  ASSUME NEW units \in Amounts, NEW keys3, NEW opening, NEW context, NEW handle, NEW key,
         context.lo = Grouped(units % LoRange, keys3, opening),
         context.hi = Grouped(units \div LoRange, keys3, opening)
  PROVE  DecryptContribution(key, context, handle) =
           IF key = keys3[handle] THEN Ok(units) ELSE Fail("wrong-key")
<1> DEFINE lo == units % LoRange
           hi == units \div LoRange
<1>1. /\ units \in Nat /\ lo \in Nat /\ hi \in Nat /\ lo + hi * LoRange = units
      /\ lo < Search /\ hi < Search
  BY PartsOfAnAmount
<1>2. context.lo.value = lo /\ context.hi.value = hi
      /\ context.lo.keys = keys3 /\ context.hi.keys = keys3
  BY DEF Grouped
<1> HIDE DEF lo, hi
<1>3. CombineCiphertext(context, handle) = [value |-> units, key |-> keys3[handle]]
  BY <1>1, <1>2 DEF CombineCiphertext, Ciphertext
<1>4. /\ UnderHandle(context.lo, handle) = [value |-> lo, key |-> keys3[handle]]
      /\ UnderHandle(context.hi, handle) = [value |-> hi, key |-> keys3[handle]]
  BY <1>2 DEF UnderHandle, Ciphertext
<1>5. CASE key = keys3[handle]
  <2>1. Parts(key, UnderHandle(context.lo, handle), UnderHandle(context.hi, handle)) = Ok(units)
    <3>1. /\ Logarithm(key, UnderHandle(context.lo, handle)) = lo
          /\ Logarithm(key, UnderHandle(context.hi, handle)) = hi
      BY <1>1, <1>4, <1>5 DEF Logarithm
    <3> QED
      BY <1>1, <3>1 DEF Parts, NotFound
  <2>2. Logarithm(key, CombineCiphertext(context, handle)) \in {units, NotFound}
    BY <1>3 DEF Logarithm
  <2> QED
    BY <1>5, <2>1, <2>2 DEF DecryptContribution
<1>6. CASE key # keys3[handle]
  <2>1. /\ Logarithm(key, CombineCiphertext(context, handle)) = NotFound
        /\ Logarithm(key, UnderHandle(context.lo, handle)) = NotFound
    BY <1>3, <1>4, <1>6 DEF Logarithm
  <2> QED
    BY <1>6, <2>1 DEF DecryptContribution, Parts
<1> QED
  BY <1>5, <1>6

-----------------------------------------------------------------------------
(* The session: payments read its keys and change nothing of it.           *)

\* A step of a payment is a step of the session or leaves it alone.
LEMMA PaymentsRunTheSession == Spec => SessionSpec
<1>1. Init => SessionInit
  BY DEF Init
<1>2. [Next]_vars => [SessionNext]_sessionVars
  BY DEF Next, vars, Contribute, ContributeOn, Pay, UseBefore, Recreate, ApplyPending, IndexTransfer
<1> QED
  BY <1>1, <1>2, PTL DEF Spec, SessionSpec

\* KeysProvider.tsx:34-35 with payments going on: the keys of the dashboard and of a payment are
\* those of the selected wallet, signed for since the session was emptied.
THEOREM PaymentKeysCorrect == Spec => []ShownKeysAreCurrent
  BY PaymentsRunTheSession, ShownKeysCorrect, PTL

\* session.ts:15 with payments going on: no wallet is asked twice in a life of the session.
THEOREM PaymentPromptsCorrect == Spec => []OnePromptAtATime
  BY PaymentsRunTheSession, OnePromptCorrect, PTL

-----------------------------------------------------------------------------
(* The invariant.                                                          *)

LEMMA InitLedgerInv == Init => LedgerInv
<1> SUFFICES ASSUME Init PROVE LedgerInv
  OBVIOUS
<1>1. LedgerTypes
  BY DEF Init, LedgerTypes
<1>2. \A p \in 1..MaxPayments : HistoryOf(p)
  BY DEF Init, HistoryOf
<1>3. RowsAreOfPayments
  BY DEF Init, RowsAreOfPayments
<1> QED
  BY <1>1, <1>2, <1>3 DEF LedgerInv

\* What a step that lands a transaction does to the ledger: the account's history grows by one.
LEMMA LandsGrows ==
  ASSUME LedgerTypes, NEW p \in 1..MaxPayments, NEW ok \in BOOLEAN,
         NEW instructions \in InstructionLists, Lands(p, instructions, ok)
  PROVE  /\ ledger' \in [1..MaxPayments -> Seq([ok : BOOLEAN, instructions : InstructionLists])]
         /\ \A q \in 1..MaxPayments : q # p => ledger'[q] = ledger[q]
         /\ Len(ledger[p]) \in Nat /\ Len(ledger'[p]) = Len(ledger[p]) + 1
         /\ \A i \in 1..Len(ledger[p]) : ledger'[p][i] = ledger[p][i]
         /\ ledger'[p][Len(ledger[p]) + 1].instructions = instructions
         /\ ledger'[p][Len(ledger[p]) + 1].ok = ok
<1> DEFINE tx == [ok |-> ok, instructions |-> instructions]
           Txs == [ok : BOOLEAN, instructions : InstructionLists]
<1>1. tx \in Txs
  OBVIOUS
<1>2. ledger \in [1..MaxPayments -> Seq(Txs)]
  BY DEF LedgerTypes
<1>3. ledger' = [ledger EXCEPT ![p] = Append(@, tx)]
  BY DEF Lands
<1>4. tx.instructions = instructions /\ tx.ok = ok
  OBVIOUS
<1> HIDE DEF tx, Txs
<1>5. ledger'[p] = Append(ledger[p], tx) /\ ledger[p] \in Seq(Txs)
  BY <1>2, <1>3
<1>6. /\ ledger'[p] \in Seq(Txs)
      /\ Len(ledger[p]) \in Nat /\ Len(ledger'[p]) = Len(ledger[p]) + 1
      /\ \A i \in 1..Len(ledger[p]) : ledger'[p][i] = ledger[p][i]
      /\ ledger'[p][Len(ledger[p]) + 1] = tx
  BY <1>1, <1>5
<1>7. ledger' \in [1..MaxPayments -> Seq(Txs)]
  BY <1>2, <1>3, <1>6
<1>8. \A q \in 1..MaxPayments : q # p => ledger'[q] = ledger[q]
  BY <1>2, <1>3
<1> QED
  BY <1>4, <1>6, <1>7, <1>8 DEF Txs

\* A transaction that lands keeps the invariant where it is the next one of its account.
LEMMA LandingKeeps ==
  ASSUME LedgerInv, NEW p \in 1..MaxPayments, NEW ok \in BOOLEAN,
         NEW instructions \in InstructionLists, Lands(p, instructions, ok),
         Len(ledger[p]) < 4 => instructions = BuildContribution(p, asked'[p])[Len(ledger[p]) + 1],
         Len(ledger[p]) >= 4 =>
           Len(ledger[p]) = 4 /\ \E units \in Amounts : instructions = OtherUse(p, units, "again"),
         DOMAIN asked' = 1..MaxPayments, asked'[p] \in Amounts,
         ledger[p] # <<>> => asked'[p] = asked[p] /\ ledger[p][Len(ledger[p])].ok,
         \A q \in 1..MaxPayments : q # p => asked'[q] = asked[q],
         rows' = rows, used' = used
  PROVE  LedgerInv'
<1> DEFINE n == Len(ledger[p])
<1>1. /\ ledger' \in [1..MaxPayments -> Seq([ok : BOOLEAN, instructions : InstructionLists])]
      /\ \A q \in 1..MaxPayments : q # p => ledger'[q] = ledger[q]
      /\ n \in Nat /\ Len(ledger'[p]) = n + 1
      /\ \A i \in 1..n : ledger'[p][i] = ledger[p][i]
      /\ ledger'[p][n + 1].instructions = instructions
      /\ ledger'[p][n + 1].ok = ok
  <2>1. LedgerTypes
    BY DEF LedgerInv
  <2> QED
    BY <2>1, LandsGrows
<1>2. HistoryOf(p) /\ RowsAreOfPayments /\ \A q \in 1..MaxPayments : HistoryOf(q)
  BY DEF LedgerInv
<1>3. n # 0 => asked'[p] = asked[p] /\ ledger[p][n].ok
  <2>1. n # 0 => ledger[p] # <<>>
    OBVIOUS
  <2> QED
    BY <2>1
<1>4. /\ n < 4 => instructions = BuildContribution(p, asked'[p])[n + 1]
      /\ n >= 4 => n = 4 /\ \E units \in Amounts : instructions = OtherUse(p, units, "again")
  OBVIOUS
<1> HIDE DEF n
<1>5. LedgerTypes'
  BY <1>1 DEF LedgerInv, LedgerTypes
<1>6. ASSUME NEW q \in 1..MaxPayments PROVE HistoryOf(q)'
  <2>1. CASE q # p
    <3>1. ledger'[q] = ledger[q] /\ asked'[q] = asked[q] /\ HistoryOf(q)
      BY <1>1, <1>2, <2>1
    <3> QED
      BY <3>1 DEF HistoryOf
  <2>2. CASE q = p
    <3>1. n <= 4 /\ Len(ledger'[p]) <= 5
      BY <1>1, <1>4
    <3>2. ASSUME NEW i \in 1..4, i <= Len(ledger'[p])
          PROVE  ledger'[p][i].instructions = BuildContribution(p, asked'[p])[i]
      <4>1. CASE i <= n
        <5>1. ledger'[p][i] = ledger[p][i] /\ asked'[p] = asked[p]
          BY <1>1, <1>3, <4>1
        <5>2. ledger[p][i].instructions = BuildContribution(p, asked[p])[i]
          BY <1>2, <4>1 DEF HistoryOf, n
        <5> QED
          BY <5>1, <5>2
      <4>2. CASE i = n + 1
        BY <1>1, <1>4, <4>2
      <4> QED
        BY <1>1, <3>2, <4>1, <4>2
    <3>3. ASSUME 5 <= Len(ledger'[p])
          PROVE  \E units \in Amounts : ledger'[p][5].instructions = OtherUse(p, units, "again")
      <4>1. n = 4
        BY <1>1, <3>1, <3>3
      <4> QED
        BY <1>1, <1>4, <4>1
    <3>4. ASSUME NEW i \in 1..4, i < Len(ledger'[p]) PROVE ledger'[p][i].ok
      <4>3. i \in 1..n
        BY <1>1, <3>4
      <4>1. ledger'[p][i] = ledger[p][i]
        BY <1>1, <4>3
      <4>2. i < n => ledger[p][i].ok
        BY <1>2 DEF HistoryOf, n
      <4> QED
        BY <1>1, <1>3, <4>1, <4>2, <4>3
    <3> QED
      BY <2>2, <3>1, <3>2, <3>3, <3>4 DEF HistoryOf
  <2> QED
    BY <2>1, <2>2
<1>7. RowsAreOfPayments'
  <2> SUFFICES ASSUME NEW t \in DOMAIN rows
               PROVE  \E q \in 1..MaxPayments :
                        /\ t = <<q, 3>> /\ 3 <= Len(ledger'[q])
                        /\ ledger'[q][2].ok /\ ledger'[q][3].ok /\ rows[t] = Row(q)'
    BY DEF RowsAreOfPayments
  <2>1. PICK q \in 1..MaxPayments : /\ t = <<q, 3>> /\ 3 <= Len(ledger[q])
                                    /\ ledger[q][2].ok /\ ledger[q][3].ok /\ rows[t] = Row(q)
    BY <1>2 DEF RowsAreOfPayments
  <2>2. CASE q # p
    <3>1. ledger'[q] = ledger[q] /\ asked'[q] = asked[q]
      BY <1>1, <2>2
    <3> QED
      BY <2>1, <3>1 DEF Row, FirstContext, FirstUse, FirstProven
  <2>3. CASE q = p
    <3>1. n >= 3
      BY <2>1, <2>3 DEF n
    <3>2. n \in Nat /\ Len(ledger'[p]) = n + 1 /\ \A i \in 1..n : ledger'[p][i] = ledger[p][i]
      BY <1>1
    <3>3. 2 \in 1..n /\ 3 \in 1..n /\ n # 0 /\ 3 <= Len(ledger'[p])
      BY <3>1, <3>2
    <3>4. ledger'[p][2] = ledger[p][2] /\ ledger'[p][3] = ledger[p][3]
      BY <3>2, <3>3
    <3>5. asked'[p] = asked[p]
      BY <1>3, <3>3
    <3> QED
      BY <2>1, <2>3, <3>3, <3>4, <3>5 DEF Row, FirstContext, FirstUse, FirstProven
  <2> QED
    BY <2>2, <2>3
<1> QED
  BY <1>5, <1>6, <1>7 DEF LedgerInv

-----------------------------------------------------------------------------
(* The place of a transaction in its account's history says what it        *)
(* carries.                                                                *)

LEMMA FirstOfTwo ==
  ASSUME NEW tx, NEW kind, Len(tx.instructions) \in {1, 2}
  PROVE  FirstOf(tx, kind) =
           IF tx.instructions[1].kind = kind THEN 1
           ELSE IF Len(tx.instructions) = 2 /\ tx.instructions[2].kind = kind THEN 2 ELSE 0
<1> DEFINE I == {i \in 1..Len(tx.instructions) : tx.instructions[i].kind = kind}
<1>1. FirstOf(tx, kind) = IF I # {} THEN Min(I) ELSE 0
  BY DEF FirstOf, SelectInSeq
<1>2. \A i : i \in I <=> \/ i = 1 /\ tx.instructions[1].kind = kind
                         \/ i = 2 /\ Len(tx.instructions) = 2 /\ tx.instructions[2].kind = kind
  OBVIOUS
<1> HIDE DEF I
<1>3. ASSUME NEW k \in I, \A j \in I : k <= j PROVE Min(I) = k
  <2>1. Min(I) \in I /\ \A j \in I : Min(I) <= j
    BY <1>3 DEF Min
  <2>2. k \in {1, 2} /\ Min(I) \in {1, 2}
    BY <1>2, <2>1
  <2> QED
    BY <1>3, <2>1, <2>2
<1> QED
  BY <1>1, <1>2, <1>3

LEMMA CarriedByAPayment ==
  ASSUME NEW p, NEW units, NEW i \in 1..4, NEW tx,
         tx.instructions = BuildContribution(p, units)[i]
  PROVE  /\ Carries(tx, "transfer") <=> i = 3
         /\ Carries(tx, "validity") <=> i = 2
         /\ i = 3 => tx.instructions[FirstOf(tx, "transfer")] =
                       Transfer(p, ValidityContext(units, Keys, <<p, "paid">>))
         /\ i = 2 => tx.instructions[FirstOf(tx, "validity")] =
                       VerifyValidity(p, ValidityContext(units, Keys, <<p, "paid">>))
<1> DEFINE context == ValidityContext(units, Keys, <<p, "paid">>)
           transfer == Transfer(p, context)
           verify == VerifyValidity(p, context)
<1>1. transfer.kind = "transfer" /\ verify.kind = "validity"
  BY DEF Transfer, VerifyValidity
<1>2. BuildContribution(p, units) =
        <<<<Plain("create"), Plain("equality")>>, <<verify>>, <<transfer, Plain("pledge")>>,
          <<Plain("close")>>>>
  BY DEF BuildContribution
<1> HIDE DEF context, transfer, verify
<1>3. \A kind \in {"transfer", "validity"} :
        FirstOf(tx, kind) = IF (i = 3 /\ kind = "transfer") \/ (i = 2 /\ kind = "validity")
                            THEN 1 ELSE 0
  <2> TAKE kind \in {"transfer", "validity"}
  <2>1. CASE i = 1
    BY <1>2, <2>1, FirstOfTwo DEF Plain
  <2>2. CASE i = 2
    BY <1>1, <1>2, <2>2, FirstOfTwo DEF Plain
  <2>3. CASE i = 3
    BY <1>1, <1>2, <2>3, FirstOfTwo DEF Plain
  <2>4. CASE i = 4
    BY <1>2, <2>4, FirstOfTwo DEF Plain
  <2> QED
    BY <2>1, <2>2, <2>3, <2>4
<1>4. i = 3 => tx.instructions[1] = transfer
  BY <1>2
<1>5. i = 2 => tx.instructions[1] = verify
  BY <1>2
<1> QED
  BY <1>3, <1>4, <1>5 DEF Carries, transfer, verify, context

LEMMA NotCarriedByAPayment ==
  ASSUME NEW p, NEW units, NEW i \in 1..4, NEW tx,
         tx.instructions = BuildContribution(p, units)[i]
  PROVE  /\ i # 3 => ~Carries(tx, "transfer")
         /\ i # 2 => ~Carries(tx, "validity")
<1>1. /\ Carries(tx, "transfer") <=> i = 3
      /\ Carries(tx, "validity") <=> i = 2
      /\ i = 3 => tx.instructions[FirstOf(tx, "transfer")] =
                    Transfer(p, ValidityContext(units, Keys, <<p, "paid">>))
  BY CarriedByAPayment
<1> QED
  BY <1>1

LEMMA CarriedByAnother ==
  ASSUME NEW p, NEW units, NEW use, NEW tx, tx.instructions = OtherUse(p, units, use)
  PROVE  /\ ~Carries(tx, "transfer") /\ Carries(tx, "validity")
         /\ tx.instructions[FirstOf(tx, "validity")] =
              VerifyValidity(p, ValidityContext(units, Keys, <<p, use>>))
<1> DEFINE verify == VerifyValidity(p, ValidityContext(units, Keys, <<p, use>>))
<1>1. verify.kind = "validity"
  BY DEF VerifyValidity
<1>2. tx.instructions = <<Plain("create"), verify>>
  BY DEF OtherUse
<1> HIDE DEF verify
<1>3. FirstOf(tx, "transfer") = 0 /\ FirstOf(tx, "validity") = 2
  BY <1>1, <1>2, FirstOfTwo DEF Plain
<1> QED
  BY <1>2, <1>3 DEF Carries, verify

-----------------------------------------------------------------------------
(* The worker finds the first proof of the account, which is the payment's *)
(* where the account was not used before.                                  *)

LEMMA TwiceReversed ==
  ASSUME NEW T, NEW h \in Seq(T)
  PROVE  Reverse(Reverse(h)) = h
<1> DEFINE n == Len(h)
           once == [i \in 1..n |-> h[(n - i) + 1]]
<1>1. n \in Nat /\ h = [i \in 1..n |-> h[i]]
  OBVIOUS
<1>2. Reverse(h) = once
  BY DEF Reverse
<1>3. Len(once) = n
  BY <1>1
<1>4. Reverse(once) = [i \in 1..n |-> once[(n - i) + 1]]
  BY <1>3 DEF Reverse
<1> HIDE DEF n
<1>5. \A i \in 1..n : once[(n - i) + 1] = h[i]
  <2> TAKE i \in 1..n
  <2>1. (n - i) + 1 \in 1..n /\ (n - ((n - i) + 1)) + 1 = i
    BY <1>1
  <2> QED
    BY <2>1
<1> HIDE DEF once
<1> QED
  BY <1>1, <1>2, <1>4, <1>5

\* The history of an account, oldest first: an earlier use, then the transactions of the payment.
LEMMA OldestFirstIsTheHistory ==
  ASSUME LedgerInv, NEW p \in 1..MaxPayments
  PROVE  LET history == OldestFirst(p)
         IN  IF used[p] = Nothing
             THEN /\ Len(history) = Len(ledger[p])
                  /\ \A i \in 1..Len(ledger[p]) : history[i] = <<p, i>>
             ELSE Len(history) \in Nat \ {0} /\ history[1] = <<p, 0>>
<1> DEFINE n == Len(ledger[p])
           T == {p} \X (0..n)
           earlier == IF used[p] = Nothing THEN <<>> ELSE <<<<p, 0>>>>
           later == [i \in DOMAIN ledger[p] |-> <<p, i>>]
<1>1. n \in Nat /\ DOMAIN ledger[p] = 1..n
  BY DEF LedgerInv, LedgerTypes
<1> HIDE DEF n
<1>2. later \in Seq(T) /\ Len(later) = n /\ \A i \in 1..n : later[i] = <<p, i>>
  BY <1>1
<1>3. earlier \in Seq(T)
  BY <1>1
<1>4. earlier \o later \in Seq(T)
  BY <1>2, <1>3
<1>5. OldestFirst(p) = earlier \o later
  <2>1. OldestFirst(p) = Reverse(Reverse(earlier \o later))
    BY DEF OldestFirst, SignaturesFor
  <2> HIDE DEF earlier, later, T
  <2> QED
    BY <1>4, <2>1, TwiceReversed
<1>6. CASE used[p] = Nothing
  <2>1. earlier = <<>>
    BY <1>6
  <2> HIDE DEF earlier, later, T
  <2>2. OldestFirst(p) = later
    BY <1>2, <1>5, <2>1
  <2> QED
    BY <1>2, <1>6, <2>2 DEF n
<1>7. CASE used[p] # Nothing
  <2>1. earlier = <<<<p, 0>>>>
    BY <1>7
  <2> HIDE DEF earlier, later, T
  <2>2. Len(OldestFirst(p)) = 1 + n /\ OldestFirst(p)[1] = <<p, 0>>
    BY <1>2, <1>3, <1>5, <2>1
  <2> QED
    BY <1>1, <1>7, <2>2
<1> QED
  BY <1>6, <1>7

\* What is found is the first that carries a proof.
LEMMA FirstProofIsTaken ==
  ASSUME NEW history, Len(history) \in Nat, NEW k \in 1..Len(history),
         Carries(Wire(history[k]), "validity"),
         \A i \in 1..(k - 1) : ~Carries(Wire(history[i]), "validity")
  PROVE  ProofAt(history) = k
<1> DEFINE I == {i \in 1..Len(history) : Carries(Wire(history[i]), "validity")}
<1>1. ProofAt(history) = IF I # {} THEN Min(I) ELSE 0
  BY DEF ProofAt, SelectInSeq
<1>2. k \in I /\ I \subseteq Nat \ {0} /\ k \in Nat
  OBVIOUS
<1>3. \A j \in I : k <= j
  <2> SUFFICES ASSUME NEW j \in I, j < k PROVE FALSE
    OBVIOUS
  <2>1. j \in 1..(k - 1)
    OBVIOUS
  <2> QED
    BY <2>1
<1> HIDE DEF I
<1>4. Min(I) \in I /\ \A j \in I : Min(I) <= j
  BY <1>2, <1>3 DEF Min
<1>5. Min(I) <= k /\ k <= Min(I) /\ Min(I) \in Nat
  BY <1>2, <1>3, <1>4
<1> QED
  BY <1>1, <1>2, <1>5

\* A use before is on the wire as the first transaction of the account.
LEMMA UsedOnTheWire ==
  ASSUME NEW p
  PROVE  Wire(<<p, 0>>).ok /\ Wire(<<p, 0>>).instructions = OtherUse(p, used[p], "before")
  BY DEF Wire

LEMMA FetchFindsTheFirst ==
  ASSUME LedgerInv, NEW p \in 1..MaxPayments, 3 <= Len(ledger[p])
  PROVE  FetchRecipientCiphertext(<<p, 3>>) = Row(p)
<1> DEFINE history == OldestFirst(p)
           place == IF used[p] = Nothing THEN 2 ELSE 1
           context == FirstContext(p)
<1>1. LedgerTypes /\ HistoryOf(p) /\ Len(ledger[p]) \in Nat
  <2>1. LedgerTypes /\ HistoryOf(p)
    BY DEF LedgerInv
  <2>2. ledger[p] \in Seq([ok : BOOLEAN, instructions : InstructionLists])
    BY <2>1 DEF LedgerTypes
  <2> QED
    BY <2>1, <2>2
<1>2. ValidityContextAddress(Wire(<<p, 3>>)) = p
  <2>1. Wire(<<p, 3>>) = ledger[p][3]
    BY DEF Wire
  <2>2. ledger[p][3].instructions = BuildContribution(p, asked[p])[3]
    BY <1>1 DEF HistoryOf
  <2>3. Wire(<<p, 3>>).instructions[FirstOf(Wire(<<p, 3>>), "transfer")] =
          Transfer(p, ValidityContext(asked[p], Keys, <<p, "paid">>))
    BY <2>1, <2>2, CarriedByAPayment
  <2> QED
    BY <2>3 DEF ValidityContextAddress, Transfer
<1>3. /\ ProofAt(history) = place
      /\ history[place] = <<p, IF used[p] = Nothing THEN 2 ELSE 0>>
      /\ Wire(history[place]).instructions[FirstOf(Wire(history[place]), "validity")] =
           VerifyValidity(p, context)
  <2>1. CASE used[p] = Nothing
    <3>1. /\ Len(history) = Len(ledger[p])
          /\ \A i \in 1..Len(ledger[p]) : history[i] = <<p, i>>
      BY <2>1, OldestFirstIsTheHistory
    <3> HIDE DEF history
    <3>2. history[1] = <<p, 1>> /\ history[2] = <<p, 2>>
      BY <1>1, <3>1
    <3>3. Wire(history[1]) = ledger[p][1] /\ Wire(history[2]) = ledger[p][2]
      BY <3>2 DEF Wire
    <3>4. ~Carries(Wire(history[1]), "validity")
      <4>1. ledger[p][1].instructions = BuildContribution(p, asked[p])[1]
        BY <1>1 DEF HistoryOf
      <4> QED
        BY <3>3, <4>1, NotCarriedByAPayment
    <3>5. /\ Carries(Wire(history[2]), "validity")
          /\ Wire(history[2]).instructions[FirstOf(Wire(history[2]), "validity")] =
               VerifyValidity(p, ValidityContext(asked[p], Keys, <<p, "paid">>))
      BY <1>1, <3>3, CarriedByAPayment DEF HistoryOf
    <3>6. 2 \in 1..Len(history) /\ Len(history) \in Nat /\ 1..(2 - 1) = {1}
      BY <1>1, <3>1
    <3>7. ProofAt(history) = 2
      BY <3>4, <3>5, <3>6, FirstProofIsTaken
    <3>8. context = ValidityContext(asked[p], Keys, <<p, "paid">>)
      BY <2>1 DEF FirstContext, FirstProven, FirstUse
    <3> QED
      BY <2>1, <3>2, <3>5, <3>7, <3>8
  <2>2. CASE used[p] # Nothing
    <3>1. Len(history) \in Nat \ {0} /\ history[1] = <<p, 0>>
      BY <2>2, OldestFirstIsTheHistory
    <3> HIDE DEF history
    <3>2. /\ Carries(Wire(history[1]), "validity")
          /\ Wire(history[1]).instructions[FirstOf(Wire(history[1]), "validity")] =
               VerifyValidity(p, ValidityContext(used[p], Keys, <<p, "before">>))
      BY <3>1, UsedOnTheWire, CarriedByAnother
    <3>3. ProofAt(history) = 1
      <4>1. 1 \in 1..Len(history) /\ 1..(1 - 1) = {}
        BY <3>1
      <4> QED
        BY <3>1, <3>2, <4>1, FirstProofIsTaken
    <3>4. context = ValidityContext(used[p], Keys, <<p, "before">>)
      BY <2>2 DEF FirstContext, FirstProven, FirstUse
    <3> QED
      BY <2>2, <3>1, <3>2, <3>3, <3>4
  <2> QED
    BY <2>1, <2>2
<1>4. ExtractValidityContext(Wire(history[place])) = context
  BY <1>3 DEF ExtractValidityContext, VerifyValidity
<1> HIDE DEF context, place
<1>5. FetchRecipientCiphertext(<<p, 3>>) =
        [lo |-> context.lo, hi |-> context.hi, proofSig |-> history[place]]
  BY <1>2, <1>3, <1>4 DEF FetchRecipientCiphertext
<1> QED
  BY <1>3, <1>5 DEF Row, context

\* Where in the histories a transaction is that landed.
LEMMA PlaceOfALanded ==
  ASSUME LedgerInv, NEW s \in Landed
  PROVE  \/ \E p \in 1..MaxPayments :
              /\ s = <<p, 0>> /\ used[p] \in Amounts
              /\ Wire(s).instructions = OtherUse(p, used[p], "before")
         \/ \E p \in 1..MaxPayments, i \in 1..5 :
              s = <<p, i>> /\ i <= Len(ledger[p]) /\ Wire(s) = ledger[p][i]
<1>1. PICK p \in 1..MaxPayments, i \in 0..5 : s = <<p, i>>
  BY DEF Landed, Signatures, LedgerInv, LedgerTypes
<1>2. s[1] = p /\ s[2] = i
  BY <1>1
<1>3. CASE i = 0
  <2>1. used[p] \in Amounts
    BY <1>2, <1>3 DEF Landed, LedgerInv, LedgerTypes
  <2> QED
    BY <1>1, <1>3, <2>1, UsedOnTheWire
<1>4. CASE i # 0
  <2>1. i \in 1..5 /\ i <= Len(ledger[p])
    BY <1>2, <1>4 DEF Landed
  <2>2. Wire(s) = ledger[p][i]
    BY <1>2, <1>4 DEF Wire
  <2> QED
    BY <1>1, <2>1, <2>2
<1> QED
  BY <1>3, <1>4

-----------------------------------------------------------------------------
(* Every step keeps the invariant.                                         *)

LEMMA ContributeKeeps ==
  ASSUME LedgerInv, NEW p \in 1..MaxPayments, NEW units \in Amounts, NEW ok \in BOOLEAN,
         Contribute(p, units, ok)
  PROVE  LedgerInv'
<1>1. /\ ledger[p] = <<>> /\ Lands(p, BuildContribution(p, units)[1], ok)
      /\ asked' = [asked EXCEPT ![p] = units] /\ rows' = rows /\ used' = used
  BY DEF Contribute, IsNext
<1>2. DOMAIN asked = 1..MaxPayments
  BY DEF LedgerInv, LedgerTypes
<1>3. /\ DOMAIN asked' = 1..MaxPayments /\ asked'[p] = units
      /\ \A q \in 1..MaxPayments : q # p => asked'[q] = asked[q]
  BY <1>1, <1>2
<1>4. BuildContribution(p, units)[1] \in InstructionLists
  BY 1 \in 1..4 DEF InstructionLists
<1>5. Len(ledger[p]) = 0
  BY <1>1
<1> QED
  BY <1>1, <1>3, <1>4, <1>5, LandingKeeps

\* The steps that follow the first one, of a payment that did not fail.
LEMMA NextOfPaymentKeeps ==
  ASSUME LedgerInv, NEW p \in 1..MaxPayments, NEW step \in 2..4, NEW ok \in BOOLEAN,
         Len(ledger[p]) = step - 1, ledger[p][Len(ledger[p])].ok,
         Lands(p, BuildContribution(p, asked[p])[step], ok),
         UNCHANGED <<used, asked, rows>>
  PROVE  LedgerInv'
<1>1. ledger[p] # <<>>
  OBVIOUS
<1>2. DOMAIN asked = 1..MaxPayments /\ asked[p] \in Amounts
  BY <1>1 DEF LedgerInv, LedgerTypes, HistoryOf
<1>3. BuildContribution(p, asked[p])[step] \in InstructionLists
  BY <1>2, step \in 1..4 DEF InstructionLists
<1>4. Len(ledger[p]) + 1 = step /\ Len(ledger[p]) < 4
  OBVIOUS
<1> QED
  <2>1. /\ asked' = asked /\ rows' = rows /\ used' = used
        /\ Len(ledger[p]) >= 4 => Len(ledger[p]) = 4
    BY <1>4
  <2>2. BuildContribution(p, asked'[p])[Len(ledger[p]) + 1] = BuildContribution(p, asked[p])[step]
    BY <1>4, <2>1
  <2> QED
    BY <1>2, <1>3, <1>4, <2>1, <2>2, LandingKeeps

LEMMA RecreateKeeps ==
  ASSUME LedgerInv, NEW p \in 1..MaxPayments, NEW units \in OtherAmounts, Recreate(p, units)
  PROVE  LedgerInv'
<1>1. /\ GoesOn(p, 5) /\ Lands(p, OtherUse(p, units, "again"), TRUE)
      /\ UNCHANGED <<used, asked, rows>>
  BY DEF Recreate
<1>5. Len(ledger[p]) = 4 /\ ledger[p][Len(ledger[p])].ok
  BY <1>1 DEF GoesOn, Last
<1>2. ledger[p] # <<>>
  BY <1>5
<1>3. DOMAIN asked = 1..MaxPayments /\ asked[p] \in Amounts
  BY <1>2 DEF LedgerInv, LedgerTypes, HistoryOf
<1>4. OtherUse(p, units, "again") \in InstructionLists
  BY PaymentsAssumption DEF InstructionLists
<1> QED
  <2>1. /\ asked' = asked /\ rows' = rows /\ used' = used
        /\ ~(Len(ledger[p]) < 4)
    BY <1>1, <1>5
  <2> QED
    BY <1>1, <1>3, <1>4, <1>5, <2>1, PaymentsAssumption, LandingKeeps

\* An account that is used before its payment has no transaction of the payment yet, and no row.
LEMMA UseBeforeKeeps ==
  ASSUME LedgerInv, NEW p \in 1..MaxPayments, NEW units \in OtherAmounts, UseBefore(p, units)
  PROVE  LedgerInv'
<1>1. /\ ledger[p] = <<>> /\ used' = [used EXCEPT ![p] = units]
      /\ UNCHANGED <<ledger, asked, rows>>
  BY DEF UseBefore, IsNext
<1>2. LedgerTypes'
  BY <1>1, PaymentsAssumption DEF LedgerInv, LedgerTypes
<1>3. \A q \in 1..MaxPayments : HistoryOf(q)'
  BY <1>1 DEF LedgerInv, HistoryOf
<1>4. RowsAreOfPayments'
  <2> SUFFICES ASSUME NEW t \in DOMAIN rows
               PROVE  \E q \in 1..MaxPayments :
                        /\ t = <<q, 3>> /\ 3 <= Len(ledger[q])
                        /\ ledger[q][2].ok /\ ledger[q][3].ok /\ rows[t] = Row(q)'
    BY <1>1 DEF RowsAreOfPayments
  <2>1. PICK q \in 1..MaxPayments : /\ t = <<q, 3>> /\ 3 <= Len(ledger[q])
                                    /\ ledger[q][2].ok /\ ledger[q][3].ok /\ rows[t] = Row(q)
    BY DEF LedgerInv, RowsAreOfPayments
  <2>2. q # p
    BY <1>1, <2>1
  <2>3. used'[q] = used[q] /\ asked'[q] = asked[q]
    BY <1>1, <2>2 DEF LedgerInv, LedgerTypes
  <2>4. Row(q)' = Row(q)
    BY <2>3 DEF Row, FirstContext, FirstUse, FirstProven
  <2> QED
    BY <2>1, <2>4
<1> QED
  BY <1>2, <1>3, <1>4 DEF LedgerInv

LEMMA IndexTransferKeeps ==
  ASSUME LedgerInv, NEW signature \in Landed, IndexTransfer(signature)
  PROVE  LedgerInv'
<1>0. Wire(signature).ok /\ Carries(Wire(signature), "transfer")
  BY DEF IndexTransfer
<1>1. PICK p \in 1..MaxPayments, i \in 1..5 :
        signature = <<p, i>> /\ i <= Len(ledger[p]) /\ Wire(signature) = ledger[p][i]
  BY <1>0, PlaceOfALanded, CarriedByAnother
<1>2. LedgerTypes /\ HistoryOf(p) /\ RowsAreOfPayments
  BY DEF LedgerInv
<1>3. Wire(signature) = ledger[p][i] /\ ledger[p][i].ok /\ Carries(ledger[p][i], "transfer")
  BY <1>0, <1>1
<1>4. i = 3
  <2>1. ASSUME i = 5 PROVE FALSE
    <3>1. PICK units \in Amounts : ledger[p][5].instructions = OtherUse(p, units, "again")
      BY <1>1, <1>2, <2>1 DEF HistoryOf
    <3> QED
      BY <1>3, <2>1, <3>1, CarriedByAnother
  <2>2. ASSUME i \in 1..4, i # 3 PROVE FALSE
    <3>1. ledger[p][i].instructions = BuildContribution(p, asked[p])[i]
      BY <1>1, <1>2, <2>2 DEF HistoryOf
    <3> QED
      BY <1>3, <2>2, <3>1, NotCarriedByAPayment
  <2> QED
    BY <2>1, <2>2
<1>5. 3 <= Len(ledger[p]) /\ ledger[p][2].ok /\ ledger[p][3].ok
  <2>1. 2 < Len(ledger[p])
    BY <1>1, <1>4, <1>2 DEF LedgerTypes
  <2> QED
    BY <1>1, <1>2, <1>3, <1>4, <2>1 DEF HistoryOf
<1>6. /\ rows' = [t \in DOMAIN rows \union {signature} |->
                     IF t = signature THEN Row(p) ELSE rows[t]]
      /\ UNCHANGED <<ledger, used, asked>>
  <2>1. FetchRecipientCiphertext(signature) = Row(p)
    BY <1>1, <1>4, <1>5, FetchFindsTheFirst
  <2> QED
    BY <2>1 DEF IndexTransfer
<1>7. LedgerTypes' /\ \A q \in 1..MaxPayments : HistoryOf(q)'
  BY <1>6 DEF LedgerInv, LedgerTypes, HistoryOf
<1>8. RowsAreOfPayments'
  <2>1. \A t \in DOMAIN rows' : \/ t = signature
                                \/ t \in DOMAIN rows /\ t # signature /\ rows'[t] = rows[t]
    BY <1>6
  <2>2. rows'[signature] = Row(p)
    BY <1>6
  <2>3. \A q : Row(q)' = Row(q)
    BY <1>6 DEF Row, FirstContext, FirstUse, FirstProven
  <2> SUFFICES ASSUME NEW t \in DOMAIN rows'
               PROVE  \E q \in 1..MaxPayments :
                        /\ t = <<q, 3>> /\ 3 <= Len(ledger[q])
                        /\ ledger[q][2].ok /\ ledger[q][3].ok /\ rows'[t] = Row(q)
    BY <1>6, <2>3 DEF RowsAreOfPayments
  <2> QED
    BY <1>1, <1>2, <1>4, <1>5, <2>1, <2>2 DEF RowsAreOfPayments
<1> QED
  BY <1>7, <1>8 DEF LedgerInv

LEMMA StepKeepsLedgerInv == LedgerInv /\ [Next]_vars => LedgerInv'
<1> SUFFICES ASSUME LedgerInv, [Next]_vars PROVE LedgerInv'
  OBVIOUS
<1>1. ASSUME UNCHANGED <<ledger, used, rows, asked>> PROVE LedgerInv'
  <2>1. LedgerTypes'
    BY <1>1 DEF LedgerInv, LedgerTypes
  <2>2. \A p \in 1..MaxPayments : HistoryOf(p)'
    BY <1>1 DEF LedgerInv, HistoryOf
  <2>3. RowsAreOfPayments'
    BY <1>1 DEF LedgerInv, RowsAreOfPayments, Row, FirstContext, FirstUse, FirstProven
  <2> QED
    BY <2>1, <2>2, <2>3 DEF LedgerInv
<1>2. ASSUME NEW p \in 1..MaxPayments, NEW ok \in BOOLEAN, NEW units \in Amounts,
             Contribute(p, units, ok)
      PROVE  LedgerInv'
  BY <1>2, ContributeKeeps
<1>3. ASSUME NEW p \in 1..MaxPayments, NEW ok \in BOOLEAN, NEW step \in {2, 4},
             ContributeOn(p, step, ok)
      PROVE  LedgerInv'
  <2>1. /\ GoesOn(p, step) /\ Lands(p, BuildContribution(p, asked[p])[step], ok)
        /\ UNCHANGED <<used, asked, rows>>
    BY <1>3 DEF ContributeOn
  <2>2. Len(ledger[p]) = step - 1 /\ ledger[p][Len(ledger[p])].ok
    BY <2>1 DEF GoesOn, Last
  <2>3. step \in 2..4
    OBVIOUS
  <2> QED
    BY <2>1, <2>2, <2>3, NextOfPaymentKeeps
<1>4. ASSUME NEW p \in 1..MaxPayments, NEW ok \in BOOLEAN, Pay(p, ok)
      PROVE  LedgerInv'
  <2>1. /\ GoesOn(p, 3) /\ Lands(p, BuildContribution(p, asked[p])[3], ok)
        /\ UNCHANGED <<used, asked, rows>>
    BY <1>4 DEF Pay
  <2>2. Len(ledger[p]) = 3 - 1 /\ ledger[p][Len(ledger[p])].ok
    BY <2>1 DEF GoesOn, Last
  <2> QED
    BY <2>1, <2>2, 3 \in 2..4, NextOfPaymentKeeps
<1>5. ASSUME NEW p \in 1..MaxPayments, NEW units \in OtherAmounts,
             UseBefore(p, units) \/ Recreate(p, units)
      PROVE  LedgerInv'
  BY <1>5, UseBeforeKeeps, RecreateKeeps
<1>6. ASSUME ApplyPending PROVE LedgerInv'
  BY <1>1, <1>6 DEF ApplyPending
<1>7. ASSUME NEW signature \in Landed, IndexTransfer(signature) PROVE LedgerInv'
  BY <1>7, IndexTransferKeeps
<1>8. ASSUME UNCHANGED paymentVars PROVE LedgerInv'
  BY <1>1, <1>8 DEF paymentVars
<1>9. UNCHANGED vars => UNCHANGED paymentVars
  BY DEF vars
<1> QED
  BY <1>2, <1>3, <1>4, <1>5, <1>6, <1>7, <1>8, <1>9 DEF Next

LEMMA LedgerInvCorrect == Spec => []LedgerInv
  BY InitLedgerInv, StepKeepsLedgerInv, PTL DEF Spec

-----------------------------------------------------------------------------
(* What the readers find.                                                  *)

\* The transfers that the chain took.
LEMMA PaidIsATransfer ==
  ASSUME LedgerInv, NEW p \in Paid
  PROVE  /\ p \in 1..MaxPayments /\ asked[p] \in Amounts
         /\ Wire(TransferOf(p)).instructions[FirstOf(Wire(TransferOf(p)), "transfer")] =
              Transfer(p, ValidityContext(asked[p], Keys, <<p, "paid">>))
<1>1. p \in 1..MaxPayments /\ HistoryOf(p) /\ 3 <= Len(ledger[p])
  BY DEF Paid, LedgerInv, LedgerTypes
<1>2. ledger[p] # <<>>
  BY <1>1
<1>3. ledger[p][3].instructions = BuildContribution(p, asked[p])[3] /\ asked[p] \in Amounts
  BY <1>1, <1>2 DEF HistoryOf
<1>4. Wire(TransferOf(p)) = ledger[p][3]
  BY DEF Wire, TransferOf
<1>5. 3 \in 1..4
  OBVIOUS
<1> QED
  BY <1>1, <1>3, <1>4, <1>5, CarriedByAPayment

LEMMA RowOfATransfer ==
  ASSUME LedgerInv, NEW t \in DOMAIN rows
  PROVE  \E p \in 1..MaxPayments :
           /\ t = TransferOf(p) /\ asked[p] \in Amounts /\ rows[t] = Row(p)
           /\ 3 <= Len(ledger[p]) /\ ledger[p][2].ok /\ ledger[p][3].ok
<1>1. PICK p \in 1..MaxPayments : /\ t = <<p, 3>> /\ 3 <= Len(ledger[p])
                                  /\ ledger[p][2].ok /\ ledger[p][3].ok /\ rows[t] = Row(p)
  BY DEF LedgerInv, RowsAreOfPayments
<1>2. ledger[p] # <<>>
  BY <1>1
<1>3. asked[p] \in Amounts
  BY <1>2 DEF LedgerInv, HistoryOf
<1> QED
  BY <1>1, <1>3 DEF TransferOf

\* A row is a proof context of an amount.
LEMMA RowContext ==
  ASSUME NEW p
  PROVE  /\ Row(p).lo = Grouped(FirstProven(p) % LoRange, Keys, <<p, FirstUse(p)>>)
         /\ Row(p).hi = Grouped(FirstProven(p) \div LoRange, Keys, <<p, FirstUse(p)>>)
         /\ Row(p).proofSig = <<p, IF used[p] = Nothing THEN 2 ELSE 0>>
  BY DEF Row, FirstContext, ValidityContext

LEMMA FirstProvenIsAnAmount ==
  ASSUME LedgerInv, NEW p \in 1..MaxPayments, asked[p] \in Amounts
  PROVE  FirstProven(p) \in Amounts
  BY DEF LedgerInv, LedgerTypes, FirstProven

\* What the auditor reads of a transfer.
LEMMA AuditorReads ==
  ASSUME NEW units \in Amounts, NEW p, NEW key
  PROVE  DecryptAsAuditor(key, Transfer(p, ValidityContext(units, Keys, <<p, "paid">>))) =
           IF key = Auditor THEN Ok(units) ELSE Fail("wrong-key")
<1> DEFINE lo == units % LoRange
           hi == units \div LoRange
           transfer == Transfer(p, ValidityContext(units, Keys, <<p, "paid">>))
<1>1. /\ lo \in Nat /\ hi \in Nat /\ lo + hi * LoRange = units /\ lo < Search /\ hi < Search
  BY PartsOfAnAmount
<1>2. Keys[AuditorHandle] = Auditor
  BY DEF Keys, AuditorHandle
<1>3. /\ transfer.auditorLo = [value |-> lo, key |-> Auditor]
      /\ transfer.auditorHi = [value |-> hi, key |-> Auditor]
  BY <1>2 DEF Transfer, ValidityContext, Grouped, UnderHandle, Ciphertext
<1> HIDE DEF lo, hi, transfer
<1>4. CASE key = Auditor
  <2>1. Logarithm(key, transfer.auditorLo) = lo /\ Logarithm(key, transfer.auditorHi) = hi
    BY <1>1, <1>3, <1>4 DEF Logarithm
  <2> QED
    BY <1>1, <1>4, <2>1 DEF DecryptAsAuditor, Parts, NotFound, transfer
<1>5. CASE key # Auditor
  <2>1. Logarithm(key, transfer.auditorLo) = NotFound
    BY <1>3, <1>5 DEF Logarithm
  <2> QED
    BY <1>5, <2>1 DEF DecryptAsAuditor, Parts, transfer
<1> QED
  BY <1>4, <1>5

LEMMA AmountsFollow == LedgerInv => AmountsAreWhatMoved
<1> SUFFICES ASSUME LedgerInv, NEW p \in Paid, NEW key \in Readers
             PROVE  /\ Reads(key, Auditor,
                             DecryptAsAuditor(key, Wire(TransferOf(p)).instructions[
                                                     FirstOf(Wire(TransferOf(p)), "transfer")]),
                             asked[p])
                    /\ TransferOf(p) \in DOMAIN rows =>
                         /\ Reads(key, Patron,
                                  DecryptContribution(key, rows[TransferOf(p)], Destination),
                                  FirstProven(p))
                         /\ Reads(key, Fan, DecryptContribution(key, rows[TransferOf(p)], Source),
                                  FirstProven(p))
  BY DEF AmountsAreWhatMoved
<1>1. ~Fail("wrong-key").ok
  BY DEF Fail
<1>2. asked[p] \in Amounts /\ FirstProven(p) \in Amounts
  BY PaidIsATransfer, FirstProvenIsAnAmount
<1>3. Reads(key, Auditor,
            DecryptAsAuditor(key, Wire(TransferOf(p)).instructions[
                                    FirstOf(Wire(TransferOf(p)), "transfer")]), asked[p])
  <2>1. Wire(TransferOf(p)).instructions[FirstOf(Wire(TransferOf(p)), "transfer")] =
          Transfer(p, ValidityContext(asked[p], Keys, <<p, "paid">>))
    BY PaidIsATransfer
  <2>2. DecryptAsAuditor(key, Transfer(p, ValidityContext(asked[p], Keys, <<p, "paid">>))) =
          IF key = Auditor THEN Ok(asked[p]) ELSE Fail("wrong-key")
    BY <1>2, AuditorReads
  <2> QED
    BY <1>1, <2>1, <2>2 DEF Reads
<1>4. ASSUME TransferOf(p) \in DOMAIN rows
      PROVE  /\ Reads(key, Patron, DecryptContribution(key, rows[TransferOf(p)], Destination),
                      FirstProven(p))
             /\ Reads(key, Fan, DecryptContribution(key, rows[TransferOf(p)], Source),
                      FirstProven(p))
  <2>1. rows[TransferOf(p)] = Row(p)
    BY <1>4, RowOfATransfer DEF TransferOf
  <2>2. \A handle : DecryptContribution(key, Row(p), handle) =
                      IF key = Keys[handle] THEN Ok(FirstProven(p)) ELSE Fail("wrong-key")
    <3> TAKE handle
    <3>1. /\ Row(p).lo = Grouped(FirstProven(p) % LoRange, Keys, <<p, FirstUse(p)>>)
          /\ Row(p).hi = Grouped(FirstProven(p) \div LoRange, Keys, <<p, FirstUse(p)>>)
      BY RowContext
    <3> QED
      BY <1>2, <3>1, DecryptContext
  <2>3. Keys[Destination] = Patron /\ Keys[Source] = Fan
    BY DEF Keys, Destination, Source
  <2> QED
    BY <1>1, <2>1, <2>2, <2>3 DEF Reads
<1> QED
  BY <1>3, <1>4

\* The auditor reads the units that moved, and so do creator and supporter in the row of the index
\* (decrypt.ts:113), whatever becomes of the proof account after the payment; of an account that was
\* used before, the row has what was proven first (ciphertext.ts:44-56).  Who is no reader finds
\* nothing.  Any amounts, payments and uses.
THEOREM AmountsCorrect == Spec => []AmountsAreWhatMoved
  BY LedgerInvCorrect, AmountsFollow, PTL

-----------------------------------------------------------------------------
(* Disclosure.                                                             *)

\* A landed transaction that carries a proof, and the amount in it.
LEMMA ProofOfAnAccount ==
  ASSUME LedgerInv, NEW s \in Landed, Carries(Wire(s), "validity")
  PROVE  \E p \in 1..MaxPayments, units \in Amounts, life \in {"before", "paid", "again"} :
           Wire(s).instructions[FirstOf(Wire(s), "validity")] =
             VerifyValidity(p, ValidityContext(units, Keys, <<p, life>>))
<1>1. CASE \E p \in 1..MaxPayments :
             /\ s = <<p, 0>> /\ used[p] \in Amounts
             /\ Wire(s).instructions = OtherUse(p, used[p], "before")
  BY <1>1, CarriedByAnother
<1>2. ASSUME NEW p \in 1..MaxPayments, NEW i \in 1..5,
             s = <<p, i>>, i <= Len(ledger[p]), Wire(s) = ledger[p][i]
      PROVE  \E units \in Amounts, life \in {"before", "paid", "again"} :
               Wire(s).instructions[FirstOf(Wire(s), "validity")] =
                 VerifyValidity(p, ValidityContext(units, Keys, <<p, life>>))
  <2>1. HistoryOf(p) /\ ledger[p] # <<>>
    BY <1>2 DEF LedgerInv
  <2>2. asked[p] \in Amounts
    BY <2>1 DEF HistoryOf
  <2>3. CASE i = 5
    <3>1. PICK units \in Amounts : ledger[p][5].instructions = OtherUse(p, units, "again")
      BY <1>2, <2>1, <2>3 DEF HistoryOf
    <3>2. ledger[p][5].instructions[FirstOf(ledger[p][5], "validity")] =
            VerifyValidity(p, ValidityContext(units, Keys, <<p, "again">>))
      BY <3>1, CarriedByAnother
    <3> QED
      BY <1>2, <2>3, <3>2
  <2>4. CASE i \in 1..4
    <3>1. ledger[p][i].instructions = BuildContribution(p, asked[p])[i]
      BY <1>2, <2>1, <2>4 DEF HistoryOf
    <3>2. i = 2
      BY <1>2, <2>4, <3>1, NotCarriedByAPayment
    <3>3. ledger[p][i].instructions[FirstOf(ledger[p][i], "validity")] =
            VerifyValidity(p, ValidityContext(asked[p], Keys, <<p, "paid">>))
      BY <2>4, <3>1, <3>2, CarriedByAPayment
    <3> QED
      BY <1>2, <2>2, <3>3
  <2> QED
    BY <2>3, <2>4
<1> QED
  BY <1>1, <1>2, PlaceOfALanded

\* A landed transaction that carries a transfer is the third of its account.
LEMMA TransferOfAnAccount ==
  ASSUME LedgerInv, NEW t \in Landed, Carries(Wire(t), "transfer")
  PROVE  \E p \in 1..MaxPayments :
           /\ t = TransferOf(p) /\ t[1] = p /\ asked[p] \in Amounts
           /\ Wire(t).instructions[FirstOf(Wire(t), "transfer")] =
                Transfer(p, ValidityContext(asked[p], Keys, <<p, "paid">>))
<1>1. PICK p \in 1..MaxPayments, i \in 1..5 :
        t = <<p, i>> /\ i <= Len(ledger[p]) /\ Wire(t) = ledger[p][i]
  <2>1. ASSUME NEW p, Wire(t).instructions = OtherUse(p, used[p], "before") PROVE FALSE
    BY <2>1, CarriedByAnother
  <2> QED
    BY <2>1, PlaceOfALanded
<1>2. HistoryOf(p) /\ ledger[p] # <<>> /\ t[1] = p
  BY <1>1 DEF LedgerInv
<1>3. asked[p] \in Amounts
  BY <1>2 DEF HistoryOf
<1>4. ASSUME i = 5 PROVE FALSE
  <2>1. PICK units \in Amounts : ledger[p][5].instructions = OtherUse(p, units, "again")
    BY <1>1, <1>2, <1>4 DEF HistoryOf
  <2>2. ~Carries(ledger[p][5], "transfer")
    BY <2>1, CarriedByAnother, ZenonT(60)
  <2> QED
    BY <1>1, <1>4, <2>2
<1>5. CASE i \in 1..4
  <2>1. ledger[p][i].instructions = BuildContribution(p, asked[p])[i]
    BY <1>1, <1>2, <1>5 DEF HistoryOf
  <2>2. i = 3
    BY <1>1, <1>5, <2>1, NotCarriedByAPayment
  <2>3. ledger[p][i].instructions[FirstOf(ledger[p][i], "transfer")] =
          Transfer(p, ValidityContext(asked[p], Keys, <<p, "paid">>))
    BY <1>5, <2>1, <2>2, CarriedByAPayment
  <2> QED
    BY <1>1, <1>2, <1>3, <2>2, <2>3 DEF TransferOf
<1> QED
  BY <1>4, <1>5

\* The value of a context's combined ciphertext is the amount it was made of.
LEMMA CombinedIsTheAmount ==
  ASSUME NEW units \in Amounts, NEW opening
  PROVE  LET c == ValidityContext(units, Keys, opening)
         IN  /\ CombineCiphertext(c, Source) = Ciphertext(units, Fan)
             /\ c.lo.keys[Source] = Fan
             /\ c.lo.value + c.hi.value * LoRange = units
<1>1. (units % LoRange) + (units \div LoRange) * LoRange = units
  BY PartsOfAnAmount
<1>2. Keys[Source] = Fan
  BY DEF Keys, Source
<1> QED
  BY <1>1, <1>2 DEF ValidityContext, Grouped, CombineCiphertext

\* The commitments of the parts pin the amount, whatever the openings.
LEMMA CommitmentsPinTheAmount ==
  ASSUME NEW p, NEW a \in Amounts, NEW b \in Amounts, NEW oa, NEW ob,
         SameCiphertext(ValidityContext(b, Keys, ob), Transfer(p, ValidityContext(a, Keys, oa)))
  PROVE  a = b
<1>1. /\ a = (a % LoRange) + (a \div LoRange) * LoRange
      /\ b = (b % LoRange) + (b \div LoRange) * LoRange
  BY PartsOfAnAmount
<1>2. a % LoRange = b % LoRange /\ a \div LoRange = b \div LoRange
  BY DEF SameCiphertext, Transfer, ValidityContext, Grouped, Commitment
<1> QED
  BY <1>1, <1>2

LEMMA DisclosureFollows == LedgerInv => DisclosureIsTrue
<1> SUFFICES ASSUME LedgerInv, NEW t \in Landed, NEW s \in Landed, NEW statement \in TrueStatements,
                    VerifyDisclosure([transferSignature |-> t, proofSignature |-> s,
                                      units |-> statement.units, proof |-> statement]).ok
             PROVE  /\ t[1] \in Paid
                    /\ VerifyDisclosure([transferSignature |-> t, proofSignature |-> s,
                                         units |-> statement.units, proof |-> statement]).units =
                         asked[t[1]]
  BY DEF DisclosureIsTrue, Carrying
<1> DEFINE payload == [transferSignature |-> t, proofSignature |-> s,
                       units |-> statement.units, proof |-> statement]
           transfer == Wire(t).instructions[FirstOf(Wire(t), "transfer")]
           validity == Wire(s).instructions[FirstOf(Wire(s), "validity")]
           rebuilt == Statement(validity.context.lo.keys[Source],
                                CombineCiphertext(validity.context, Source), statement.units)
<1>1. \A reason : ~Fail(reason).ok
  BY DEF Fail
<1>2. /\ Wire(t).ok /\ Carries(Wire(t), "transfer") /\ Carries(Wire(s), "validity")
      /\ SameCiphertext(validity.context, transfer) /\ statement = rebuilt
      /\ VerifyDisclosure(payload) = Ok(statement.units)
  BY <1>1 DEF VerifyDisclosure
<1>3. PICK p \in 1..MaxPayments :
        /\ t = TransferOf(p) /\ t[1] = p /\ asked[p] \in Amounts
        /\ transfer = Transfer(p, ValidityContext(asked[p], Keys, <<p, "paid">>))
  BY <1>2, TransferOfAnAccount
<1>4. PICK q \in 1..MaxPayments, units \in Amounts, life \in {"before", "paid", "again"} :
        validity = VerifyValidity(q, ValidityContext(units, Keys, <<q, life>>))
  BY <1>2, ProofOfAnAccount
<1>5. validity.context = ValidityContext(units, Keys, <<q, life>>)
  BY <1>4 DEF VerifyValidity
<1> HIDE DEF validity, transfer
<1>6. asked[p] = units
  BY <1>2, <1>3, <1>5, CommitmentsPinTheAmount
<1>7. statement.ciphertext = Ciphertext(units, Fan)
  BY <1>2, <1>5, CombinedIsTheAmount DEF Statement
<1>8. statement.ciphertext.value = statement.units
  <2>1. PICK other \in Landed :
          /\ Carries(Wire(other), "validity")
          /\ LET c == ExtractValidityContext(Wire(other))
             IN  statement = Statement(c.lo.keys[Source], CombineCiphertext(c, Source),
                                       c.lo.value + c.hi.value * LoRange)
    BY DEF TrueStatements, Carrying
  <2>2. PICK r \in 1..MaxPayments, amount \in Amounts, o \in {"before", "paid", "again"} :
          Wire(other).instructions[FirstOf(Wire(other), "validity")] =
            VerifyValidity(r, ValidityContext(amount, Keys, <<r, o>>))
    BY <2>1, ProofOfAnAccount
  <2>3. ExtractValidityContext(Wire(other)) = ValidityContext(amount, Keys, <<r, o>>)
    BY <2>2 DEF ExtractValidityContext, VerifyValidity
  <2>4. statement = Statement(Fan, Ciphertext(amount, Fan), amount)
    BY <2>1, <2>3, CombinedIsTheAmount
  <2> QED
    BY <2>4 DEF Statement, Ciphertext
<1>9. statement.units = asked[p]
  BY <1>6, <1>7, <1>8 DEF Ciphertext
<1>10. p \in Paid
  BY <1>2, <1>3 DEF Landed, Signatures, TransferOf, Wire, Paid
<1> QED
  BY <1>2, <1>3, <1>9, <1>10 DEF Ok

\* No disclosure that verifies names other units than its transfer moved (disclose.ts:207-210),
\* whatever landed transfer, proof, units and true statement it is made of; and that was paid.
THEOREM DisclosureIsTrueCorrect == Spec => []DisclosureIsTrue
  BY LedgerInvCorrect, DisclosureFollows, PTL

LEMMA DisclosureOfARow == LedgerInv => DisclosureStands
<1> SUFFICES ASSUME LedgerInv, NEW t \in DOMAIN rows
             PROVE  LET payload == CreateDisclosure(Fan, t, rows[t].proofSig)
                    IN  /\ payload.ok
                        /\ VerifyDisclosure(payload) =
                             IF used[t[1]] = Nothing THEN Ok(asked[t[1]])
                             ELSE Fail("ciphertext-mismatch")
  BY DEF DisclosureStands
<1>1. PICK p \in 1..MaxPayments :
        /\ t = TransferOf(p) /\ asked[p] \in Amounts /\ rows[t] = Row(p)
        /\ 3 <= Len(ledger[p]) /\ ledger[p][2].ok /\ ledger[p][3].ok
  BY RowOfATransfer
<1> DEFINE units == FirstProven(p)
           context == FirstContext(p)
           paid == ValidityContext(asked[p], Keys, <<p, "paid">>)
           s == <<p, IF used[p] = Nothing THEN 2 ELSE 0>>
           statement == Statement(Fan, Ciphertext(units, Fan), units)
           payload == [ok |-> TRUE, transferSignature |-> t, proofSignature |-> s,
                       units |-> units, proof |-> statement]
<1>a. units \in Amounts
  BY <1>1, FirstProvenIsAnAmount
<1>2. t[1] = p /\ rows[t].proofSig = s /\ Wire(t) = ledger[p][3]
  <2>1. Row(p).proofSig = s
    BY RowContext
  <2> QED
    BY <1>1, <2>1 DEF TransferOf, Wire
<1>3. /\ ledger[p][2].instructions = BuildContribution(p, asked[p])[2]
      /\ ledger[p][3].instructions = BuildContribution(p, asked[p])[3]
  BY <1>1 DEF LedgerInv, HistoryOf
<1>4. /\ Carries(Wire(t), "transfer") /\ Wire(t).ok
      /\ Wire(t).instructions[FirstOf(Wire(t), "transfer")] = Transfer(p, paid)
  <2>1. 3 \in 1..4
    OBVIOUS
  <2> QED
    BY <1>1, <1>2, <1>3, <2>1, CarriedByAPayment
<1>5. /\ Carries(Wire(s), "validity") /\ Wire(s).ok
      /\ Wire(s).instructions[FirstOf(Wire(s), "validity")] = VerifyValidity(p, context)
  <2>1. CASE used[p] = Nothing
    <3>1. Wire(s) = ledger[p][2] /\ context = paid /\ 2 \in 1..4
      BY <2>1 DEF Wire, FirstContext, FirstProven, FirstUse
    <3> QED
      BY <1>1, <1>3, <3>1, CarriedByAPayment
  <2>2. CASE used[p] # Nothing
    <3>1. s = <<p, 0>> /\ context = ValidityContext(used[p], Keys, <<p, "before">>)
      BY <2>2 DEF FirstContext, FirstProven, FirstUse
    <3> QED
      BY <3>1, UsedOnTheWire, CarriedByAnother
  <2> QED
    BY <2>1, <2>2
<1>6. t \in Landed /\ s \in Landed
  <2>1. DOMAIN ledger = 1..MaxPayments
    BY DEF LedgerInv, LedgerTypes
  <2>2. Len(ledger[p]) >= 2
    BY <1>1 DEF LedgerInv, LedgerTypes
  <2> QED
    BY <1>1, <2>1, <2>2 DEF Landed, Signatures, TransferOf
<1>7. /\ CombineCiphertext(context, Source) = Ciphertext(units, Fan)
      /\ context.lo.keys[Source] = Fan
  BY <1>a, CombinedIsTheAmount DEF FirstContext
<1>8. /\ (VerifyValidity(p, context)).account = (Transfer(p, paid)).validityAccount
      /\ (VerifyValidity(p, context)).context = context
  BY DEF VerifyValidity, Transfer
<1>b. SameCiphertext(context, Transfer(p, paid)) <=> used[p] = Nothing
  <2>1. CASE used[p] = Nothing
    <3>1. context = paid
      BY <2>1 DEF FirstContext, FirstProven, FirstUse
    <3> QED
      BY <2>1, <3>1 DEF Transfer, SameCiphertext
  <2>2. CASE used[p] # Nothing
    <3>1. context = ValidityContext(used[p], Keys, <<p, "before">>)
      BY <2>2 DEF FirstContext, FirstProven, FirstUse
    <3>2. /\ Commitment(context.lo)[2] = <<p, "before">>
          /\ (Transfer(p, paid)).commitmentLo[2] = <<p, "paid">>
      BY <3>1 DEF ValidityContext, Grouped, Commitment, Transfer
    <3>3. <<p, "before">> # <<p, "paid">>
      OBVIOUS
    <3> QED
      BY <2>2, <3>2, <3>3 DEF SameCiphertext
  <2> QED
    BY <2>1, <2>2
<1>9. DecryptContribution(Fan, context, Source) = Ok(units)
  <2>1. /\ context.lo = Grouped(units % LoRange, Keys, <<p, FirstUse(p)>>)
        /\ context.hi = Grouped(units \div LoRange, Keys, <<p, FirstUse(p)>>)
    BY DEF FirstContext, ValidityContext
  <2>2. Keys[Source] = Fan
    BY DEF Keys, Source
  <2> HIDE DEF context, units
  <2>3. DecryptContribution(Fan, context, Source) =
          IF Fan = Keys[Source] THEN Ok(units) ELSE Fail("wrong-key")
    BY <1>a, <2>1, DecryptContext
  <2> QED
    BY <2>2, <2>3
<1> HIDE DEF context, s, units, paid
<1>10. CreateDisclosure(Fan, t, rows[t].proofSig) = payload
  <2>1. ExtractValidityContext(Wire(s)) = context
    BY <1>5, <1>8 DEF ExtractValidityContext
  <2>2. DisclosedHandle = Source
    BY DEF DisclosedHandle
  <2>3. /\ DecryptContribution(Fan, context, DisclosedHandle).ok
        /\ DecryptContribution(Fan, context, DisclosedHandle).units = units
    BY <1>9, <2>2 DEF Ok
  <2>4. Statement(Fan, CombineCiphertext(context, DisclosedHandle), units) = statement
    BY <1>7, <2>2
  <2> HIDE DEF statement
  <2> QED
    BY <1>2, <2>1, <2>3, <2>4 DEF CreateDisclosure
<1>11. CASE used[p] = Nothing
  <2>1. VerifyDisclosure(payload) = Ok(units)
    BY <1>4, <1>5, <1>6, <1>7, <1>8, <1>b, <1>11 DEF VerifyDisclosure
  <2>2. units = asked[p]
    BY <1>11 DEF units, FirstProven
  <2> QED
    BY <1>2, <1>10, <1>11, <2>1, <2>2
<1>12. CASE used[p] # Nothing
  <2>1. VerifyDisclosure(payload) = Fail("ciphertext-mismatch")
    BY <1>4, <1>5, <1>6, <1>7, <1>8, <1>b, <1>12 DEF VerifyDisclosure
  <2> QED
    BY <1>2, <1>10, <1>12, <2>1
<1> QED
  BY <1>11, <1>12

\* What a supporter discloses from the index convinces the stranger that asks (disclose.ts:207-210),
\* now and after the proof account has been used again; of an account that was used before the
\* payment it convinces nobody.
THEOREM DisclosureStandsCorrect == Spec => []DisclosureStands
  BY LedgerInvCorrect, DisclosureOfARow, PTL

-----------------------------------------------------------------------------
(* Sums over a set, as MapThenSumSet makes them.                           *)

\* What MapThenSumSet takes out of a set first.
Taken(s) == CHOOSE x \in s : TRUE

\* A nonempty set holds what is taken out of it.
LEMMA TakenIsIn == ASSUME NEW s, s # {} PROVE Taken(s) \in s
BY DEF Taken

\* A function on the subsets of S that adds up f, whatever is taken out first ...
Totals(g, f, S) ==
  /\ g[{}] = 0
  /\ \A T \in SUBSET S : g[T] \in Int
  /\ \A T \in SUBSET S : \A x \in T : g[T] = f[x] + g[T \ {x}]
\* ... and one that does so by what MapThenSumSet takes out.
SumsUp(g, f, S) ==
  g = [T \in SUBSET S |-> IF T = {} THEN 0 ELSE f[Taken(T)] + g[T \ {Taken(T)}]]

\* A nonempty set of subsets of a finite set has a least one.
LEMMA LeastSubset ==
  ASSUME NEW S, IsFiniteSet(S), NEW B \in SUBSET SUBSET S, B # {}
  PROVE  \E T \in B : \A U \in B : U \subseteq T => U = T
<1>1. IsWellFoundedOn(StrictSubsetOrdering(S), SUBSET S)
  BY FS_StrictSubsetOrderingWellFounded, FS_FiniteSubsetsOfFinite
<1>2. PICK T \in B : \A U \in B : ~ (<<U, T>> \in StrictSubsetOrdering(S))
  BY <1>1, WFMin
<1>3. \A U \in B : U \subseteq T => U = T
  BY <1>2 DEF StrictSubsetOrdering
<1> QED
  BY <1>3

\* A set of numbers up to N has a least one.
LEMMA LeastNumber ==
  ASSUME NEW N \in Nat, NEW B \in SUBSET (0..N), B # {}
  PROVE  \E n \in B : \A m \in B : n <= m
<1>1. IsFiniteSet(0..N)
  BY FS_Interval
<1>2. PICK C : C = {0..n : n \in B}
  OBVIOUS
<1>3. C \in SUBSET SUBSET (0..N) /\ C # {}
  <2>1. \A n \in B : 0..n \in SUBSET (0..N)
    OBVIOUS
  <2>2. \A T \in C : T \in SUBSET (0..N)
    BY <1>2, <2>1
  <2>3. C # {}
    BY <1>2
  <2>4. C \in SUBSET SUBSET (0..N)
    BY <2>2, Zenon
  <2> QED
    BY <2>3, <2>4
<1>7. PICK D : D = 0..N
  OBVIOUS
<1>8. IsFiniteSet(D)
  BY <1>1, <1>7
<1>9. C \in SUBSET SUBSET D
  BY <1>3, <1>7
<1>10. C # {}
  BY <1>3
<1>4. PICK T \in C : \A U \in C : U \subseteq T => U = T
  BY <1>8, <1>9, <1>10, LeastSubset
<1>5. PICK n \in B : T = 0..n
  BY <1>2, <1>4
<1>6. ASSUME NEW m \in B PROVE n <= m
  <2>1. CASE m < n
    <3>1. PICK U : U = 0..m
      OBVIOUS
    <3>2. U \in C
      BY <1>2, <3>1
    <3>3. n \in Nat /\ m \in Nat
      OBVIOUS
    <3>4. U \subseteq T /\ n \in T /\ n \notin U
      BY <1>5, <2>1, <3>1, <3>3
    <3> QED
      BY <1>4, <3>2, <3>4
  <2> QED
    BY <2>1
<1> QED
  BY <1>6

\* There is one: it is built up by the sizes of the sets.
LEMMA SumExists ==
  ASSUME NEW S, IsFiniteSet(S), NEW f
  PROVE  \E g : SumsUp(g, f, S)
<1>1. \A T \in SUBSET S : IsFiniteSet(T) /\ Cardinality(T) \in Nat /\ Cardinality(T) <= Cardinality(S)
  BY FS_Subset, FS_CardinalityType
<1>2. ASSUME NEW T \in SUBSET S, T # {}
      PROVE  /\ Taken(T) \in T /\ T \ {Taken(T)} \in SUBSET S
             /\ Cardinality(T \ {Taken(T)}) = Cardinality(T) - 1
  <2>1. Taken(T) \in T
    BY <1>2, TakenIsIn
  <2> QED
    BY <1>1, <2>1, FS_RemoveElement
<1>3. Cardinality(S) \in Nat
  BY FS_CardinalityType
<1> DEFINE UpTo(g, n) == \A T \in SUBSET S : Cardinality(T) <= n =>
                           g[T] = IF T = {} THEN 0 ELSE f[Taken(T)] + g[T \ {Taken(T)}]
<1>4. \E g : UpTo(g, 0)
  <2>1. \A T \in SUBSET S : Cardinality(T) <= 0 => T = {}
    BY <1>1, FS_EmptySet
  <2>2. PICK g : g = [T \in SUBSET S |-> 0]
    OBVIOUS
  <2>3. UpTo(g, 0)
    BY <2>1, <2>2
  <2> QED
    BY <2>3
<1>5. ASSUME NEW n \in Nat, NEW g, UpTo(g, n) PROVE \E h : UpTo(h, n + 1)
  <2>1. PICK h : h = [T \in SUBSET S |-> IF Cardinality(T) <= n THEN g[T]
                                         ELSE f[Taken(T)] + g[T \ {Taken(T)}]]
    OBVIOUS
  <2>2. \A T \in SUBSET S : Cardinality(T) <= n => h[T] = g[T]
    BY <2>1
  <2>3. ASSUME NEW T \in SUBSET S, Cardinality(T) <= n + 1
        PROVE  h[T] = IF T = {} THEN 0 ELSE f[Taken(T)] + h[T \ {Taken(T)}]
    <3>1. CASE T = {}
      <4>1. Cardinality(T) <= n
        BY <3>1, FS_EmptySet
      <4>2. g[T] = 0
        BY <1>5, <3>1, <4>1
      <4> QED
        BY <2>2, <3>1, <4>1, <4>2
    <3>2. CASE T # {}
      <4>1. T \ {Taken(T)} \in SUBSET S /\ Cardinality(T \ {Taken(T)}) = Cardinality(T) - 1
        BY <1>2, <3>2
      <4>5. Cardinality(T \ {Taken(T)}) <= n
        BY <1>1, <4>1, <2>3
      <4>2. h[T \ {Taken(T)}] = g[T \ {Taken(T)}]
        BY <2>2, <4>1, <4>5
      <4>3. CASE Cardinality(T) <= n
        <5>1. g[T] = f[Taken(T)] + g[T \ {Taken(T)}]
          BY <1>5, <3>2, <4>3
        <5>2. h[T] = g[T]
          BY <2>2, <4>3
        <5> QED
          BY <3>2, <4>2, <5>1, <5>2
      <4>4. CASE ~(Cardinality(T) <= n)
        <5>1. h[T] = f[Taken(T)] + g[T \ {Taken(T)}]
          BY <2>1, <4>4
        <5> QED
          BY <3>2, <4>2, <5>1
      <4> QED
        BY <4>3, <4>4
    <3> QED
      BY <3>1, <3>2
  <2> QED
    BY <2>3
<1>6. \E g : UpTo(g, Cardinality(S))
  <2> HIDE DEF UpTo
  <2>1. PICK Missing : Missing = {n \in 0..Cardinality(S) : ~ \E g : UpTo(g, n)}
    OBVIOUS
  <2>2. SUFFICES ASSUME Missing # {} PROVE FALSE
    BY <1>3, <2>1
  <2>3. Missing \in SUBSET (0..Cardinality(S))
    BY <2>1
  <2>4. PICK n \in Missing : \A m \in Missing : n <= m
    BY <1>3, <2>2, <2>3, LeastNumber
  <2>5. n \in 0..Cardinality(S) /\ ~ \E g : UpTo(g, n)
    BY <2>1, <2>4
  <2>6. n # 0
    BY <1>4, <2>5
  <2>7. n - 1 \in Nat /\ n - 1 \in 0..Cardinality(S) /\ (n - 1) + 1 = n /\ ~(n <= n - 1)
    BY <1>3, <2>5, <2>6
  <2>8. \E g : UpTo(g, n - 1)
    BY <2>1, <2>4, <2>7
  <2>9. \E h : UpTo(h, (n - 1) + 1)
    BY <1>5, <2>7, <2>8
  <2> QED
    BY <2>5, <2>7, <2>9
<1>7. PICK g : UpTo(g, Cardinality(S))
  BY <1>6
<1>8. PICK h : h = [T \in SUBSET S |-> g[T]]
  OBVIOUS
<1>9. ASSUME NEW T \in SUBSET S
      PROVE  h[T] = IF T = {} THEN 0 ELSE f[Taken(T)] + h[T \ {Taken(T)}]
  <2>1. g[T] = IF T = {} THEN 0 ELSE f[Taken(T)] + g[T \ {Taken(T)}]
    BY <1>1, <1>7
  <2>2. h[T] = g[T]
    BY <1>8
  <2>3. CASE T # {}
    <3>1. h[T \ {Taken(T)}] = g[T \ {Taken(T)}]
      BY <1>2, <1>8, <2>3
    <3> QED
      BY <2>1, <2>2, <2>3, <3>1
  <2> QED
    BY <2>1, <2>2, <2>3
<1>10. h = [T \in SUBSET S |-> h[T]]
  BY <1>8
<1>11. SumsUp(h, f, S)
  BY <1>9, <1>10, Zenon DEF SumsUp
<1> QED
  BY <1>11

\* And it does not matter what is taken out first.
LEMMA SumTotals ==
  ASSUME NEW S, IsFiniteSet(S), NEW f, \A x \in S : f[x] \in Int, NEW g, SumsUp(g, f, S)
  PROVE  Totals(g, f, S)
<1>1. \A T \in SUBSET S : g[T] = IF T = {} THEN 0 ELSE f[Taken(T)] + g[T \ {Taken(T)}]
  <2>1. PICK h : h = [T \in SUBSET S |-> IF T = {} THEN 0 ELSE f[Taken(T)] + g[T \ {Taken(T)}]]
    OBVIOUS
  <2>2. g = h
    BY <2>1, Zenon DEF SumsUp
  <2> QED
    BY <2>1, <2>2
<1>4. g[{}] = 0
  BY <1>1
<1>2. \A T \in SUBSET S : g[T] \in Int
  <2>1. PICK B : B = {T \in SUBSET S : g[T] \notin Int}
    OBVIOUS
  <2>2. SUFFICES ASSUME B # {} PROVE FALSE
    BY <2>1
  <2>3. B \in SUBSET SUBSET S
    BY <2>1
  <2>4. PICK T \in B : \A U \in B : U \subseteq T => U = T
    BY <2>2, <2>3, LeastSubset
  <2>5. T \in SUBSET S /\ g[T] \notin Int
    BY <2>1, <2>4
  <2>6. T # {}
    BY <1>4, <2>5
  <2>7. PICK x \in T : x = Taken(T)
    BY <2>6, TakenIsIn
  <2>8. g[T \ {x}] \in Int /\ f[x] \in Int
    BY <2>1, <2>4, <2>5, <2>7
  <2>9. g[T] = f[x] + g[T \ {x}]
    BY <1>1, <2>5, <2>6, <2>7
  <2> QED
    BY <2>5, <2>8, <2>9
<1>3. \A T \in SUBSET S : \A x \in T : g[T] = f[x] + g[T \ {x}]
  <2>1. PICK B : B = {T \in SUBSET S : \E x \in T : g[T] # f[x] + g[T \ {x}]}
    OBVIOUS
  <2>2. SUFFICES ASSUME B # {} PROVE FALSE
    BY <2>1
  <2>3. B \in SUBSET SUBSET S
    BY <2>1
  <2>4. PICK T \in B : \A U \in B : U \subseteq T => U = T
    BY <2>2, <2>3, LeastSubset
  <2>5. T \in SUBSET S /\ \E x \in T : g[T] # f[x] + g[T \ {x}]
    BY <2>1, <2>4
  <2>6. PICK x \in T : g[T] # f[x] + g[T \ {x}]
    BY <2>5
  <2>7. PICK y \in T : y = Taken(T)
    BY <2>6, TakenIsIn
  <2>8. g[T] = f[y] + g[T \ {y}]
    BY <1>1, <2>5, <2>6, <2>7
  <2>9. x # y
    BY <2>6, <2>8
  <2>10. PICK U : U = T \ {y}
    OBVIOUS
  <2>11. PICK V : V = T \ {x}
    OBVIOUS
  <2>12. PICK W : W = T \ {x, y}
    OBVIOUS
  <2>13. /\ U \in SUBSET S /\ V \in SUBSET S /\ W \in SUBSET S /\ x \in U /\ y \in V
         /\ U \ {x} = W /\ V \ {y} = W /\ U \subseteq T /\ V \subseteq T /\ U # T /\ V # T
    BY <2>5, <2>6, <2>7, <2>9, <2>10, <2>11, <2>12
  <2>14. U \notin B /\ V \notin B
    BY <2>4, <2>13
  <2>15. g[U] = f[x] + g[W] /\ g[V] = f[y] + g[W]
    BY <2>1, <2>13, <2>14
  <2>16. g[W] \in Int /\ f[x] \in Int /\ f[y] \in Int
    BY <1>2, <2>5, <2>6, <2>7, <2>13
  <2> QED
    BY <2>6, <2>8, <2>10, <2>11, <2>15, <2>16
<1> QED
  BY <1>2, <1>3, <1>4 DEF Totals

\* Two totals of the same agree.
LEMMA TotalsAgree ==
  ASSUME NEW S, IsFiniteSet(S), NEW f, NEW e, \A x \in S : f[x] = e[x],
         NEW g, NEW h, Totals(g, f, S), Totals(h, e, S)
  PROVE  g[S] = h[S]
<1>1. PICK B : B = {T \in SUBSET S : g[T] # h[T]}
  OBVIOUS
<1>2. SUFFICES ASSUME B # {} PROVE FALSE
  BY <1>1
<1>3. B \in SUBSET SUBSET S
  BY <1>1
<1>4. PICK T \in B : \A U \in B : U \subseteq T => U = T
  BY <1>2, <1>3, LeastSubset
<1>5. T \in SUBSET S /\ g[T] # h[T]
  BY <1>1, <1>4
<1>6. g[{}] = 0 /\ h[{}] = 0
  BY DEF Totals
<1>7. PICK x \in T : TRUE
  BY <1>5, <1>6
<1>8. T \ {x} \in SUBSET S /\ T \ {x} \notin B
  BY <1>4, <1>5
<1>9. g[T \ {x}] = h[T \ {x}] /\ f[x] = e[x]
  BY <1>1, <1>5, <1>8
<1>10. g[T] = f[x] + g[T \ {x}] /\ h[T] = e[x] + h[T \ {x}]
  BY <1>5 DEF Totals
<1> QED
  BY <1>5, <1>9, <1>10

\* A total of fewer numbers is no greater.
LEMMA TotalsGrow ==
  ASSUME NEW S, IsFiniteSet(S), NEW f, \A x \in S : f[x] \in Nat, NEW g, Totals(g, f, S),
         NEW R \in SUBSET S
  PROVE  g[R] <= g[S]
<1>1. \A T \in SUBSET S : g[T] \in Int
  BY DEF Totals
<1>2. PICK B : B = {T \in SUBSET S : R \subseteq T /\ ~(g[R] <= g[T])}
  OBVIOUS
<1>3. SUFFICES ASSUME B # {} PROVE FALSE
  BY <1>2
<1>4. B \in SUBSET SUBSET S
  BY <1>2
<1>5. PICK T \in B : \A U \in B : U \subseteq T => U = T
  BY <1>3, <1>4, LeastSubset
<1>6. T \in SUBSET S /\ R \subseteq T /\ ~(g[R] <= g[T])
  BY <1>2, <1>5
<1>7. T # R
  BY <1>1, <1>6
<1>8. PICK x \in T : x \notin R
  BY <1>6, <1>7
<1>9. T \ {x} \in SUBSET S /\ R \subseteq T \ {x} /\ T \ {x} \notin B
  BY <1>5, <1>6, <1>8
<1>10. g[R] <= g[T \ {x}]
  BY <1>2, <1>9
<1>11. g[T] = f[x] + g[T \ {x}] /\ f[x] \in Nat
  BY <1>6 DEF Totals
<1>12. g[R] \in Int /\ g[T \ {x}] \in Int
  BY <1>1, <1>9
<1> QED
  BY <1>6, <1>10, <1>11, <1>12

\* A total is one of every smaller set too.
LEMMA TotalsRestrict ==
  ASSUME NEW S, NEW f, NEW g, Totals(g, f, S), NEW R \in SUBSET S
  PROVE  Totals(g, f, R)
BY DEF Totals

\* The sum of a function.
SumOf(f, S) == MapThenSumSet(LAMBDA x : f[x], S)

\* MapThenSumSet gives the total.
LEMMA SumIsTotal ==
  ASSUME NEW S, IsFiniteSet(S), NEW f, \A x \in S : f[x] \in Int
  PROVE  \E g : Totals(g, f, S) /\ SumOf(f, S) = g[S]
<1>1. SumOf(f, S) = (CHOOSE g : SumsUp(g, f, S))[S]
  BY Zenon DEF SumOf, MapThenSumSet, MapThenFoldSet, Taken, SumsUp
<1>2. PICK g : g = CHOOSE h : SumsUp(h, f, S)
  OBVIOUS
<1>3. SumsUp(g, f, S)
  BY <1>2, SumExists, Zenon
<1>4. Totals(g, f, S)
  BY <1>3, SumTotals
<1> QED
  BY <1>1, <1>2, <1>4, Zenon

-----------------------------------------------------------------------------
(* The balances.                                                           *)

\* Two sums of the same are equal.
LEMMA SumSame ==
  ASSUME NEW S, IsFiniteSet(S), NEW f, NEW e, \A x \in S : f[x] \in Int /\ f[x] = e[x]
  PROVE  SumOf(f, S) = SumOf(e, S)
<1>1. PICK g : Totals(g, f, S) /\ SumOf(f, S) = g[S]
  BY SumIsTotal
<1>2. \A x \in S : e[x] \in Int
  OBVIOUS
<1>3. PICK h : Totals(h, e, S) /\ SumOf(e, S) = h[S]
  BY <1>2, SumIsTotal
<1> QED
  BY <1>1, <1>3, TotalsAgree

\* One more adds its number.
LEMMA SumMore ==
  ASSUME NEW S, IsFiniteSet(S), NEW x, x \notin S, NEW f, \A y \in S \union {x} : f[y] \in Int
  PROVE  SumOf(f, S \union {x}) = SumOf(f, S) + f[x]
<1>1. PICK R : R = S \union {x}
  OBVIOUS
<1>2. IsFiniteSet(R) /\ S \in SUBSET R /\ x \in R /\ R \ {x} = S
  BY <1>1, FS_AddElement
<1>3. \A y \in R : f[y] \in Int
  BY <1>1
<1>4. PICK g : Totals(g, f, R) /\ SumOf(f, R) = g[R]
  BY <1>2, <1>3, SumIsTotal
<1>5. PICK h : Totals(h, f, S) /\ SumOf(f, S) = h[S]
  BY SumIsTotal
<1>6. Totals(g, f, S)
  BY <1>2, <1>4, TotalsRestrict
<1>7. g[S] = h[S]
  BY <1>5, <1>6, TotalsAgree
<1>8. g[R] = f[x] + g[S] /\ g[S] \in Int /\ f[x] \in Int
  BY <1>2, <1>3, <1>4 DEF Totals
<1> QED
  BY <1>1, <1>4, <1>5, <1>7, <1>8

\* Fewer numbers have no greater sum.
LEMMA SumLess ==
  ASSUME NEW S, IsFiniteSet(S), NEW R \in SUBSET S, NEW f, \A x \in S : f[x] \in Nat
  PROVE  SumOf(f, R) <= SumOf(f, S)
<1>1. IsFiniteSet(R)
  BY FS_Subset
<1>2. PICK g : Totals(g, f, S) /\ SumOf(f, S) = g[S]
  BY SumIsTotal
<1>3. PICK h : Totals(h, f, R) /\ SumOf(f, R) = h[R]
  BY <1>1, SumIsTotal
<1>4. Totals(g, f, R)
  BY <1>2, TotalsRestrict
<1>5. g[R] = h[R]
  BY <1>1, <1>3, <1>4, TotalsAgree
<1>6. g[R] <= g[S]
  BY <1>2, TotalsGrow
<1> QED
  BY <1>2, <1>3, <1>5, <1>6

\* The transfers that the chain took, and what each was for.
Transfers == {TransferOf(p) : p \in Paid}
UnitsOf == [t \in (1..MaxPayments) \X {3} |-> asked[t[1]]]

\* The low part of the pending balance is kept within the search by the count of credits; both
\* parts together are what arrived since they were applied last, and all that ever arrived is
\* the sum over the transfers.
BalanceInv ==
  /\ account \in [key : {Patron}, lo : Nat, hi : Nat, credits : 0..MaxCredits,
                  available : [value : Int, key : {Patron}]]
  /\ arrived \in [pending : Nat, all : Nat]
  /\ account.lo <= account.credits * (LoRange - 1)
  /\ account.lo + account.hi * LoRange = arrived.pending
  /\ account.available.value = arrived.all - arrived.pending
  /\ SumOf(UnitsOf, Transfers) = arrived.all

\* The transfers are finitely many, one per payment, each of the units that were asked for.
LEMMA TransfersAreFinite ==
  ASSUME LedgerInv
  PROVE  /\ IsFiniteSet(Paid) /\ IsFiniteSet(Transfers)
         /\ Cardinality(Transfers) = Cardinality(Paid)
         /\ \A t \in Transfers : /\ t \in (1..MaxPayments) \X {3}
                                 /\ UnitsOf[t] = asked[t[1]] /\ UnitsOf[t] \in Nat
<1>1. Paid \subseteq 1..MaxPayments
  BY DEF Paid, LedgerInv, LedgerTypes
<1>2. IsFiniteSet(Paid)
  <2>1. IsFiniteSet(1..MaxPayments)
    BY FS_Interval, PaymentsAssumption
  <2> QED
    BY <1>1, <2>1, FS_Subset
<1>3. PICK f : f = [p \in Paid |-> TransferOf(p)]
  OBVIOUS
<1>4. f \in Bijection(Paid, Transfers)
  <2>1. \A p, q : TransferOf(p) = TransferOf(q) => p = q
    BY DEF TransferOf
  <2>2. \A t \in Transfers : \E p \in Paid : t = TransferOf(p)
    BY DEF Transfers
  <2>3. \A p \in Paid : TransferOf(p) \in Transfers
    BY DEF Transfers
  <2>4. f \in [Paid -> Transfers]
    BY <1>3, <2>3
  <2>5. f \in Injection(Paid, Transfers)
    BY <1>3, <2>1, <2>4 DEF Injection, IsInjective
  <2>6. f \in Surjection(Paid, Transfers)
    BY <1>3, <2>2, <2>4 DEF Surjection
  <2> QED
    BY <2>5, <2>6 DEF Bijection
<1>5. IsFiniteSet(Transfers) /\ Cardinality(Transfers) = Cardinality(Paid)
  BY <1>2, <1>4, FS_Bijection DEF ExistsBijection
<1>6. ASSUME NEW t \in Transfers
      PROVE  t \in (1..MaxPayments) \X {3} /\ UnitsOf[t] = asked[t[1]] /\ UnitsOf[t] \in Nat
  <2>1. PICK p \in Paid : t = <<p, 3>>
    BY DEF Transfers, TransferOf
  <2>2. asked[p] \in Amounts /\ p \in 1..MaxPayments
    BY PaidIsATransfer
  <2>3. asked[p] \in Nat
    BY <2>2, PartsOfAnAmount
  <2> QED
    BY <2>1, <2>2, <2>3 DEF UnitsOf
<1> QED
  BY <1>2, <1>5, <1>6

\* A payment is paid from when its third transaction lands.
LEMMA PaidAfter ==
  ASSUME LedgerTypes, NEW p \in 1..MaxPayments, NEW ok \in BOOLEAN,
         NEW instructions \in InstructionLists, Lands(p, instructions, ok)
  PROVE  /\ Len(ledger[p]) = 2 => p \notin Paid
         /\ Paid' = IF Len(ledger[p]) = 2 /\ ok THEN Paid \union {p} ELSE Paid
<1>1. /\ ledger' \in [1..MaxPayments -> Seq([ok : BOOLEAN, instructions : InstructionLists])]
      /\ \A q \in 1..MaxPayments : q # p => ledger'[q] = ledger[q]
      /\ Len(ledger[p]) \in Nat /\ Len(ledger'[p]) = Len(ledger[p]) + 1
      /\ \A i \in 1..Len(ledger[p]) : ledger'[p][i] = ledger[p][i]
      /\ ledger'[p][Len(ledger[p]) + 1].ok = ok
  BY LandsGrows
<1>2. DOMAIN ledger = 1..MaxPayments /\ DOMAIN ledger' = 1..MaxPayments
  BY <1>1 DEF LedgerTypes
<1>3. /\ \A q : q \in Paid <=> q \in 1..MaxPayments /\ Len(ledger[q]) >= 3 /\ ledger[q][3].ok
      /\ \A q : q \in Paid' <=> q \in 1..MaxPayments /\ Len(ledger'[q]) >= 3 /\ ledger'[q][3].ok
  BY <1>2 DEF Paid
<1>4. \A q : q # p => (q \in Paid' <=> q \in Paid)
  BY <1>1, <1>3
<1>5. PICK n \in Nat : n = Len(ledger[p]) /\ Len(ledger'[p]) = n + 1
  BY <1>1
<1>6. ASSUME n = 2 PROVE p \notin Paid /\ (p \in Paid' <=> ok)
  <2>1. ~(Len(ledger[p]) >= 3) /\ Len(ledger'[p]) >= 3 /\ Len(ledger[p]) + 1 = 3
    BY <1>5, <1>6
  <2>2. ledger'[p][3].ok = ok
    BY <1>1, <2>1
  <2> QED
    BY <1>3, <2>1, <2>2, Zenon
<1>7. n < 2 => p \notin Paid /\ p \notin Paid'
  BY <1>3, <1>5
<1>8. n > 2 => (p \in Paid' <=> p \in Paid)
  BY <1>1, <1>3, <1>5
<1>9. n = 2 /\ ok => Paid' = Paid \union {p}
  BY <1>4, <1>6, Zenon
<1>10. p \in Paid' <=> p \in Paid \/ (n = 2 /\ ok)
  <2>1. n = 2 \/ n < 2 \/ n > 2
    OBVIOUS
  <2>2. n = 2 => (p \in Paid' <=> p \in Paid \/ (n = 2 /\ ok))
    BY <1>6, Zenon
  <2>3. n < 2 => n # 2 /\ (p \in Paid' <=> p \in Paid)
    BY <1>7
  <2>4. n > 2 => n # 2 /\ (p \in Paid' <=> p \in Paid)
    BY <1>8
  <2> QED
    BY <2>1, <2>2, <2>3, <2>4, Zenon
<1>11. ~(n = 2 /\ ok) => Paid' = Paid
  <2>1. ~(n = 2 /\ ok) => (p \in Paid' <=> p \in Paid)
    BY <1>10, Zenon
  <2>2. \A q : ~(n = 2 /\ ok) => (q \in Paid' <=> q \in Paid)
    BY <1>4, <2>1, Zenon
  <2>3. SUFFICES ASSUME ~(n = 2 /\ ok) PROVE Paid' = Paid
    OBVIOUS
  <2> QED
    BY <2>2, <2>3
<1> QED
  BY <1>5, <1>6, <1>9, <1>11, Zenon

\* A step that moves no units and changes no payment that was made.
LEMMA BalanceStays ==
  ASSUME LedgerInv, BalanceInv, account' = account, arrived' = arrived, Paid' = Paid,
         \A p \in Paid : asked'[p] = asked[p]
  PROVE  BalanceInv'
<1>1. Transfers' = Transfers
  BY DEF Transfers, TransferOf
<1>2. PICK e : e = UnitsOf'
  OBVIOUS
<1>3. \A t \in Transfers : UnitsOf[t] \in Int /\ UnitsOf[t] = e[t]
  <2> SUFFICES ASSUME NEW t \in Transfers PROVE UnitsOf[t] \in Int /\ UnitsOf[t] = e[t]
    OBVIOUS
  <2>1. t \in (1..MaxPayments) \X {3} /\ UnitsOf[t] = asked[t[1]] /\ UnitsOf[t] \in Nat
    BY TransfersAreFinite
  <2>2. PICK p \in Paid : t = <<p, 3>>
    BY DEF Transfers, TransferOf
  <2>3. e[t] = asked'[t[1]]
    BY <1>2, <2>1 DEF UnitsOf
  <2> QED
    BY <2>1, <2>2, <2>3
<1>4. SumOf(UnitsOf, Transfers) = SumOf(e, Transfers)
  BY <1>3, TransfersAreFinite, SumSame
<1>5. SumOf(UnitsOf, Transfers)' = SumOf(e, Transfers)
  BY <1>1, <1>2
<1> QED
  BY <1>4, <1>5 DEF BalanceInv

\* The token program takes a transfer.
LEMMA PayKeepsBalance ==
  ASSUME LedgerInv, BalanceInv, NEW p \in 1..MaxPayments, Pay(p, TRUE)
  PROVE  BalanceInv'
<1>0. GoesOn(p, 3) /\ Lands(p, BuildContribution(p, asked[p])[3], TRUE)
  BY DEF Pay
<1>l. Len(ledger[p]) = 2
  BY <1>0 DEF GoesOn
<1>1. Len(ledger[p]) = 2 /\ Lands(p, BuildContribution(p, asked[p])[3], TRUE)
  BY <1>0, <1>l, Zenon
<1>2. ledger[p] # <<>> /\ HistoryOf(p) /\ LedgerTypes
  BY <1>1 DEF LedgerInv
<1>3. asked[p] \in Amounts
  BY <1>2 DEF HistoryOf
<1>4. BuildContribution(p, asked[p])[3] \in InstructionLists
  BY <1>3, 3 \in 1..4 DEF InstructionLists
<1>5. p \notin Paid /\ Paid' = Paid \union {p}
  BY <1>1, <1>2, <1>4, PaidAfter
<1>6. PICK lo, hi, units : lo = asked[p] % LoRange /\ hi = asked[p] \div LoRange /\ units = asked[p]
  OBVIOUS
<1>7. /\ units \in Nat /\ lo \in Nat /\ hi \in Nat /\ lo < LoRange /\ lo + hi * LoRange = units
  BY <1>3, <1>6, PartsOfAnAmount
<1>8. /\ account' = [account EXCEPT !.lo = @ + lo, !.hi = @ + hi, !.credits = @ + 1]
      /\ arrived' = [pending |-> arrived.pending + units, all |-> arrived.all + units]
      /\ account.credits < MaxCredits /\ asked' = asked
  BY <1>6 DEF Pay
<1>9. /\ account \in [key : {Patron}, lo : Nat, hi : Nat, credits : 0..MaxCredits,
                      available : [value : Int, key : {Patron}]]
      /\ arrived \in [pending : Nat, all : Nat]
  BY DEF BalanceInv
<1>10. /\ account'.lo = account.lo + lo /\ account'.hi = account.hi + hi
       /\ account'.credits = account.credits + 1 /\ account'.available = account.available
       /\ account'.key = account.key
       /\ account' = [key |-> account.key, lo |-> account.lo + lo, hi |-> account.hi + hi,
                      credits |-> account.credits + 1, available |-> account.available]
  BY <1>8, <1>9
<1>11. arrived'.pending = arrived.pending + units /\ arrived'.all = arrived.all + units
  BY <1>8
<1>12. /\ account' \in [key : {Patron}, lo : Nat, hi : Nat, credits : 0..MaxCredits,
                        available : [value : Int, key : {Patron}]]
       /\ arrived' \in [pending : Nat, all : Nat]
  BY <1>7, <1>8, <1>9, <1>10, PaymentsAssumption
<1>13. account'.lo <= account'.credits * (LoRange - 1)
  <2>1. PICK a, c, m : a = account.lo /\ c = account.credits /\ m = LoRange - 1
    OBVIOUS
  <2>2. a \in Nat /\ c \in Nat /\ m \in Nat /\ a <= c * m /\ lo <= m
    BY <1>7, <1>9, <2>1, CiphertextsAssumption DEF BalanceInv
  <2>3. (c + 1) * m = c * m + m /\ c * m \in Nat
    BY <2>2, SMTT(30)
  <2>4. a + lo <= (c + 1) * m
    BY <1>7, <2>2, <2>3
  <2> QED
    BY <1>10, <2>1, <2>4
<1>14. account'.lo + account'.hi * LoRange = arrived'.pending
  <2>1. PICK a, h : a = account.lo /\ h = account.hi
    OBVIOUS
  <2>2. a \in Nat /\ h \in Nat /\ a + h * LoRange = arrived.pending
    BY <1>9, <2>1 DEF BalanceInv
  <2>3. LoRange \in Nat
    BY CiphertextsAssumption
  <2>4. (h + hi) * LoRange = h * LoRange + hi * LoRange /\ h * LoRange \in Nat /\ hi * LoRange \in Nat
    BY <1>7, <2>2, <2>3, SMTT(30)
  <2>5. (a + lo) + (h + hi) * LoRange = arrived.pending + units
    BY <1>7, <2>2, <2>4
  <2> QED
    BY <1>10, <1>11, <2>1, <2>5
<1>15. account'.available.value = arrived'.all - arrived'.pending
  BY <1>7, <1>9, <1>10, <1>11 DEF BalanceInv
<1>16. SumOf(UnitsOf', Transfers') = arrived'.all
  <2>1. PICK t : t = TransferOf(p)
    OBVIOUS
  <2>2. Transfers' = Transfers \union {t} /\ t \notin Transfers
    BY <1>5, <2>1 DEF Transfers, TransferOf
  <2>3. UnitsOf' = UnitsOf
    BY <1>8 DEF UnitsOf
  <2>4. UnitsOf[t] = units
    BY <1>6, <2>1 DEF UnitsOf, TransferOf
  <2>5. IsFiniteSet(Transfers) /\ \A x \in Transfers : UnitsOf[x] \in Nat
    BY TransfersAreFinite
  <2>6. \A x \in Transfers \union {t} : UnitsOf[x] \in Int
    BY <1>7, <2>4, <2>5
  <2>7. SumOf(UnitsOf, Transfers \union {t}) = SumOf(UnitsOf, Transfers) + UnitsOf[t]
    BY <2>2, <2>5, <2>6, SumMore
  <2>8. SumOf(UnitsOf, Transfers) = arrived.all
    BY DEF BalanceInv
  <2> QED
    BY <1>11, <2>2, <2>3, <2>4, <2>7, <2>8
<1>17. SumOf(UnitsOf, Transfers)' = arrived'.all
  BY <1>16
<1> QED
  BY <1>12, <1>13, <1>14, <1>15, <1>17 DEF BalanceInv

\* What the owner reads of the pending balance: both parts, or nothing.
LEMMA PendingIsRead ==
  ASSUME BalanceInv
  PROVE  DecryptPending(Patron, account) = IF account.hi < Search THEN Ok(arrived.pending)
                                           ELSE Fail("wrong-key")
<1>1. PICK lo, hi, credits : lo = account.lo /\ hi = account.hi /\ credits = account.credits
  OBVIOUS
<1>2. /\ lo \in Nat /\ hi \in Nat /\ credits \in 0..MaxCredits /\ account.key = Patron
      /\ lo <= credits * (LoRange - 1) /\ lo + hi * LoRange = arrived.pending
  BY <1>1 DEF BalanceInv
<1>3. lo < Search
  <2>1. PICK m : m = LoRange - 1
    OBVIOUS
  <2>2. m \in Nat /\ MaxCredits \in Nat /\ MaxCredits * m < Search /\ Search \in Nat
    BY <2>1, PaymentsAssumption, CiphertextsAssumption
  <2>3. credits \in Nat /\ credits <= MaxCredits /\ lo <= credits * m
    BY <1>2, <2>1, <2>2
  <2>4. credits * m <= MaxCredits * m /\ credits * m \in Nat /\ MaxCredits * m \in Nat
    BY <2>2, <2>3, SMTT(30)
  <2> QED
    BY <1>2, <2>2, <2>3, <2>4
<1>4. Logarithm(Patron, Ciphertext(account.lo, account.key)) = lo
  BY <1>1, <1>2, <1>3 DEF Logarithm, Ciphertext
<1>5. Logarithm(Patron, Ciphertext(account.hi, account.key)) = IF hi < Search THEN hi ELSE NotFound
  BY <1>1, <1>2 DEF Logarithm, Ciphertext
<1>6. DecryptPending(Patron, account) =
        Parts(Patron, Ciphertext(account.lo, account.key), Ciphertext(account.hi, account.key))
  BY DEF DecryptPending
<1>7. CASE hi < Search
  BY <1>1, <1>2, <1>4, <1>5, <1>6, <1>7 DEF Parts, NotFound
<1>8. CASE ~(hi < Search)
  BY <1>1, <1>2, <1>4, <1>5, <1>6, <1>8 DEF Parts
<1> QED
  BY <1>7, <1>8

\* The owner moves what was read of the pending balance into the available one.
LEMMA ApplyKeepsBalance ==
  ASSUME LedgerInv, BalanceInv, ApplyPending
  PROVE  BalanceInv'
<1>1. PICK units : units = DecryptPending(Patron, account).units
  OBVIOUS
<1>2. /\ DecryptPending(Patron, account).ok
      /\ account' = [account EXCEPT !.lo = 0, !.hi = 0, !.credits = 0,
                                    !.available.value = @ + units]
      /\ arrived' = [arrived EXCEPT !.pending = 0]
      /\ UNCHANGED <<ledger, asked>>
  BY <1>1, Zenon DEF ApplyPending
<1>3. units = arrived.pending
  BY <1>1, <1>2, PendingIsRead DEF Ok, Fail
<1>4. /\ account \in [key : {Patron}, lo : Nat, hi : Nat, credits : 0..MaxCredits,
                      available : [value : Int, key : {Patron}]]
      /\ arrived \in [pending : Nat, all : Nat]
      /\ account.available.value = arrived.all - arrived.pending
      /\ SumOf(UnitsOf, Transfers) = arrived.all
  BY DEF BalanceInv
<1>5. PICK old : old = account.available
  OBVIOUS
<1>6. old \in [value : Int, key : {Patron}]
  BY <1>4, <1>5
<1>7. PICK new : new = [old EXCEPT !.value = @ + units]
  OBVIOUS
<1>8. new \in [value : Int, key : {Patron}] /\ new.value = old.value + units
  BY <1>3, <1>4, <1>6, <1>7
<1>9. account' = [account EXCEPT !.lo = 0, !.hi = 0, !.credits = 0, !.available = new]
  BY <1>2, <1>4, <1>5, <1>7
<1>10. /\ account'.lo = 0 /\ account'.hi = 0 /\ account'.credits = 0 /\ account'.available = new
       /\ account' \in [key : {Patron}, lo : Nat, hi : Nat, credits : 0..MaxCredits,
                        available : [value : Int, key : {Patron}]]
  <2>1. 0 \in 0..MaxCredits /\ 0 \in Nat
    BY PaymentsAssumption
  <2> QED
    BY <1>4, <1>8, <1>9, <2>1
<1>11. arrived' \in [pending : Nat, all : Nat] /\ arrived'.pending = 0 /\ arrived'.all = arrived.all
  BY <1>2, <1>4
<1>12. account'.available.value = arrived'.all - arrived'.pending
  BY <1>3, <1>4, <1>5, <1>8, <1>10, <1>11
<1>13. account'.lo <= account'.credits * (LoRange - 1)
  BY <1>10, CiphertextsAssumption
<1>14. account'.lo + account'.hi * LoRange = arrived'.pending
  BY <1>10, <1>11, CiphertextsAssumption
<1>15. UnitsOf' = UnitsOf /\ Transfers' = Transfers
  BY <1>2 DEF UnitsOf, Transfers, Paid, TransferOf
<1>16. SumOf(UnitsOf, Transfers)' = arrived'.all
  BY <1>4, <1>11, <1>15
<1> QED
  BY <1>10, <1>11, <1>12, <1>13, <1>14, <1>16 DEF BalanceInv

\* Nothing has arrived at the start.
LEMMA InitBalanceInv == Init => BalanceInv
<1> SUFFICES ASSUME Init PROVE BalanceInv
  OBVIOUS
<1>1. account = [key |-> Patron, lo |-> 0, hi |-> 0, credits |-> 0,
                 available |-> [value |-> 0, key |-> Patron]]
  BY DEF Init, NewAccount, Ciphertext
<1>2. arrived = [pending |-> 0, all |-> 0]
  BY DEF Init
<1>3. 0 \in 0..MaxCredits
  BY PaymentsAssumption
<1>4. Transfers = {}
  BY DEF Init, Transfers, Paid
<1>5. SumOf(UnitsOf, Transfers) = 0
  <2>1. IsFiniteSet({})
    BY FS_EmptySet
  <2>2. PICK g : Totals(g, UnitsOf, {}) /\ SumOf(UnitsOf, {}) = g[{}]
    BY <2>1, SumIsTotal
  <2> QED
    BY <1>4, <2>2 DEF Totals
<1> QED
  BY <1>1, <1>2, <1>3, <1>5, CiphertextsAssumption DEF BalanceInv

\* Every step keeps the count.
LEMMA StepKeepsBalance == LedgerInv /\ BalanceInv /\ [Next]_vars => BalanceInv'
<1> SUFFICES ASSUME LedgerInv, BalanceInv, [Next]_vars PROVE BalanceInv'
  OBVIOUS
<1>0. LedgerTypes /\ Paid \subseteq 1..MaxPayments /\ DOMAIN asked = 1..MaxPayments
  BY DEF LedgerInv, LedgerTypes, Paid
<1>1. ASSUME UNCHANGED <<ledger, account, asked, arrived>> PROVE BalanceInv'
  <2>1. Paid' = Paid
    BY <1>1 DEF Paid
  <2> QED
    BY <1>1, <2>1, BalanceStays
<1>2. ASSUME NEW p \in 1..MaxPayments, NEW ok \in BOOLEAN, NEW units \in Amounts,
             Contribute(p, units, ok)
      PROVE  BalanceInv'
  <2>1. /\ ledger[p] = <<>> /\ Lands(p, BuildContribution(p, units)[1], ok)
        /\ asked' = [asked EXCEPT ![p] = units] /\ UNCHANGED <<account, arrived>>
    BY <1>2 DEF Contribute, IsNext
  <2>2. BuildContribution(p, units)[1] \in InstructionLists
    BY 1 \in 1..4 DEF InstructionLists
  <2>3. Len(ledger[p]) = 0
    BY <2>1
  <2>4. Paid' = Paid
    BY <1>0, <2>1, <2>2, <2>3, PaidAfter
  <2>5. p \notin Paid
    BY <2>3 DEF Paid
  <2>6. \A q \in Paid : asked'[q] = asked[q]
    BY <1>0, <2>1, <2>5
  <2> QED
    BY <2>1, <2>4, <2>6, BalanceStays
<1>3. ASSUME NEW p \in 1..MaxPayments, NEW ok \in BOOLEAN, NEW step \in {2, 4},
             ContributeOn(p, step, ok)
      PROVE  BalanceInv'
  <2>1. /\ Len(ledger[p]) = step - 1 /\ Lands(p, BuildContribution(p, asked[p])[step], ok)
        /\ UNCHANGED <<account, asked, arrived>>
    BY <1>3 DEF ContributeOn, GoesOn
  <2>2. ledger[p] # <<>> /\ Len(ledger[p]) # 2 /\ step \in 1..4
    BY <2>1
  <2>3. asked[p] \in Amounts
    BY <2>2 DEF LedgerInv, HistoryOf
  <2>4. BuildContribution(p, asked[p])[step] \in InstructionLists
    BY <2>2, <2>3 DEF InstructionLists
  <2>5. Paid' = Paid
    BY <1>0, <2>1, <2>2, <2>4, PaidAfter
  <2> QED
    BY <2>1, <2>5, BalanceStays
<1>4. ASSUME NEW p \in 1..MaxPayments, NEW ok \in BOOLEAN, Pay(p, ok)
      PROVE  BalanceInv'
  <2>1. CASE ok = TRUE
    BY <1>4, <2>1, PayKeepsBalance
  <2>2. CASE ok = FALSE
    <3>0. /\ GoesOn(p, 3) /\ Lands(p, BuildContribution(p, asked[p])[3], FALSE)
          /\ UNCHANGED <<account, asked, arrived>>
      BY <1>4, <2>2 DEF Pay
    <3>l. Len(ledger[p]) = 2
      BY <3>0 DEF GoesOn
    <3>1. /\ Len(ledger[p]) = 2 /\ Lands(p, BuildContribution(p, asked[p])[3], FALSE)
          /\ UNCHANGED <<account, asked, arrived>>
      BY <3>0, <3>l, Zenon
    <3>2. ledger[p] # <<>>
      BY <3>1
    <3>3. asked[p] \in Amounts
      BY <3>2 DEF LedgerInv, HistoryOf
    <3>4. BuildContribution(p, asked[p])[3] \in InstructionLists
      BY <3>3, 3 \in 1..4 DEF InstructionLists
    <3>5. Paid' = Paid
      BY <1>0, <3>1, <3>4, PaidAfter
    <3> QED
      BY <3>1, <3>5, BalanceStays
  <2> QED
    BY <2>1, <2>2
<1>5. ASSUME NEW p \in 1..MaxPayments, NEW units \in OtherAmounts, Recreate(p, units)
      PROVE  BalanceInv'
  <2>0. GoesOn(p, 5) /\ UNCHANGED <<account, asked, arrived>>
    BY <1>5 DEF Recreate
  <2>4. Lands(p, OtherUse(p, units, "again"), TRUE)
    BY <1>5 DEF Recreate
  <2>5. Len(ledger[p]) = 4
    BY <2>0 DEF GoesOn
  <2>1. /\ Len(ledger[p]) = 4 /\ Lands(p, OtherUse(p, units, "again"), TRUE)
        /\ UNCHANGED <<account, asked, arrived>>
    BY <2>0, <2>4, <2>5, Zenon
  <2>2. OtherUse(p, units, "again") \in InstructionLists
    BY PaymentsAssumption DEF InstructionLists
  <2>6. Len(ledger[p]) # 2
    BY <2>5
  <2>7. PICK ok \in BOOLEAN : ok = TRUE
    OBVIOUS
  <2>8. Lands(p, OtherUse(p, units, "again"), ok)
    BY <2>4, <2>7
  <2>3. Paid' = Paid
    BY <1>0, <2>2, <2>6, <2>8, PaidAfter
  <2> QED
    BY <2>1, <2>3, BalanceStays
<1>b. ASSUME NEW p \in 1..MaxPayments, NEW units \in OtherAmounts, UseBefore(p, units)
      PROVE  BalanceInv'
  BY <1>1, <1>b DEF UseBefore
<1>6. ASSUME ApplyPending PROVE BalanceInv'
  BY <1>6, ApplyKeepsBalance
<1>7. ASSUME NEW signature \in Landed, IndexTransfer(signature) PROVE BalanceInv'
  BY <1>1, <1>7 DEF IndexTransfer
<1>8. ASSUME UNCHANGED paymentVars PROVE BalanceInv'
  BY <1>1, <1>8 DEF paymentVars
<1>9. UNCHANGED vars => UNCHANGED paymentVars
  BY DEF vars
<1> QED
  BY <1>2, <1>3, <1>4, <1>5, <1>b, <1>6, <1>7, <1>8, <1>9 DEF Next

\* The sum over the index: each row is decrypted, to the units of its transfer where no account was
\* used before.
LEMMA RowsAreSummed ==
  ASSUME LedgerInv
  PROVE  /\ DOMAIN rows \subseteq Transfers
         /\ ReceivedTotals(Patron).failed = 0
         /\ ReceivedTotals(Patron).decrypted = Cardinality(DOMAIN rows)
         /\ (\A t \in DOMAIN rows : used[t[1]] = Nothing) =>
              ReceivedTotals(Patron).lifetime = SumOf(UnitsOf, DOMAIN rows)
<1>1. DOMAIN rows \subseteq Transfers
  BY DEF LedgerInv, LedgerTypes, RowsAreOfPayments, Transfers, TransferOf, Paid
<1>2. ASSUME NEW t \in DOMAIN rows
      PROVE  /\ DecryptContribution(Patron, rows[t], Destination).ok
             /\ used[t[1]] = Nothing =>
                  DecryptContribution(Patron, rows[t], Destination).units = UnitsOf[t]
  <2>1. PICK p \in 1..MaxPayments : t = <<p, 3>> /\ rows[t] = Row(p) /\ 3 <= Len(ledger[p])
    BY DEF LedgerInv, RowsAreOfPayments
  <2>2. FirstProven(p) \in Amounts
    <3>1. asked[p] \in Amounts
      BY <2>1 DEF LedgerInv, HistoryOf
    <3> QED
      BY <3>1, FirstProvenIsAnAmount
  <2>3. /\ Row(p).lo = Grouped(FirstProven(p) % LoRange, Keys, <<p, FirstUse(p)>>)
        /\ Row(p).hi = Grouped(FirstProven(p) \div LoRange, Keys, <<p, FirstUse(p)>>)
    BY RowContext
  <2>4. Keys[Destination] = Patron
    BY DEF Keys, Destination
  <2>5. DecryptContribution(Patron, Row(p), Destination) = Ok(FirstProven(p))
    BY <2>2, <2>3, <2>4, DecryptContext
  <2>6. used[p] = Nothing => FirstProven(p) = UnitsOf[t]
    BY <2>1 DEF UnitsOf, FirstProven
  <2> QED
    BY <2>1, <2>5, <2>6 DEF Ok
<1>3. PICK S : S = DOMAIN rows
  OBVIOUS
<1>4. {t \in DOMAIN rows : DecryptContribution(Patron, rows[t], Destination).ok} = S
  BY <1>2, <1>3
<1>5. /\ ReceivedTotals(Patron).lifetime =
           MapThenSumSet(LAMBDA t : DecryptContribution(Patron, rows[t], Destination).units, S)
      /\ ReceivedTotals(Patron).decrypted = Cardinality(S)
      /\ ReceivedTotals(Patron).failed = Cardinality(DOMAIN rows \ S)
  BY <1>4, Zenon DEF ReceivedTotals
<1>6. ASSUME \A t \in DOMAIN rows : used[t[1]] = Nothing
      PROVE  ReceivedTotals(Patron).lifetime = SumOf(UnitsOf, DOMAIN rows)
  <2>1. /\ IsFiniteSet(S) /\ \A t \in S : UnitsOf[t] \in Int
        /\ \A t \in S : DecryptContribution(Patron, rows[t], Destination).units = UnitsOf[t]
    BY <1>1, <1>2, <1>3, <1>6, TransfersAreFinite, FS_Subset
  <2>2. MapThenSumSet(LAMBDA t : DecryptContribution(Patron, rows[t], Destination).units, S)
          = SumOf(UnitsOf, S)
    <3> DEFINE Sums(g) == g = [T \in SUBSET S |-> IF T = {} THEN 0 ELSE
                 DecryptContribution(Patron, rows[Taken(T)], Destination).units + g[T \ {Taken(T)}]]
    <3>1. MapThenSumSet(LAMBDA t : DecryptContribution(Patron, rows[t], Destination).units, S)
            = (CHOOSE g : Sums(g))[S]
      BY Zenon DEF MapThenSumSet, MapThenFoldSet, Taken
    <3>2. ASSUME NEW g PROVE Sums(g) <=> SumsUp(g, UnitsOf, S)
      <4>1. \A T \in SUBSET S : T # {} =>
              DecryptContribution(Patron, rows[Taken(T)], Destination).units = UnitsOf[Taken(T)]
        BY <2>1, TakenIsIn
      <4>2. [T \in SUBSET S |-> IF T = {} THEN 0 ELSE
                 DecryptContribution(Patron, rows[Taken(T)], Destination).units + g[T \ {Taken(T)}]]
            = [T \in SUBSET S |-> IF T = {} THEN 0 ELSE UnitsOf[Taken(T)] + g[T \ {Taken(T)}]]
        BY <4>1
      <4> QED
        BY <4>2, Zenon DEF SumsUp
    <3> HIDE DEF Sums
    <3>3. PICK g : g = CHOOSE h : Sums(h)
      OBVIOUS
    <3>4. SumsUp(g, UnitsOf, S)
      <4>1. \E h : Sums(h)
        BY <2>1, <3>2, SumExists
      <4>2. Sums(g)
        BY <3>3, <4>1, Zenon
      <4> QED
        BY <3>2, <4>2
    <3>5. Totals(g, UnitsOf, S)
      BY <2>1, <3>4, SumTotals
    <3>6. PICK h : Totals(h, UnitsOf, S) /\ SumOf(UnitsOf, S) = h[S]
      BY <2>1, SumIsTotal
    <3>7. g[S] = h[S]
      BY <2>1, <3>5, <3>6, TotalsAgree
    <3> QED
      BY <3>1, <3>3, <3>6, <3>7, Zenon
  <2> QED
    BY <1>3, <1>5, <2>2
<1>7. Cardinality(DOMAIN rows \ S) = 0
  BY <1>3, FS_EmptySet
<1> QED
  BY <1>1, <1>3, <1>5, <1>6, <1>7

\* What is shown of the balances and summed over the index is what the invariant counts.
LEMMA BalancesFollow == LedgerInv /\ BalanceInv => BalancesAddUp
<1> SUFFICES ASSUME LedgerInv, BalanceInv PROVE BalancesAddUp
  OBVIOUS
<1>1. Patron # NoKeys
  BY PaymentsAssumption
<1>2. /\ UseBalances(Patron).available = DecryptAvailable(Patron, account)
      /\ UseBalances(Patron).pending = DecryptPending(Patron, account)
  BY <1>1 DEF UseBalances
<1>3. DecryptAvailable(Patron, account) = Ok(arrived.all - arrived.pending)
  BY DEF BalanceInv, DecryptAvailable
<1>4. DecryptPending(Patron, account) = IF account.hi < Search THEN Ok(arrived.pending)
                                        ELSE Fail("wrong-key")
  BY PendingIsRead
<1>5. PICK R, S : R = DOMAIN rows /\ S = Transfers
  OBVIOUS
<1>6. /\ ReceivedTotals(Patron).failed = 0
      /\ ReceivedTotals(Patron).decrypted = Cardinality(R)
      /\ (\A t \in DOMAIN rows : used[t[1]] = Nothing) =>
           ReceivedTotals(Patron).lifetime = SumOf(UnitsOf, R)
      /\ R \in SUBSET S /\ SumOf(UnitsOf, S) = arrived.all
  BY <1>5, RowsAreSummed DEF BalanceInv
<1>7. /\ IsFiniteSet(S) /\ Cardinality(S) = Cardinality(Paid)
      /\ \A t \in S : UnitsOf[t] \in Nat
  BY <1>5, TransfersAreFinite
<1>8. SumOf(UnitsOf, R) <= arrived.all
  BY <1>6, <1>7, SumLess
<1>9. Cardinality(R) = Cardinality(Paid) => SumOf(UnitsOf, R) = arrived.all
  <2>1. Cardinality(R) = Cardinality(S) => R = S
    BY <1>6, <1>7, FS_Subset
  <2> QED
    BY <1>6, <1>7, <2>1
<1> QED
  BY <1>2, <1>3, <1>4, <1>6, <1>8, <1>9 DEF BalancesAddUp

\* useBalances, receivedTotals: the figures of the dashboard add up after any payments, however
\* far the index is, as long as it has no payment whose account was used before; and where a part of the
\* pending balance outgrows the search, which only the high one can, there is no figure instead of
\* a wrong one.
THEOREM BalancesAddUpCorrect == Spec => []BalancesAddUp
<1>1. Spec => [](LedgerInv /\ BalanceInv)
  BY InitLedgerInv, InitBalanceInv, StepKeepsLedgerInv, StepKeepsBalance, PTL DEF Spec
<1> QED
  BY <1>1, BalancesFollow, PTL
====
