------------------------------ MODULE Payments ------------------------------
(***************************************************************************)
(* A payment from the supporter's click to everyone who may read it.  The  *)
(* browser of KeySession lands a contribution as four transactions over a  *)
(* proof account that exists for it alone; the worker finds the ciphertext *)
(* for the recipient in the history of that account, which the supporter,  *)
(* who holds its key, may use before the contribution and again after it;  *)
(* creator, supporter and auditor decrypt what they find, and the          *)
(* supporter discloses an amount to a stranger.                            *)
(*                                                                         *)
(* Only what can be read is modelled: who pays fees and the retries are in *)
(* Relay and Support.  The history of an account fits into one answer of   *)
(* the node.                                                               *)
(***************************************************************************)
EXTENDS Ciphertexts, KeySession, SequencesExt, FiniteSetsExt

CONSTANTS Fan, Patron,  \* the supporter and the creator of the payments
          Auditor,      \* whose key the mint carries
          Amounts,      \* units of a payment
          OtherAmounts, \* units that its proof account is filled with otherwise
          MaxCredits,   \* maximumPendingBalanceCreditCounter: 2^16
          MaxPayments,  \* bound on the number of payments
          MaxUses       \* bound on the other uses of proof accounts

ASSUME PaymentsAssumption ==
  /\ Fan \in SessionWallets
  /\ {Patron, Auditor} \intersect {Fan, NoKeys} = {} /\ Patron # Auditor
  /\ Amounts \subseteq 1..(LoRange * Search - 1) /\ OtherAmounts \subseteq Amounts
  /\ MaxPayments \in Nat /\ MaxUses \in Nat
  /\ MaxCredits \in Nat \ {0} /\ MaxCredits * (LoRange - 1) < Search

VARIABLES ledger,   \* per proof account: the transactions that name it from its contribution on,
                    \* oldest first
          used,     \* and the units it was filled with before, Nothing for a fresh account
          account,  \* the patron's token account
          rows,     \* the index: transfer signature to recipient ciphertext
          asked,    \* history: the units of each payment
          arrived   \* history: the units in the pending balance, and those ever received

paymentVars == <<ledger, used, account, rows, asked, arrived>>
vars == <<paymentVars, sessionVars>>

Keys == <<Fan, Patron, Auditor>>
Nothing == 0

-----------------------------------------------------------------------------
\* Instructions of a contribution: getConfidentialTransferWithRecordInstructionPlan.
Plain(kind) == [kind |-> kind]
VerifyValidity(proofAccount, context) ==
  [kind |-> "validity", account |-> proofAccount, context |-> context]
Transfer(proofAccount, context) ==
  [kind |-> "transfer", validityAccount |-> proofAccount,
   auditorLo |-> UnderHandle(context.lo, AuditorHandle), commitmentLo |-> Commitment(context.lo),
   auditorHi |-> UnderHandle(context.hi, AuditorHandle), commitmentHi |-> Commitment(context.hi)]

\* buildContribution: setup, which the planner cuts in two, transfer and close.
BuildContribution(p, units) ==
  LET context == ValidityContext(units, Keys, <<p, "paid">>)
  IN  <<<<Plain("create"), Plain("equality")>>,
        <<VerifyValidity(p, context)>>,
        <<Transfer(p, context), Plain("pledge")>>,
        <<Plain("close")>>>>

\* Another use of the account by its owner, for the same readers; that it is closed after it
\* leaves nothing to read.
OtherUse(p, units, use) ==
  <<Plain("create"), VerifyValidity(p, ValidityContext(units, Keys, <<p, use>>))>>

\* A signature names a transaction by its account and its place in the history, in which 0 is the
\* use before the contribution.
Signatures == (DOMAIN ledger) \X (0..5)
Landed ==
  {s \in Signatures : IF s[2] = 0 THEN used[s[1]] # Nothing ELSE s[2] <= Len(ledger[s[1]])}
Wire(signature) ==
  LET p == signature[1]
  IN  IF signature[2] = 0 THEN [ok |-> TRUE, instructions |-> OtherUse(p, used[p], "before")]
                          ELSE ledger[p][signature[2]]
FirstOf(tx, kind) == SelectInSeq(tx.instructions, LAMBDA i : i.kind = kind)

-----------------------------------------------------------------------------
\* The worker's ciphertext.ts.
ValidityContextAddress(tx) == tx.instructions[FirstOf(tx, "transfer")].validityAccount

\* A failed transaction is read like any other.
Carries(tx, kind) == FirstOf(tx, kind) # 0
ExtractValidityContext(tx) == tx.instructions[FirstOf(tx, "validity")].context

\* Signatures as a node lists them: newest first.
SignaturesFor(proofAccount) ==
  Reverse((IF used[proofAccount] = Nothing THEN <<>> ELSE <<<<proofAccount, 0>>>>)
          \o [i \in DOMAIN ledger[proofAccount] |-> <<proofAccount, i>>])
AsListed(proofAccount) == SignaturesFor(proofAccount)   \* mutant: newest first
OldestFirst(proofAccount) == Reverse(SignaturesFor(proofAccount))

\* The place in the history of the proof that is taken.
ProofAt(history) == SelectInSeq(history, LAMBDA s : Carries(Wire(s), "validity"))
FetchRecipientCiphertext(signature) ==
  LET history == OldestFirst(ValidityContextAddress(Wire(signature)))
      proof == history[ProofAt(history)]
      context == ExtractValidityContext(Wire(proof))
  IN  [lo |-> context.lo, hi |-> context.hi, proofSig |-> proof]

-----------------------------------------------------------------------------
\* disclose.ts.  A zero-knowledge proof is the statement it proves; it verifies where the verifier
\* rebuilds that statement, and nobody makes one of a false statement.
Statement(key, ciphertext, units) == [key |-> key, ciphertext |-> ciphertext, units |-> units]

RecipientHandle == Destination   \* mutant: the amount is read as the recipient reads it
DisclosedHandle == Source
CreateDisclosure(key, transferSignature, proofSignature) ==
  LET context == ExtractValidityContext(Wire(proofSignature))
      decrypted == DecryptContribution(key, context, DisclosedHandle)
  IN  IF ~decrypted.ok THEN decrypted
      ELSE [ok |-> TRUE, transferSignature |-> transferSignature, proofSignature |-> proofSignature,
            units |-> decrypted.units,
            proof |-> Statement(key, CombineCiphertext(context, DisclosedHandle), decrypted.units)]

\* The transfer's own commitments, which the token program checked, pin the amount.
AnyCiphertext(context, transfer) == TRUE   \* mutant: the commitments are not compared
SameCiphertext(context, transfer) ==
  /\ Commitment(context.lo) = transfer.commitmentLo
  /\ Commitment(context.hi) = transfer.commitmentHi

VerifyDisclosure(payload) ==
  IF payload.transferSignature \notin Landed \/ payload.proofSignature \notin Landed
  THEN Fail("not-found")
  ELSE
  LET transferTx == Wire(payload.transferSignature)
      proofTx == Wire(payload.proofSignature)
      transfer == transferTx.instructions[FirstOf(transferTx, "transfer")]
      validity == proofTx.instructions[FirstOf(proofTx, "validity")]
      rebuilt == Statement(validity.context.lo.keys[Source],
                           CombineCiphertext(validity.context, Source), payload.units)
  IN  CASE ~transferTx.ok \/ ~proofTx.ok -> Fail("failed-on-chain")
        [] ~Carries(transferTx, "transfer") -> Fail("not-a-transfer")
        [] ~Carries(proofTx, "validity") \/ validity.account # transfer.validityAccount ->
             Fail("wrong-proof-transaction")
        [] ~SameCiphertext(validity.context, transfer) -> Fail("ciphertext-mismatch")
        [] payload.proof # rebuilt -> Fail("proof-mismatch")
        [] OTHER -> Ok(payload.units)

-----------------------------------------------------------------------------
\* The patron's account: useBalances of the dashboard.
NewAccount ==
  [key |-> Patron, lo |-> 0, hi |-> 0, credits |-> 0, available |-> Ciphertext(0, Patron)]
UseBalances(key) ==
  IF key = NoKeys THEN [available |-> Nothing, pending |-> Nothing]
  ELSE [available |-> DecryptAvailable(key, account), pending |-> DecryptPending(key, account)]

\* receivedTotals over the rows of the index, all of them in one period.
ReceivedTotals(key) ==
  LET amount(t) == DecryptContribution(key, rows[t], Destination)
      decrypted == {t \in DOMAIN rows : amount(t).ok}
  IN  [lifetime |-> MapThenSumSet(LAMBDA t : amount(t).units, decrypted),
       decrypted |-> Cardinality(decrypted), failed |-> Cardinality(DOMAIN rows \ decrypted)]

Init ==
  /\ SessionInit
  /\ ledger = [p \in 1..MaxPayments |-> <<>>]
  /\ used = [p \in 1..MaxPayments |-> Nothing]
  /\ account = NewAccount
  /\ rows = <<>>
  /\ asked = [p \in 1..MaxPayments |-> Nothing]
  /\ arrived = [pending |-> 0, all |-> 0]

Lands(p, instructions, ok) ==
  ledger' = [ledger EXCEPT ![p] = Append(@, [ok |-> ok, instructions |-> instructions])]

\* runContribution: it takes the keys that are shown and lands one transaction after the other,
\* until one fails.
IsNext(p) == ledger[p] = <<>> /\ \A q \in 1..(p - 1) : ledger[q] # <<>>
Contribute(p, units, ok) ==
  /\ keys = Fan
  /\ IsNext(p)
  /\ Lands(p, BuildContribution(p, units)[1], ok)
  /\ asked' = [asked EXCEPT ![p] = units]
  /\ UNCHANGED <<used, account, rows, arrived, sessionVars>>

GoesOn(p, step) == Len(ledger[p]) = step - 1 /\ Last(ledger[p]).ok
ContributeOn(p, step, ok) ==
  /\ step \in {2, 4} /\ GoesOn(p, step)
  /\ Lands(p, BuildContribution(p, asked[p])[step], ok)
  /\ UNCHANGED <<used, account, rows, asked, arrived, sessionVars>>

\* The token program adds the parts of a transfer that lands to the pending balance, and takes
\* none more than the account was configured for until they are applied.
Pay(p, ok) ==
  /\ GoesOn(p, 3) /\ (ok => account.credits < MaxCredits)
  /\ Lands(p, BuildContribution(p, asked[p])[3], ok)
  /\ IF ok
     THEN /\ account' = [account EXCEPT !.lo = @ + (asked[p] % LoRange),
                                        !.hi = @ + (asked[p] \div LoRange),
                                        !.credits = @ + 1]
          /\ arrived' = [pending |-> arrived.pending + asked[p], all |-> arrived.all + asked[p]]
     ELSE UNCHANGED <<account, arrived>>
  /\ UNCHANGED <<used, rows, asked, sessionVars>>

\* The supporter, who holds the key of the proof account, uses it before the contribution, or
\* creates it again after it.
Uses == Cardinality({p \in DOMAIN ledger : used[p] # Nothing})
          + Cardinality({p \in DOMAIN ledger : Len(ledger[p]) = 5})
UseBefore(p, units) ==
  /\ Uses < MaxUses
  /\ IsNext(p) /\ used[p] = Nothing
  /\ used' = [used EXCEPT ![p] = units]
  /\ UNCHANGED <<ledger, account, rows, asked, arrived, sessionVars>>
Recreate(p, units) ==
  /\ Uses < MaxUses
  /\ GoesOn(p, 5)
  /\ Lands(p, OtherUse(p, units, "again"), TRUE)
  /\ UNCHANGED <<used, account, rows, asked, arrived, sessionVars>>

\* The patron's wallet applies its pending balance, as far as it can read it.
ApplyPending ==
  LET pendingUnits == DecryptPending(Patron, account)
  IN  /\ pendingUnits.ok /\ pendingUnits.units > 0
      /\ account' = [account EXCEPT !.lo = 0, !.hi = 0, !.credits = 0,
                                    !.available.value = @ + pendingUnits.units]
      /\ arrived' = [arrived EXCEPT !.pending = 0]
      /\ UNCHANGED <<ledger, used, rows, asked, sessionVars>>

\* The worker applies the transaction of a transfer, at any time after it landed.  (Where the node
\* does not serve one that it reads yet, the handler throws and writes nothing: Indexer.)
IndexTransfer(signature) ==
  /\ signature \notin DOMAIN rows
  /\ Wire(signature).ok /\ Carries(Wire(signature), "transfer")
  /\ rows' = [s \in DOMAIN rows \union {signature} |->
                IF s = signature THEN FetchRecipientCiphertext(s) ELSE rows[s]]
  /\ UNCHANGED <<ledger, used, account, asked, arrived, sessionVars>>

Next ==
  \/ \E p \in 1..MaxPayments, ok \in BOOLEAN :
       \/ \E units \in Amounts : Contribute(p, units, ok)
       \/ \E step \in {2, 4} : ContributeOn(p, step, ok)
       \/ Pay(p, ok)
  \/ \E p \in 1..MaxPayments, units \in OtherAmounts : UseBefore(p, units) \/ Recreate(p, units)
  \/ ApplyPending
  \/ \E signature \in Landed : IndexTransfer(signature)
  \/ SessionNext /\ UNCHANGED paymentVars

Spec == Init /\ [][Next]_vars

-----------------------------------------------------------------------------
TransferOf(p) == <<p, 3>>
Paid == {p \in DOMAIN ledger : Len(ledger[p]) >= 3 /\ ledger[p][3].ok}
Readers == {Fan, Patron, Auditor}

\* Every reader finds what moved and no other: the patron in the row of the index (decrypt.ts:113),
\* the supporter in the same row, the auditor in the transfer itself, whenever the row was written
\* and whatever becomes of the proof account later.  What was in the account before is taken for
\* the payment's (ciphertext.ts:44-46 reads the oldest proof): then the row gives what was proven
\* first, and only the auditor reads what moved.  A key that is not meant gives no amount, never a
\* wrong one (Audit.tsx:68).
FirstProven(p) == IF used[p] = Nothing THEN asked[p] ELSE used[p]
Reads(key, owner, result, units) == IF key = owner THEN result = Ok(units) ELSE ~result.ok
AmountsAreWhatMoved ==
  \A p \in Paid, key \in Readers :
    /\ LET transferTx == Wire(TransferOf(p))
           transfer == transferTx.instructions[FirstOf(transferTx, "transfer")]
       IN  Reads(key, Auditor, DecryptAsAuditor(key, transfer), asked[p])
    /\ TransferOf(p) \in DOMAIN rows =>
         LET row == rows[TransferOf(p)]
         IN  /\ Reads(key, Patron, DecryptContribution(key, row, Destination), FirstProven(p))
             /\ Reads(key, Fan, DecryptContribution(key, row, Source), FirstProven(p))

\* A payload that verifies names the units its transfer moved (disclose.ts:207-210), whatever
\* landed transfer, proof of any use of an account, units and true statement it is made of.  (What
\* carries no transfer or no proof, it refuses before it looks any further.)
Carrying(kind) == {s \in Landed : Carries(Wire(s), kind)}
TrueStatements ==
  {Statement(c.lo.keys[Source], CombineCiphertext(c, Source), c.lo.value + c.hi.value * LoRange) :
     c \in {ExtractValidityContext(Wire(s)) : s \in Carrying("validity")}}
DisclosureIsTrue ==
  LET proven == TrueStatements
  IN \A t \in Carrying("transfer"), s \in Carrying("validity"), statement \in proven :
    LET verdict == VerifyDisclosure([transferSignature |-> t, proofSignature |-> s,
                                     units |-> statement.units, proof |-> statement])
    IN  verdict.ok => t[1] \in Paid /\ verdict.units = asked[t[1]]

\* What the supporter discloses from a row of the index convinces the stranger, now and later.  A
\* row that holds what was in the account before the payment convinces nobody (disclose.ts:256).
DisclosureStands ==
  \A t \in DOMAIN rows :
    LET payload == CreateDisclosure(Fan, t, rows[t].proofSig)
    IN  /\ payload.ok
        /\ VerifyDisclosure(payload) = IF used[t[1]] = Nothing THEN Ok(asked[t[1]])
                                       ELSE Fail("ciphertext-mismatch")

\* The dashboard's figures add up: pending is what arrived since it was applied last, or, where its
\* high part outgrew the search (decrypt.ts:162-164), no figure at all; and what the sum over the
\* index says was received is on the chain, all of it once the index has caught up, as long as
\* no indexed payment has a row of an earlier use of its account.
BalancesAddUp ==
  LET balances == UseBalances(Patron)
      totals == ReceivedTotals(Patron)
  IN  /\ balances.available = Ok(arrived.all - arrived.pending)
      /\ IF account.hi < Search
         THEN balances.pending = Ok(arrived.pending)
         ELSE balances.pending = Fail("wrong-key")
      /\ totals.failed = 0
      /\ (\A t \in DOMAIN rows : used[t[1]] = Nothing) =>
           /\ totals.lifetime <= arrived.all
           /\ totals.decrypted = Cardinality(Paid) => totals.lifetime = arrived.all
=============================================================================
