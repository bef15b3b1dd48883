----------------------------- MODULE Ciphertexts -----------------------------
(***************************************************************************)
(* Amounts under encryption, as the token program and its clients use      *)
(* them.  A transfer encrypts its amount once, in a low and a high part,   *)
(* for three readers: the parts have one commitment each and a handle per  *)
(* reader.  A discrete logarithm finds a value below a bound and nothing   *)
(* under a key that is not on the handle.                                  *)
(*                                                                         *)
(* The cryptography is taken at its word: a ciphertext is its value and    *)
(* its key, a commitment its value and its opening.  Bytes that do not     *)
(* parse are left out.  A key pair is named by its owner.                  *)
(***************************************************************************)
EXTENDS Integers

CONSTANTS LoRange,  \* 2^16: a low part is below it
          Search    \* 2^32: a logarithm is found below it

ASSUME CiphertextsAssumption ==
  LoRange \in Nat \ {0} /\ Search \in Nat /\ LoRange <= Search

\* HANDLE, counted from 1.
Source == 1
Destination == 2
AuditorHandle == 3

\* The proof context of a transfer; extractValidityContext finds these two parts in it.
Grouped(value, keys, opening) == [value |-> value, keys |-> keys, opening |-> opening]
ValidityContext(units, keys, opening) ==
  [lo |-> Grouped(units % LoRange, keys, opening), hi |-> Grouped(units \div LoRange, keys, opening)]

\* The point that all handles of a grouped ciphertext share.
Commitment(grouped) == <<grouped.value, grouped.opening>>

Ciphertext(value, key) == [value |-> value, key |-> key]
UnderHandle(grouped, handle) == Ciphertext(grouped.value, grouped.keys[handle])

NotFound == -1
Logarithm(key, ciphertext) ==
  IF ciphertext.key = key /\ ciphertext.value < Search THEN ciphertext.value ELSE NotFound

Ok(units) == [ok |-> TRUE, units |-> units]
Fail(reason) == [ok |-> FALSE, reason |-> reason]

\* lo + hi * 2^16 of two ciphertexts, found part by part.
Parts(key, lo, hi) ==
  LET partLo == Logarithm(key, lo)
      partHi == Logarithm(key, hi)
  IN  IF NotFound \in {partLo, partHi} THEN Fail("wrong-key") ELSE Ok(partLo + partHi * LoRange)

\* combineCiphertext: both parts as one ciphertext, one logarithm instead of two.
CombineCiphertext(context, handle) ==
  Ciphertext(context.lo.value + context.hi.value * LoRange, context.lo.keys[handle])

\* decryptContribution: the combined value, or the parts where it is out of range.
DecryptContribution(key, context, handle) ==
  LET units == Logarithm(key, CombineCiphertext(context, handle))
  IN  IF units # NotFound THEN Ok(units)
      ELSE Parts(key, UnderHandle(context.lo, handle), UnderHandle(context.hi, handle))

\* decryptPending, of an account that is configured: the token program adds up the parts of
\* what comes in.
DecryptPendingAtOnce(key, account) ==   \* mutant: one logarithm of the whole
  LET units == Logarithm(key, Ciphertext(account.lo + account.hi * LoRange, account.key))
  IN  IF units = NotFound THEN Fail("wrong-key") ELSE Ok(units)
DecryptPending(key, account) ==
  Parts(key, Ciphertext(account.lo, account.key), Ciphertext(account.hi, account.key))

\* decryptAvailable, of an account that is configured: a symmetric ciphertext of the owner.
DecryptAvailable(key, account) ==
  IF account.available.key = key THEN Ok(account.available.value) ELSE Fail("wrong-key")

\* decryptAsAuditor: the transfer itself carries the two parts for the auditor.
DecryptAsAuditor(key, transfer) == Parts(key, transfer.auditorLo, transfer.auditorHi)
=============================================================================
