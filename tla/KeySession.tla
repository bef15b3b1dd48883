----------------------------- MODULE KeySession -----------------------------
(***************************************************************************)
(* The keys of the selected wallet in the web app: a component that is     *)
(* mounted anew for each wallet (WithSigner) over a session that shares    *)
(* one derivation per wallet.  A derivation waits for the user to answer   *)
(* the wallet's prompt, which may be long after the wallet was switched,   *)
(* the keys were forgotten or another prompt was opened.                   *)
(*                                                                         *)
(* One mint: the build fixes it.  Keys are named by their wallet, of which *)
(* they are a function.  The error that is shown is left out.              *)
(***************************************************************************)
EXTENDS Naturals, Sequences

CONSTANTS SessionWallets,  \* the accounts a user may select
          NoKeys,          \* no wallet, or no keys
          MaxPrompts       \* bound on the number of prompts

ASSUME KeySessionAssumption == NoKeys \notin SessionWallets /\ MaxPrompts \in Nat

VARIABLES selected,  \* the selected wallet
          keys,      \* WithSigner's state: the keys it shows
          pending,   \* the session's map: wallet to the prompt it remembers, 0 for none
          prompts,   \* the prompts in the order they were opened
          callers    \* the prompts that a derive of the mounted WithSigner waits for

sessionVars == <<selected, keys, pending, prompts, callers>>

\* fresh: opened since the session was emptied last (history).
Prompt(w, answer) == [owner |-> w, answer |-> answer, fresh |-> TRUE]

SessionInit ==
  /\ selected = NoKeys /\ keys = NoKeys
  /\ pending = [w \in SessionWallets |-> 0]
  /\ prompts = <<>> /\ callers = {}

\* session.forget: the map forgets.  An answer that was given says no more, a late refusal included,
\* unless somebody waits on for an attempt that the map had lost (history).
StillMatters == IF callers' = {} THEN {"open"} ELSE {"open", "refused late"}
Clear ==
  /\ pending' = [w \in SessionWallets |-> 0]
  /\ prompts' = [p \in DOMAIN prompts |->
                   [prompts[p] EXCEPT !.fresh = FALSE,
                                      !.answer = IF @ \in StillMatters THEN @ ELSE "over"]]

\* The user selects another wallet, or none.  WithSigner has the address for its key: the old one
\* is unmounted, which empties the session; the new one knows no keys, and who waits for a prompt
\* of the old one sets the state of nothing.
StaysMounted == UNCHANGED <<keys, callers>>   \* mutant: WithSigner without a key
Remounts == keys' = NoKeys /\ callers' = {}
Select(w) ==
  /\ w # selected
  /\ selected' = w
  /\ Remounts
  /\ Clear

\* session.get of a wallet that is not in the map: it asks the wallet and remembers the attempt.
RememberedWhenSigned(w, p) == pending' = pending   \* mutant: the map is set after the await
Remember(w, p) == pending' = [pending EXCEPT ![w] = p]

\* derive, of a screen that has no keys: it joins the attempt that is known, which is open as long
\* as there are no keys, or begins one.
Derive ==
  /\ selected # NoKeys /\ keys = NoKeys
  /\ IF pending[selected] # 0
     THEN callers' = callers \union {pending[selected]} /\ UNCHANGED <<pending, prompts>>
     ELSE LET p == Len(prompts) + 1
          IN  /\ p <= MaxPrompts
              /\ prompts' = Append(prompts, Prompt(selected, "open"))
              /\ Remember(selected, p)
              /\ callers' = callers \union {p}
  /\ UNCHANGED <<selected, keys>>

\* A prompt is answered once, whatever happened since it was opened.
IsOpen(p) == prompts[p].answer = "open"
Answered(p, answer) ==
  /\ IsOpen(p)
  /\ prompts' = [prompts EXCEPT ![p].answer = answer]
  /\ callers' = callers \ {p}
  /\ UNCHANGED selected

Approve(p) ==
  /\ Answered(p, IF prompts[p].fresh THEN "signed" ELSE "over")
  /\ keys' = IF p \in callers THEN prompts[p].owner ELSE keys
  /\ UNCHANGED pending

\* The catch of get: the entry of the wallet goes, whichever attempt it holds by now.
Unremember(w) == pending' = [pending EXCEPT ![w] = 0]
Refuse(p) ==
  /\ Answered(p, IF prompts[p].fresh THEN "refused" ELSE "refused late")
  /\ Unremember(prompts[p].owner)
  /\ UNCHANGED keys

\* The forget button, which is there while keys are shown.
Forget ==
  /\ keys # NoKeys
  /\ keys' = NoKeys
  /\ UNCHANGED <<selected, callers>>
  /\ Clear

SessionNext ==
  \/ \E w \in SessionWallets \union {NoKeys} : Select(w)
  \/ Derive
  \/ \E p \in DOMAIN prompts : Approve(p) \/ Refuse(p)
  \/ Forget

SessionSpec == SessionInit /\ [][SessionNext]_sessionVars

-----------------------------------------------------------------------------
\* A prompt of an earlier life of the session was refused in this one, or in one whose attempts are
\* still waited for: by session.ts:28 it took with it whatever the session had remembered by then.
RefusedLate(w) ==
  \E p \in DOMAIN prompts : prompts[p].owner = w /\ prompts[p].answer = "refused late"

\* The keys on the screen are the selected wallet's, and they were signed for since the session was
\* emptied last: the answer to a prompt of a wallet that was left never shows up under the next one,
\* and forgotten keys stay forgotten (KeysProvider.tsx:34-35), but for a life in which an
\* older prompt is refused.
SignedFor(w) == \E p \in DOMAIN prompts : prompts[p] = Prompt(w, "signed")
ShownKeysAreCurrent ==
  keys # NoKeys => keys = selected /\ (SignedFor(keys) \/ RefusedLate(keys))

\* A wallet is asked once in a life of the session (session.ts:15): there are never two prompts for
\* it that the session would share, but for a life in which an older prompt is refused.
OnePromptAtATime ==
  \A p, q \in DOMAIN prompts :
    /\ prompts[p] = Prompt(prompts[p].owner, "open")
    /\ prompts[q] = prompts[p]
    => p = q \/ RefusedLate(prompts[p].owner)
=============================================================================
