------------------------------- MODULE Relay -------------------------------
(***************************************************************************)
(* The api's relay: a request carries a batch of transactions that the     *)
(* platform's payer signs, sends and confirms one by one.  The faucet of a *)
(* devnet deployment sends one transaction of its own in the same way.     *)
(* Requests run concurrently; each await of a handler is a point where the *)
(* others, the network and the clock may move.                             *)
(*                                                                         *)
(* External: the network.  A transaction it has may land while its         *)
(* blockhash is valid, may be rolled back until it is confirmed, and a     *)
(* batch has one blockhash: taken by the client when it sends the request, *)
(* or by the faucet when it builds its transaction.                        *)
(***************************************************************************)
EXTENDS RateLimiter, FiniteSets

CONSTANTS Requests,     \* requests that clients may send
          Client,       \* the address a request comes from, of a faucet's the wallet
          Mode,         \* the route of a request: "proofs" | "close" | "faucet"
          Batch,        \* the transactions of a request: [kind, complete]
          Limit,        \* RATE_LIMIT: hits of an address in WindowMs
          WindowMs,     \* WINDOW_MS
          FaucetLimit,  \* FAUCET_LIMIT: hits of a wallet in FaucetWindow
          FaucetWindow, \* FAUCET_WINDOW_MS
          Timeout,      \* CONFIRM_TIMEOUT_MS
          Lifetime,     \* how long a blockhash is valid
          LastArrival,  \* bound on the time of a request
          MaxClock      \* bound on the clock while nothing is waited for

VARIABLES clock,
          limiters,     \* the relay's rate limiter and the faucet's
          allowed,      \* history: the hits allowed, [by, key, at, request]
          refused,      \* history: the hits refused, [by, key, at, reset]
          phase,        \* of each request's handler
          job,          \* its locals: the transaction it is at, the deadline of the
                        \* confirmation it waits for, when the batch's blockhash was taken
          answer,       \* what the client was told
          net           \* the network's view of each transaction of each batch

vars == <<clock, limiters, allowed, refused, phase, job, answer, net>>

ASSUME RelayAssumption ==
  /\ Timeout \in Nat \ {0} /\ Lifetime \in Nat \ {0}
  /\ LastArrival \in Nat /\ MaxClock \in Nat
  /\ \A n \in {Limit, WindowMs, FaucetLimit, FaucetWindow} : n \in Nat \ {0}
  /\ \A r \in Requests : Mode[r] \in {"proofs", "close", "faucet"}
  /\ \A r \in Requests : Batch[r] \in Seq([kind : STRING, complete : BOOLEAN]) /\ Len(Batch[r]) > 0
  /\ \A r \in Requests : Mode[r] = "faucet" => Batch[r] = <<[kind |-> "topUp", complete |-> TRUE]>>

\* app.use('/relay/*', rateLimit(...)), and the limiter inside the faucet's route.
Limiter(r) == IF Mode[r] = "faucet" THEN "faucet" ELSE "relay"

\* validateRelayTransaction, by what a client's transaction does: proof accounts and
\* records are made and filled on one route, and closed on the other.
Permitted(mode) == CASE mode = "proofs" -> {"createContext", "verifyProof", "record", "write"}
                     [] mode = "close" -> {"closeContext", "closeRecord"}
                     [] mode = "faucet" -> {"topUp"}   \* the server's own, not validated
Allowed(tx, mode) == tx.kind \in Permitted(mode) /\ tx.complete

\* validateBatch: every transaction is checked before the first one is sent.
BatchIsValid(r) == \A i \in DOMAIN Batch[r] : Allowed(Batch[r][i], Mode[r])

HashIsValid(r) == clock <= job[r].born + Lifetime
Current(r) == net[r][job[r].at]

NoJob == [at |-> 1, deadline |-> 0, born |-> 0]

Init ==
  /\ clock = 0
  /\ limiters = [relay |-> NewLimiter(Limit, WindowMs),
                 faucet |-> NewLimiter(FaucetLimit, FaucetWindow)]
  /\ allowed = {} /\ refused = {}
  /\ phase = [r \in Requests |-> "new"]
  /\ job = [r \in Requests |-> NoJob]
  /\ answer = [r \in Requests |-> "none"]
  /\ net = [r \in Requests |-> [i \in DOMAIN Batch[r] |-> "unsent"]]

\* Past its bound the clock only moves for a wait that is under way.
Tick ==
  /\ \/ clock < MaxClock
     \/ \E r \in Requests : phase[r] \in {"polling", "checking"} /\ clock < job[r].deadline
  /\ clock' = clock + 1
  /\ UNCHANGED <<limiters, allowed, refused, phase, job, answer, net>>

Answer(r, what) ==
  /\ answer' = [answer EXCEPT ![r] = what]
  /\ phase' = [phase EXCEPT ![r] = "done"]
  /\ job' = [job EXCEPT ![r] = NoJob]

\* What submit reports reaches a client of the relay as it is, the faucet's as a failure.
Report(r, what) == Answer(r, IF Mode[r] = "faucet" THEN "failed" ELSE what)
Move(r, where, local) ==
  /\ phase' = [phase EXCEPT ![r] = where]
  /\ job' = [job EXCEPT ![r] = local]
  /\ UNCHANGED answer

\* enforceRateLimit: one hit, now, under the client's key.
Verdict(r) == Hit(limiters[Limiter(r)], Client[r], clock)

\* The limiter in front of the route, then validateBatch; nothing that a request waits for
\* in between is shared.  The faucet asks the network for a blockhash instead.
Arrive(r) ==
  LET by == Limiter(r)
      hit == Verdict(r)
  IN  /\ phase[r] = "new" /\ clock <= LastArrival
      /\ limiters' = [limiters EXCEPT ![by] = hit.limiter]
      /\ \/ /\ ~hit.allowed
            /\ refused' = refused \cup {[by |-> by, key |-> Client[r], at |-> clock,
                                         reset |-> hit.resetSeconds]}
            /\ Answer(r, "limited")
            /\ UNCHANGED allowed
         \/ /\ hit.allowed
            /\ allowed' = allowed \cup {[by |-> by, key |-> Client[r], at |-> clock,
                                         request |-> r]}
            /\ IF Mode[r] = "faucet" THEN Move(r, "building", NoJob)
               ELSE IF BatchIsValid(r) THEN Move(r, "sending", [NoJob EXCEPT !.born = clock])
               ELSE Answer(r, "invalid")
            /\ UNCHANGED refused
      /\ UNCHANGED <<clock, net>>

\* buildFaucetTopUp, with the blockhash that the network answers.
Build(r) ==
  /\ phase[r] = "building"
  /\ Move(r, "sending", [NoJob EXCEPT !.born = clock])
  /\ UNCHANGED <<clock, limiters, allowed, refused, net>>

\* rpc.sendTransaction accepts: from here on the wait has a deadline.
Send(r) ==
  /\ phase[r] = "sending"
  /\ net' = [net EXCEPT ![r][job[r].at] = "pending"]
  /\ Move(r, "polling", [job[r] EXCEPT !.deadline = clock + Timeout])
  /\ UNCHANGED <<clock, limiters, allowed, refused>>

\* It throws: a failed preflight never reached the network, any other error may hide a send.
SendFails(r) ==
  /\ phase[r] = "sending"
  /\ \/ Report(r, "rejected") /\ UNCHANGED net
     \/ Answer(r, "failed") /\ net' \in {net, [net EXCEPT ![r][job[r].at] = "pending"]}
  /\ UNCHANGED <<clock, limiters, allowed, refused>>

\* confirm, after a status that settles nothing: give up at the deadline or poll again.
NeverGivesUp(r) == Move(r, "polling", job[r])   \* mutant: no deadline
KeepWaiting(r) ==
  IF clock >= job[r].deadline THEN Answer(r, "failed") ELSE Move(r, "polling", job[r])

\* rpc.getSignatureStatus answers with what the network knows now; submitBatch goes on
\* with the next transaction once this one is confirmed.
SettlesProcessed(r) == Current(r) \in {"processed", "confirmed"}   \* mutant: any status
Settles(r) == Current(r) = "confirmed"

Poll(r) ==
  /\ phase[r] = "polling"
  /\ \/ /\ Current(r) = "failed" /\ ~Settles(r)
        /\ Report(r, "rejected")
     \/ /\ Settles(r)
        /\ IF job[r].at = Len(Batch[r]) THEN Answer(r, "ok")
           ELSE Move(r, "sending", [job[r] EXCEPT !.at = @ + 1])
     \/ Current(r) = "processed" /\ ~Settles(r) /\ KeepWaiting(r)
     \/ Current(r) = "pending" /\ Move(r, "checking", job[r])
  /\ UNCHANGED <<clock, limiters, allowed, refused, net>>

\* rpc.isBlockhashValid answers, for the status read before.
CheckHash(r) ==
  /\ phase[r] = "checking"
  /\ IF HashIsValid(r) THEN KeepWaiting(r) ELSE Report(r, "rejected")
  /\ UNCHANGED <<clock, limiters, allowed, refused, net>>

\* An rpc call that nobody guards throws: the error handler answers for the route.
RpcThrows(r) ==
  /\ phase[r] \in {"building", "polling", "checking"}
  /\ Answer(r, "error")
  /\ UNCHANGED <<clock, limiters, allowed, refused, net>>

\* The network: a pending transaction lands, well or not, while its blockhash is valid; a
\* landed one is confirmed or, until then, rolled back: the status is asked for at any
\* commitment, so that a failure may be rolled back too.  What becomes of a transaction
\* after its request was answered is left out.
Land(r) ==
  LET tx == Current(r)
      Becomes(status) == net' = [net EXCEPT ![r][job[r].at] = status]
  IN  /\ phase[r] \in {"polling", "checking"}
      /\ \/ tx = "pending" /\ HashIsValid(r) /\ \E outcome \in {"processed", "failed"} : Becomes(outcome)
         \/ tx = "processed" /\ Becomes("confirmed")
         \/ tx \in {"processed", "failed"} /\ Becomes("pending")
      /\ UNCHANGED <<clock, limiters, allowed, refused, phase, job, answer>>

Answered(r) == Build(r) \/ Send(r) \/ Poll(r) \/ CheckHash(r)
Handler(r) == Answered(r) \/ SendFails(r) \/ RpcThrows(r)

Next ==
  \/ Tick
  \/ \E r \in Requests :
       \/ Arrive(r) \/ Handler(r) \/ Land(r)

Spec == Init /\ [][Next]_vars

\* Time passes and an rpc call that does not throw is answered; a client need not send.
FairSpec == Spec /\ WF_vars(Tick) /\ \A r \in Requests : WF_vars(Answered(r))

-----------------------------------------------------------------------------

\* rate-limit.ts:42-43: the window slides, so that no stretch of a window's length holds more
\* allowed hits of a key than its limit, whatever the sweeps removed.
LimitInEveryWindow ==
  \A hit \in allowed :
    Cardinality({h \in allowed : /\ h.by = hit.by /\ h.key = hit.key
                                 /\ hit.at - limiters[hit.by].windowMs < h.at /\ h.at <= hit.at})
      <= limiters[hit.by].limit

\* The Retry-After of a refusal is long enough: of the hits before it, fewer than the limit
\* are left in the window when it ends.
RetryAfterIsEnough ==
  \A no \in refused :
    Cardinality({h \in allowed : /\ h.by = no.by /\ h.key = no.key /\ h.at <= no.at
                                 /\ h.at > no.at + no.reset - limiters[no.by].windowMs})
      < limiters[no.by].limit

\* relay.ts:42-43: no transaction reaches the network before the ones it builds on are
\* confirmed, and a request is answered ok only when all of them are.
BatchLandsInOrder ==
  \A r \in Requests :
    /\ \A i \in DOMAIN Batch[r] : net[r][i] # "unsent" =>
         \A j \in 1..i - 1 : net[r][j] = "confirmed"
    /\ answer[r] = "ok" => \A i \in DOMAIN Batch[r] : net[r][i] = "confirmed"

\* Every request that arrived is answered: the deadline ends each wait.
EveryRequestIsAnswered ==
  \A r \in Requests : phase[r] # "new" ~> phase[r] = "done"
=============================================================================
