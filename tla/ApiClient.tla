----------------------------- MODULE ApiClient -----------------------------
(***************************************************************************)
(* Retries of DataForgeClient._request (dataforge/client.py) against the   *)
(* DataForge API.                                                          *)
(*                                                                         *)
(* A call is one use of _request: a GET, PUT, PATCH or DELETE ("IDEMPOTENT"*)
(* in the docstring's sense), a POST with an Idempotency-Key, or a POST    *)
(* without one.  Several calls may run at once, and two POSTs may carry    *)
(* the same key, which is how an agent repeats a write.  The client        *)
(* numbers its attempts from 0; request[c][n] is what has become of the    *)
(* n-th attempt of call c, whether or not the client still waits for it,   *)
(* so a request abandoned after a timeout may still reach the server, run  *)
(* and take effect while a later attempt is under way.                     *)
(***************************************************************************)
EXTENDS Naturals

CONSTANTS Calls,        \* the logical calls
          Keys,         \* the Idempotency-Key values in use
          NoKey,        \* the call carries no Idempotency-Key
          MaxRetries,   \* the constructor argument max_retries (default 3)
          MaxInProgress \* retries after "409 idempotency_in_progress" (2 in the code)

ASSUME MaxRetriesAssumption == MaxRetries \in Nat
ASSUME MaxInProgressAssumption == MaxInProgress \in Nat
ASSUME KeysAssumption == NoKey \notin Keys /\ Keys \cap Calls = {}

VARIABLES call,               \* method and key of each call, fixed when it is made
          pc, attempt, inProgressRetries, lastExc, outcome,   \* locals of _request
          request,            \* the fate of every attempt
          keyState,           \* the API's idempotency store
          applied             \* how often each effect has happened

clientVars == <<pc, attempt, inProgressRetries, lastExc, outcome>>
serverVars == <<keyState, applied>>
vars == <<call, clientVars, request, serverVars>>

(* What the API answers: a 2xx, a 409 "in progress", another 4xx, a 429, a 5xx. *)
Answers == {"ok", "in_progress", "rejected", "rate_limited", "server_error"}
TransportErrors == {"timeout", "connection_error"}
NoError == "nothing"
Errors == (Answers \ {"ok"}) \cup TransportErrors

CallTypes == [method : {"IDEMPOTENT"}, key : {NoKey}]
               \cup [method : {"POST"}, key : Keys \cup {NoKey}]

Keyed(c) == call[c].key # NoKey
RetryAnything(c) == TRUE    \* mutant: every POST is repeated
RetrySafe(c) == call[c].method # "POST" \/ Keyed(c)
Attempts(c) == IF RetrySafe(c) THEN MaxRetries ELSE 1

(* Calls with the same key ask for one effect; any other call for its own. *)
Effect(c) == IF Keyed(c) THEN call[c].key ELSE c
Effects == Calls \cup Keys

-----------------------------------------------------------------------------
Init ==
  /\ call \in [Calls -> CallTypes]
  /\ pc = [c \in Calls |-> "ready"]
  /\ attempt = [c \in Calls |-> 0]
  /\ inProgressRetries = [c \in Calls |-> 0]
  /\ lastExc = [c \in Calls |-> NoError]
  /\ outcome = [c \in Calls |-> "pending"]
  /\ request = [c \in Calls |-> [n \in 0..MaxRetries |-> "unsent"]]
  /\ keyState = [k \in Keys |-> "unused"]
  /\ applied = [e \in Effects |-> 0]

(* ------------------------------ the client ----------------------------- *)

Finish(c, result) ==
  /\ pc' = [pc EXCEPT ![c] = "done"]
  /\ outcome' = [outcome EXCEPT ![c] = result]

(* The loop head: one more attempt, or the loop has run out. *)
Send(c) ==
  /\ pc[c] = "ready" /\ attempt[c] < Attempts(c)
  /\ pc' = [pc EXCEPT ![c] = "waiting"]
  /\ request' = [request EXCEPT ![c][attempt[c]] = "sent"]
  /\ UNCHANGED <<call, attempt, inProgressRetries, lastExc, outcome, serverVars>>

(* "raise last_exc" after the loop. *)
Exhausted(c) ==
  /\ pc[c] = "ready" /\ attempt[c] >= Attempts(c)
  /\ Finish(c, lastExc[c])
  /\ UNCHANGED <<call, attempt, inProgressRetries, lastExc, request, serverVars>>

(* "continue": asyncio.sleep, then the next value of attempt. *)
Backoff(c) == pc' = [pc EXCEPT ![c] = "sleeping"] /\ UNCHANGED outcome

WakeUpSameAttempt(c) ==    \* mutant: the sleep does not consume an attempt
  /\ pc[c] = "sleeping"
  /\ pc' = [pc EXCEPT ![c] = "ready"]
  /\ UNCHANGED <<call, attempt, inProgressRetries, lastExc, outcome, request, serverVars>>

WakeUp(c) ==
  /\ pc[c] = "sleeping"
  /\ pc' = [pc EXCEPT ![c] = "ready"]
  /\ attempt' = [attempt EXCEPT ![c] = @ + 1]
  /\ UNCHANGED <<call, inProgressRetries, lastExc, outcome, request, serverVars>>

(* A 5xx, a timeout and a connection error end the same way. *)
RetryForgetting(c, error) ==    \* mutant: last_exc is only kept when it is raised
  /\ IF attempt[c] + 1 < Attempts(c)
     THEN Backoff(c) /\ UNCHANGED lastExc
     ELSE Finish(c, error) /\ lastExc' = [lastExc EXCEPT ![c] = error]
  /\ UNCHANGED inProgressRetries

RetryOrRaise(c, error) ==
  /\ lastExc' = [lastExc EXCEPT ![c] = error]
  /\ IF attempt[c] + 1 < Attempts(c) THEN Backoff(c) ELSE Finish(c, error)
  /\ UNCHANGED inProgressRetries

(* The answer to the attempt the client waits for. *)
CurrentAnswer(c) == request[c][attempt[c]]

ReceiveServerError(c) ==
  /\ pc[c] = "waiting" /\ CurrentAnswer(c) = "server_error"
  /\ RetryOrRaise(c, "server_error")
  /\ UNCHANGED <<call, attempt, request, serverVars>>

(* Does not set last_exc, yet consumes an attempt. *)
ReceiveInProgressAlways(c) ==    \* mutant: the budget is not tested
  /\ pc[c] = "waiting" /\ CurrentAnswer(c) = "in_progress"
  /\ inProgressRetries' = [inProgressRetries EXCEPT ![c] = @ + 1]
  /\ Backoff(c)
  /\ UNCHANGED <<call, attempt, lastExc, request, serverVars>>

ReceiveInProgress(c) ==
  /\ pc[c] = "waiting" /\ CurrentAnswer(c) = "in_progress"
  /\ inProgressRetries[c] < MaxInProgress
  /\ inProgressRetries' = [inProgressRetries EXCEPT ![c] = @ + 1]
  /\ Backoff(c)
  /\ UNCHANGED <<call, attempt, lastExc, request, serverVars>>

(* A 2xx is returned; a 429, any other 4xx and a third "in progress" are raised. *)
ReceiveConflictAsReplay(c) ==    \* mutant: a 409 for a known key passes for a replay
  /\ pc[c] = "waiting"
  /\ CurrentAnswer(c) \in {"ok", "rejected", "rate_limited", "in_progress"}
  /\ Finish(c, IF CurrentAnswer(c) = "in_progress" THEN "ok" ELSE CurrentAnswer(c))
  /\ UNCHANGED <<call, attempt, inProgressRetries, lastExc, request, serverVars>>

ReceiveFinal(c) ==
  /\ pc[c] = "waiting"
  /\ \/ CurrentAnswer(c) \in {"ok", "rejected", "rate_limited"}
     \/ CurrentAnswer(c) = "in_progress" /\ inProgressRetries[c] >= MaxInProgress
  /\ Finish(c, CurrentAnswer(c))
  /\ UNCHANGED <<call, attempt, inProgressRetries, lastExc, request, serverVars>>

(* httpx gives up: the request may be lost, queued, running or answered.   *)
(* Left out: an httpx.RequestError that is not a TransportError (a body    *)
(* that cannot be decoded): no clause catches it, and it ends the call.    *)
TransportFailure(c, error) ==
  /\ pc[c] = "waiting"
  /\ RetryOrRaise(c, error)
  /\ UNCHANGED <<call, attempt, request, serverVars>>

(* The task that awaits the call is cancelled, or the process dies. *)
Cancel(c) ==
  /\ pc[c] \in {"waiting", "sleeping"}
  /\ Finish(c, "cancelled")
  /\ UNCHANGED <<call, attempt, inProgressRetries, lastExc, request, serverVars>>

(* ------------------------------ the API -------------------------------- *)

Answer(c, n, answer) == request' = [request EXCEPT ![c][n] = answer]

(* A request arrives: a key in use or used is answered from the store. *)
Arrive(c, n) ==
  LET k == call[c].key IN
  /\ request[c][n] = "sent"
  /\ \/ /\ ~Keyed(c)
        /\ Answer(c, n, "running")
        /\ UNCHANGED keyState
     \/ /\ Keyed(c) /\ keyState[k] = "unused"
        /\ Answer(c, n, "running")
        /\ keyState' = [keyState EXCEPT ![k] = "running"]
     \/ /\ Keyed(c) /\ keyState[k] = "running"
        /\ Answer(c, n, "in_progress")
        /\ UNCHANGED keyState
     \/ /\ Keyed(c) /\ keyState[k] = "done"
        /\ Answer(c, n, "ok")
        /\ UNCHANGED keyState
  /\ UNCHANGED <<call, clientVars, applied>>

(* The rate limiter, or a gateway that is down, stands before everything else. *)
TurnAway(c, n) ==
  /\ request[c][n] = "sent"
  /\ \E answer \in {"rate_limited", "server_error"} : Answer(c, n, answer)
  /\ UNCHANGED <<call, clientVars, serverVars>>

(* The effect happens; a failure after it still answers 5xx. *)
Apply(c, n) ==
  /\ request[c][n] = "running"
  /\ \E answer \in {"ok", "server_error"} : Answer(c, n, answer)
  /\ applied' = [applied EXCEPT ![Effect(c)] = @ + 1]
  /\ keyState' = IF Keyed(c) THEN [keyState EXCEPT ![call[c].key] = "done"] ELSE keyState
  /\ UNCHANGED <<call, clientVars>>

(* Validation or the server fails before the effect; the key is free again. *)
Refuse(c, n) ==
  /\ request[c][n] = "running"
  /\ \E answer \in {"rejected", "server_error"} : Answer(c, n, answer)
  /\ keyState' = IF Keyed(c) THEN [keyState EXCEPT ![call[c].key] = "unused"] ELSE keyState
  /\ UNCHANGED <<call, clientVars, applied>>

-----------------------------------------------------------------------------
ClientStep(c) ==
  \/ Send(c) \/ Exhausted(c) \/ WakeUp(c)
  \/ ReceiveServerError(c) \/ ReceiveInProgress(c) \/ ReceiveFinal(c)
  \/ \E error \in TransportErrors : TransportFailure(c, error)

ServerStep(c, n) == Arrive(c, n) \/ TurnAway(c, n) \/ Apply(c, n) \/ Refuse(c, n)

Next ==
  \E c \in Calls :
    \/ ClientStep(c)
    \/ Cancel(c)
    \/ \E n \in 0..MaxRetries : ServerStep(c, n)

Spec == Init /\ [][Next]_vars

(* Timeouts are armed on every request and sleeps are finite, so a client  *)
(* that can move does.  Nothing is assumed of the server.                  *)
FairSpec == Spec /\ \A c \in Calls : WF_vars(ClientStep(c))

-----------------------------------------------------------------------------
(* Every variable stays in its range. *)
TypeOK ==
  /\ call \in [Calls -> CallTypes]
  /\ pc \in [Calls -> {"ready", "waiting", "sleeping", "done"}]
  /\ attempt \in [Calls -> Nat] /\ \A c \in Calls : attempt[c] <= Attempts(c)
  /\ inProgressRetries \in [Calls -> 0..MaxInProgress]
  /\ lastExc \in [Calls -> Errors \cup {NoError}]
  /\ outcome \in [Calls -> Errors \cup {"ok", "pending", "cancelled", NoError}]
  /\ request \in [Calls -> [0..MaxRetries -> {"unsent", "sent", "running"} \cup Answers]]
  /\ keyState \in [Keys -> {"unused", "running", "done"}]
  /\ applied \in [Effects -> Nat]

(* No POST takes effect twice: neither through the retries of _request,    *)
(* with abandoned requests still at large, nor when the same key is sent   *)
(* by several calls at once (client.py:106-108, tools-write.md "Idempotency"). *)
AppliedAtMostOnce ==
  \A c \in Calls : call[c].method = "POST" => applied[Effect(c)] <= 1

(* A call reports success only for an effect that happened, be it at this  *)
(* attempt, at one the client had given up, or in another call (a replay). *)
SuccessIsReal ==
  \A c \in Calls : outcome[c] = "ok" => applied[Effect(c)] >= 1

(* The loop never ends without an exception to raise: "raise last_exc"     *)
(* (client.py:193, silenced for the type checker) never meets None.        *)
NeverRaisesNothing == \A c \in Calls : outcome[c] # NoError

(* Every call comes to an end, whatever the API does. *)
Terminates == \A c \in Calls : <>(pc[c] = "done")
=============================================================================
