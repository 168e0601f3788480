-------------------------- MODULE ApiClientProofs --------------------------
(***************************************************************************)
(* Theorems about the retry loop, for any number of concurrent calls, any  *)
(* keys and any max_retries.                                               *)
(***************************************************************************)
EXTENDS ApiClient, TLAPS

(* Attempts are made in order, those after the current one are unsent, and *)
(* none is made beyond the loop.                                           *)
Ordered ==
  \A c \in Calls : \A n \in 0..MaxRetries :
    \/ n > attempt[c]
    \/ n = attempt[c] /\ pc[c] = "ready"
    \/ n >= Attempts(c)
    => request[c][n] = "unsent"

(* Waiting and sleeping happen inside the loop. *)
InLoop ==
  \A c \in Calls : pc[c] \in {"waiting", "sleeping"} => attempt[c] < Attempts(c)

(* Only a keyed request is ever told "in progress". *)
InProgressIsKeyed ==
  \A c \in Calls :
    /\ inProgressRetries[c] > 0 => Keyed(c)
    /\ \A n \in 0..MaxRetries : request[c][n] = "in_progress" => Keyed(c)

(* A key is "done" exactly when its effect has happened, and while it is   *)
(* "running" at most one request is, whichever call or attempt sent it.    *)
KeyStore ==
  /\ \A k \in Keys : applied[k] = IF keyState[k] = "done" THEN 1 ELSE 0
  /\ \A c \in Calls : \A n \in 0..MaxRetries :
       Keyed(c) /\ request[c][n] = "running" => keyState[call[c].key] = "running"
  /\ \A c, d \in Calls : \A n, m \in 0..MaxRetries :
       /\ Keyed(c) /\ call[c].key = call[d].key
       /\ request[c][n] = "running" /\ request[d][m] = "running"
       => c = d /\ n = m

(* The only request of an unkeyed POST has not run before its effect has   *)
(* happened, and has been answered after.                                  *)
UnkeyedOnce ==
  \A c \in Calls : ~RetrySafe(c) =>
    /\ applied[c] <= 1
    /\ request[c][0] \in {"unsent", "sent", "running"} => applied[c] = 0

(* Some request was answered "ok" only if the effect has happened. *)
OkIsReal ==
  \A c \in Calls : \A n \in 0..MaxRetries :
    request[c][n] = "ok" => applied[Effect(c)] >= 1

(* As long as no error is kept, every attempt so far met "in progress". *)
NothingKept ==
  \A c \in Calls : lastExc[c] = NoError =>
    /\ pc[c] \in {"ready", "waiting"} => attempt[c] <= inProgressRetries[c]
    /\ pc[c] = "sleeping" => attempt[c] + 1 <= inProgressRetries[c]

IInv ==
  /\ TypeOK /\ Ordered /\ InLoop /\ InProgressIsKeyed /\ KeyStore /\ UnkeyedOnce
  /\ OkIsReal /\ SuccessIsReal /\ NothingKept

-----------------------------------------------------------------------------
(* What a call's type says of its key, its retries and its effect. *)
LEMMA CallFacts ==
  ASSUME TypeOK, NEW c \in Calls
  PROVE  /\ call[c].key \in Keys \cup {NoKey}
         /\ Keyed(c) => /\ call[c].key \in Keys /\ call[c].method = "POST"
                        /\ RetrySafe(c) /\ Effect(c) = call[c].key
         /\ ~Keyed(c) => Effect(c) = c
         /\ ~RetrySafe(c) => ~Keyed(c) /\ call[c].method = "POST" /\ Attempts(c) = 1
         /\ RetrySafe(c) => Attempts(c) = MaxRetries
         /\ Effect(c) \in Effects
         /\ Attempts(c) \in Nat
BY KeysAssumption, MaxRetriesAssumption
   DEF TypeOK, CallTypes, Keyed, RetrySafe, Effect, Effects, Attempts

(* The initial states satisfy the invariant. *)
LEMMA InitIInv == Init => IInv
<1> SUFFICES ASSUME Init PROVE IInv
  OBVIOUS
<1> USE DEF Init
<1>1. TypeOK
  <2>1. \A c \in Calls : Attempts(c) \in Nat
    BY MaxRetriesAssumption DEF Attempts
  <2> QED
    BY <2>1, MaxInProgressAssumption
       DEF TypeOK, Errors, Answers, TransportErrors, NoError, Effects
<1>2. Ordered /\ InLoop /\ InProgressIsKeyed /\ OkIsReal /\ SuccessIsReal
  BY DEF Ordered, InLoop, InProgressIsKeyed, OkIsReal, SuccessIsReal
<1>3. KeyStore
  BY DEF KeyStore, Effects
<1>4. UnkeyedOnce
  BY DEF UnkeyedOnce, Effects
<1>5. NothingKept
  BY DEF NothingKept
<1> QED
  BY <1>1, <1>2, <1>3, <1>4, <1>5 DEF IInv

(* A client step that sends nothing leaves the server's side as it was. *)
LEMMA QuietClientStep ==
  ASSUME IInv, UNCHANGED <<call, request, serverVars>>
  PROVE  KeyStore' /\ UnkeyedOnce' /\ OkIsReal'
BY DEF IInv, KeyStore, UnkeyedOnce, OkIsReal, serverVars, Keyed, RetrySafe, Effect

(* Every action of the client preserves the invariant. *)
LEMMA SendKeeps == ASSUME IInv, NEW c \in Calls, Send(c) PROVE IInv'
<1> USE DEF Send, serverVars
<1>0. /\ TypeOK /\ attempt[c] \in 0..MaxRetries
      /\ request[c][attempt[c]] = "unsent"
      /\ ~RetrySafe(c) => attempt[c] = 0
  BY CallFacts, MaxRetriesAssumption DEF IInv, TypeOK, Ordered
<1>1. TypeOK'
  BY <1>0 DEF IInv, TypeOK, Attempts, RetrySafe, Keyed
<1>2. Ordered'
  BY <1>0, MaxRetriesAssumption DEF IInv, TypeOK, Ordered, Attempts, RetrySafe, Keyed
<1>3. InLoop' /\ InProgressIsKeyed'
  BY <1>0 DEF IInv, TypeOK, InLoop, InProgressIsKeyed, Keyed, Attempts, RetrySafe
<1>4. KeyStore'
  BY <1>0 DEF IInv, TypeOK, KeyStore, Keyed
<1>5. UnkeyedOnce'
  BY <1>0 DEF IInv, TypeOK, UnkeyedOnce, RetrySafe, Keyed
<1>6. OkIsReal'
  BY <1>0 DEF IInv, TypeOK, OkIsReal, Effect, Keyed
<1>7. SuccessIsReal'
  BY DEF IInv, SuccessIsReal, Effect, Keyed
<1>8. NothingKept'
  BY <1>0 DEF IInv, TypeOK, NothingKept
<1> QED
  BY <1>1, <1>2, <1>3, <1>4, <1>5, <1>6, <1>7, <1>8 DEF IInv

(* The attempt a client waits for is one of the numbered requests. *)
LEMMA CurrentRequest ==
  ASSUME IInv, NEW c \in Calls, pc[c] \in {"waiting", "sleeping"}
  PROVE  attempt[c] \in 0..MaxRetries
BY MaxRetriesAssumption DEF IInv, TypeOK, InLoop, Attempts

LEMMA ExhaustedKeeps == ASSUME IInv, NEW c \in Calls, Exhausted(c) PROVE IInv'
<1> USE DEF Exhausted, Finish, serverVars
<1>0. TypeOK /\ Attempts(c) \in Nat
  BY CallFacts DEF IInv
<1>1. TypeOK'
  BY <1>0 DEF IInv, TypeOK, InLoop, Attempts, RetrySafe, Keyed,
         Errors, Answers, TransportErrors, NoError
<1>a. \A d \in Calls : Attempts(d) \in Nat /\ Attempts(d)' = Attempts(d)
  BY <1>0, CallFacts DEF Attempts, RetrySafe, Keyed
<1>2. Ordered'
  BY <1>0, <1>a DEF IInv, TypeOK, Ordered
<1>l. InLoop'
  BY <1>0, <1>a DEF IInv, TypeOK, InLoop
<1>3. InProgressIsKeyed'
  BY <1>0 DEF IInv, TypeOK, InProgressIsKeyed, InLoop, Keyed, Attempts
<1>4. KeyStore' /\ UnkeyedOnce' /\ OkIsReal'
  BY QuietClientStep
<1>5. SuccessIsReal'
  BY <1>0 DEF IInv, TypeOK, SuccessIsReal, OkIsReal, Effect, Keyed,
         Errors, Answers, TransportErrors, NoError
<1>6. NothingKept'
  BY <1>0 DEF IInv, TypeOK, NothingKept, Errors, Answers, TransportErrors, NoError
<1> QED
  BY <1>1, <1>2, <1>l, <1>3, <1>4, <1>5, <1>6 DEF IInv

LEMMA WakeUpKeeps == ASSUME IInv, NEW c \in Calls, WakeUp(c) PROVE IInv'
<1> USE DEF WakeUp, serverVars
<1>0. TypeOK /\ Attempts(c) \in Nat
  BY CallFacts DEF IInv
<1>1. TypeOK'
  BY <1>0 DEF IInv, TypeOK, InLoop, Attempts, RetrySafe, Keyed,
         Errors, Answers, TransportErrors, NoError
<1>a. \A d \in Calls : Attempts(d) \in Nat /\ Attempts(d)' = Attempts(d)
  BY <1>0, CallFacts DEF Attempts, RetrySafe, Keyed
<1>2. Ordered'
  <2> SUFFICES ASSUME NEW d \in Calls, NEW n \in 0..MaxRetries,
                      \/ n > attempt'[d]
                      \/ n = attempt'[d] /\ pc'[d] = "ready"
                      \/ n >= Attempts(d)
               PROVE  request[d][n] = "unsent"
    BY <1>a DEF Ordered
  <2>1. /\ attempt[d] \in Nat
        /\ n > attempt[d] => request[d][n] = "unsent"
        /\ n = attempt[d] /\ pc[d] = "ready" => request[d][n] = "unsent"
        /\ n >= Attempts(d) => request[d][n] = "unsent"
    BY <1>0 DEF IInv, TypeOK, Ordered
  <2>2. CASE d = c
    <3>1. attempt'[d] = attempt[d] + 1
      BY <1>0, <2>2 DEF TypeOK
    <3> QED
      BY <2>1, <3>1
  <2>3. CASE d # c
    BY <2>1, <2>3
  <2> QED
    BY <2>2, <2>3
<1>l. InLoop'
  BY <1>0, <1>a DEF IInv, TypeOK, InLoop
<1>3. InProgressIsKeyed'
  BY <1>0 DEF IInv, TypeOK, InProgressIsKeyed, InLoop, Keyed, Attempts
<1>4. KeyStore' /\ UnkeyedOnce' /\ OkIsReal'
  BY QuietClientStep
<1>5. SuccessIsReal'
  BY <1>0 DEF IInv, TypeOK, SuccessIsReal, OkIsReal, Effect, Keyed,
         Errors, Answers, TransportErrors, NoError
<1>6. NothingKept'
  BY <1>0 DEF IInv, TypeOK, NothingKept, Errors, Answers, TransportErrors, NoError
<1> QED
  BY <1>1, <1>2, <1>l, <1>3, <1>4, <1>5, <1>6 DEF IInv

LEMMA RaiseOrRetryKeeps == ASSUME IInv, NEW c \in Calls, NEW error \in TransportErrors \cup {"server_error"},
         pc[c] = "waiting", RetryOrRaise(c, error),
         UNCHANGED <<call, attempt, request, serverVars>> PROVE IInv'
<1> USE DEF RetryOrRaise, Backoff, Finish, TransportErrors, serverVars
<1>0. TypeOK /\ Attempts(c) \in Nat
  BY CallFacts DEF IInv
<1>1. TypeOK'
  <2>1. /\ pc' \in [Calls -> {"ready", "waiting", "sleeping", "done"}]
        /\ call' \in [Calls -> CallTypes]
        /\ inProgressRetries' \in [Calls -> 0..MaxInProgress]
    BY <1>0 DEF TypeOK
  <2>2. error \in Errors
    BY DEF Errors, Answers
  <2>3. /\ lastExc' \in [Calls -> Errors \cup {NoError}]
        /\ outcome' \in [Calls -> Errors \cup {"ok", "pending", "cancelled", NoError}]
    BY <1>0, <2>2 DEF TypeOK
  <2>4. attempt' \in [Calls -> Nat] /\ \A d \in Calls : attempt'[d] <= Attempts(d)'
    BY <1>0 DEF TypeOK, Attempts, RetrySafe, Keyed
  <2> QED
    BY <1>0, <2>1, <2>3, <2>4 DEF TypeOK
<1>a. \A d \in Calls : Attempts(d) \in Nat /\ Attempts(d)' = Attempts(d)
  BY <1>0, CallFacts DEF Attempts, RetrySafe, Keyed
<1>2. Ordered'
  BY <1>0, <1>a DEF IInv, TypeOK, Ordered
<1>l. InLoop'
  BY <1>0, <1>a DEF IInv, TypeOK, InLoop
<1>3. InProgressIsKeyed'
  BY <1>0 DEF IInv, TypeOK, InProgressIsKeyed, InLoop, Keyed, Attempts
<1>4. KeyStore' /\ UnkeyedOnce' /\ OkIsReal'
  BY QuietClientStep
<1>5. SuccessIsReal'
  BY <1>0 DEF IInv, TypeOK, SuccessIsReal, OkIsReal, Effect, Keyed,
         Errors, Answers, TransportErrors, NoError
<1>6. NothingKept'
  BY <1>0 DEF IInv, TypeOK, NothingKept, Errors, Answers, TransportErrors, NoError
<1> QED
  BY <1>1, <1>2, <1>l, <1>3, <1>4, <1>5, <1>6 DEF IInv

LEMMA ReceiveInProgressKeeps == ASSUME IInv, NEW c \in Calls, ReceiveInProgress(c) PROVE IInv'
<1> USE MaxInProgressAssumption DEF ReceiveInProgress, CurrentAnswer, Backoff, serverVars
<1>0. TypeOK /\ Attempts(c) \in Nat /\ attempt[c] \in 0..MaxRetries
  BY CallFacts, CurrentRequest DEF IInv
<1>i. /\ inProgressRetries[c] \in 0..(MaxInProgress - 1)
      /\ inProgressRetries' = [inProgressRetries EXCEPT ![c] = inProgressRetries[c] + 1]
  BY <1>0 DEF TypeOK
<1>k. Keyed(c)
  BY <1>0 DEF IInv, InProgressIsKeyed
<1>1. TypeOK'
  BY <1>0, <1>i DEF IInv, TypeOK, InLoop, Attempts, RetrySafe, Keyed,
         Errors, Answers, TransportErrors, NoError
<1>a. \A d \in Calls : Attempts(d) \in Nat /\ Attempts(d)' = Attempts(d)
  BY <1>0, CallFacts DEF Attempts, RetrySafe, Keyed
<1>2. Ordered'
  BY <1>0, <1>a DEF IInv, TypeOK, Ordered
<1>l. InLoop'
  BY <1>0, <1>a DEF IInv, TypeOK, InLoop
<1>3. InProgressIsKeyed'
  BY <1>0, <1>k DEF IInv, TypeOK, InProgressIsKeyed, Keyed
<1>4. KeyStore' /\ UnkeyedOnce' /\ OkIsReal'
  BY QuietClientStep
<1>5. SuccessIsReal'
  BY <1>0 DEF IInv, TypeOK, SuccessIsReal, OkIsReal, Effect, Keyed,
         Errors, Answers, TransportErrors, NoError
<1>6. NothingKept'
  BY <1>0, <1>i DEF IInv, TypeOK, NothingKept, Errors, Answers, TransportErrors, NoError
<1> QED
  BY <1>1, <1>2, <1>l, <1>3, <1>4, <1>5, <1>6 DEF IInv

LEMMA ReceiveFinalKeeps == ASSUME IInv, NEW c \in Calls, ReceiveFinal(c) PROVE IInv'
<1> USE DEF ReceiveFinal, CurrentAnswer, Finish, serverVars
<1>0. TypeOK /\ Attempts(c) \in Nat /\ attempt[c] \in 0..MaxRetries
  BY CallFacts, CurrentRequest DEF IInv
<1>1. TypeOK'
  BY <1>0 DEF IInv, TypeOK, InLoop, Attempts, RetrySafe, Keyed,
         Errors, Answers, TransportErrors, NoError
<1>a. \A d \in Calls : Attempts(d) \in Nat /\ Attempts(d)' = Attempts(d)
  BY <1>0, CallFacts DEF Attempts, RetrySafe, Keyed
<1>2. Ordered'
  BY <1>0, <1>a DEF IInv, TypeOK, Ordered
<1>l. InLoop'
  BY <1>0, <1>a DEF IInv, TypeOK, InLoop
<1>3. InProgressIsKeyed'
  BY <1>0 DEF IInv, TypeOK, InProgressIsKeyed, InLoop, Keyed, Attempts
<1>4. KeyStore' /\ UnkeyedOnce' /\ OkIsReal'
  BY QuietClientStep
<1>5. SuccessIsReal'
  BY <1>0 DEF IInv, TypeOK, SuccessIsReal, OkIsReal, Effect, Keyed,
         Errors, Answers, TransportErrors, NoError
<1>6. NothingKept'
  BY <1>0 DEF IInv, TypeOK, NothingKept, Errors, Answers, TransportErrors, NoError
<1> QED
  BY <1>1, <1>2, <1>l, <1>3, <1>4, <1>5, <1>6 DEF IInv

LEMMA CancelKeeps == ASSUME IInv, NEW c \in Calls, Cancel(c) PROVE IInv'
<1> USE DEF Cancel, Finish, serverVars
<1>0. TypeOK /\ Attempts(c) \in Nat
  BY CallFacts DEF IInv
<1>1. TypeOK'
  BY <1>0 DEF IInv, TypeOK, InLoop, Attempts, RetrySafe, Keyed,
         Errors, Answers, TransportErrors, NoError
<1>a. \A d \in Calls : Attempts(d) \in Nat /\ Attempts(d)' = Attempts(d)
  BY <1>0, CallFacts DEF Attempts, RetrySafe, Keyed
<1>2. Ordered'
  BY <1>0, <1>a DEF IInv, TypeOK, Ordered
<1>l. InLoop'
  BY <1>0, <1>a DEF IInv, TypeOK, InLoop
<1>3. InProgressIsKeyed'
  BY <1>0 DEF IInv, TypeOK, InProgressIsKeyed, InLoop, Keyed, Attempts
<1>4. KeyStore' /\ UnkeyedOnce' /\ OkIsReal'
  BY QuietClientStep
<1>5. SuccessIsReal'
  BY <1>0 DEF IInv, TypeOK, SuccessIsReal, OkIsReal, Effect, Keyed,
         Errors, Answers, TransportErrors, NoError
<1>6. NothingKept'
  BY <1>0 DEF IInv, TypeOK, NothingKept, Errors, Answers, TransportErrors, NoError
<1> QED
  BY <1>1, <1>2, <1>l, <1>3, <1>4, <1>5, <1>6 DEF IInv

(* Every action of the API preserves the invariant.  None of them touches  *)
(* the client, and none of them changes a request that is unsent.          *)
LEMMA ServerStepKeepsClient ==
  ASSUME IInv, NEW c \in Calls, NEW n \in 0..MaxRetries,
         NEW answer \in {"running"} \cup Answers,
         request[c][n] \in {"sent", "running"}, answer = "in_progress" => Keyed(c),
         Answer(c, n, answer), UNCHANGED <<call, clientVars>>
  PROVE  Ordered' /\ InLoop' /\ InProgressIsKeyed' /\ NothingKept'
<1> USE DEF Answer, clientVars
<1>1. Ordered'
  BY DEF IInv, TypeOK, Ordered, Attempts, RetrySafe, Keyed
<1>2. InLoop' /\ NothingKept'
  BY DEF IInv, TypeOK, InLoop, NothingKept, Attempts, RetrySafe, Keyed
<1>3. InProgressIsKeyed'
  BY DEF IInv, TypeOK, InProgressIsKeyed, Keyed
<1> QED
  BY <1>1, <1>2, <1>3

LEMMA TurnAwayKeeps ==
  ASSUME IInv, NEW c \in Calls, NEW n \in 0..MaxRetries, TurnAway(c, n) PROVE IInv'
<1> USE DEF TurnAway, clientVars, serverVars
<1>1. PICK answer \in {"rate_limited", "server_error"} : Answer(c, n, answer)
  OBVIOUS
<1>2. TypeOK'
  BY <1>1 DEF IInv, TypeOK, Answer, Answers, Attempts, RetrySafe, Keyed
<1>3. Ordered' /\ InLoop' /\ InProgressIsKeyed' /\ NothingKept'
  BY <1>1, ServerStepKeepsClient DEF Answers
<1>4. KeyStore'
  BY <1>1 DEF IInv, TypeOK, KeyStore, Answer, Keyed
<1>5. UnkeyedOnce'
  BY <1>1 DEF IInv, TypeOK, UnkeyedOnce, Answer, RetrySafe, Keyed
<1>6. OkIsReal' /\ SuccessIsReal'
  BY <1>1 DEF IInv, TypeOK, OkIsReal, SuccessIsReal, Answer, Effect, Keyed
<1> QED
  BY <1>2, <1>3, <1>4, <1>5, <1>6 DEF IInv

LEMMA ArriveKeeps ==
  ASSUME IInv, NEW c \in Calls, NEW n \in 0..MaxRetries, Arrive(c, n) PROVE IInv'
<1> USE DEF Arrive, clientVars
<1> DEFINE k == call[c].key
<1>0. TypeOK /\ request[c][n] = "sent" /\ (Keyed(c) => k \in Keys)
  BY CallFacts DEF IInv
<1>1. CASE /\ ~Keyed(c) /\ Answer(c, n, "running")
           /\ UNCHANGED keyState
  <2>1. TypeOK'
    BY <1>0, <1>1 DEF IInv, TypeOK, Answer, Answers, Attempts, RetrySafe, Keyed
  <2>2. Ordered' /\ InLoop' /\ InProgressIsKeyed' /\ NothingKept'
    BY <1>0, <1>1, ServerStepKeepsClient
  <2>3. KeyStore'
    <3>1. UNCHANGED <<call, keyState, applied>> /\ ~Keyed(c)
      BY <1>1
    <3>2. \A d \in Calls : \A m \in 0..MaxRetries :
            Keyed(d) /\ request'[d][m] = "running" => request[d][m] = "running"
      BY <1>0, <1>1 DEF TypeOK, Answer
    <3> QED
      BY <3>1, <3>2 DEF IInv, KeyStore, Keyed
  <2>4. UnkeyedOnce'
    BY <1>0, <1>1 DEF IInv, TypeOK, UnkeyedOnce, Answer, RetrySafe, Keyed
  <2>5. OkIsReal' /\ SuccessIsReal'
    BY <1>0, <1>1 DEF IInv, TypeOK, OkIsReal, SuccessIsReal, Answer, Effect, Keyed
  <2> QED
    BY <2>1, <2>2, <2>3, <2>4, <2>5 DEF IInv
<1>2. CASE /\ Keyed(c) /\ keyState[k] = "unused" /\ Answer(c, n, "running")
           /\ keyState' = [keyState EXCEPT ![k] = "running"]
  <2>0. \A d \in Calls : \A m \in 0..MaxRetries :
          Keyed(d) /\ call[d].key = k => request[d][m] # "running"
    BY <1>0, <1>2 DEF IInv, KeyStore
  <2>1. TypeOK'
    BY <1>0, <1>2 DEF IInv, TypeOK, Answer, Answers, Attempts, RetrySafe, Keyed
  <2>2. Ordered' /\ InLoop' /\ InProgressIsKeyed' /\ NothingKept'
    BY <1>0, <1>2, ServerStepKeepsClient
  <2>3. KeyStore'
    BY <1>0, <1>2, <2>0 DEF IInv, TypeOK, KeyStore, Answer, Keyed
  <2>4. UnkeyedOnce'
    BY <1>0, <1>2 DEF IInv, TypeOK, UnkeyedOnce, Answer, RetrySafe, Keyed
  <2>5. OkIsReal' /\ SuccessIsReal'
    BY <1>0, <1>2 DEF IInv, TypeOK, OkIsReal, SuccessIsReal, Answer, Effect, Keyed
  <2> QED
    BY <2>1, <2>2, <2>3, <2>4, <2>5 DEF IInv
<1>3. CASE /\ Keyed(c) /\ keyState[k] = "running" /\ Answer(c, n, "in_progress")
           /\ UNCHANGED keyState
  <2>1. TypeOK'
    BY <1>0, <1>3 DEF IInv, TypeOK, Answer, Answers, Attempts, RetrySafe, Keyed
  <2>2. Ordered' /\ InLoop' /\ InProgressIsKeyed' /\ NothingKept'
    BY <1>0, <1>3, ServerStepKeepsClient DEF Answers
  <2>3. KeyStore'
    BY <1>0, <1>3 DEF IInv, TypeOK, KeyStore, Answer, Keyed
  <2>4. UnkeyedOnce'
    BY <1>0, <1>3 DEF IInv, TypeOK, UnkeyedOnce, Answer, RetrySafe, Keyed
  <2>5. OkIsReal' /\ SuccessIsReal'
    BY <1>0, <1>3 DEF IInv, TypeOK, OkIsReal, SuccessIsReal, Answer, Effect, Keyed
  <2> QED
    BY <2>1, <2>2, <2>3, <2>4, <2>5 DEF IInv
<1>4. CASE /\ Keyed(c) /\ keyState[k] = "done" /\ Answer(c, n, "ok")
           /\ UNCHANGED keyState
  <2>0. Effect(c) = k /\ applied[k] = 1
    BY <1>0, <1>4, CallFacts DEF IInv, KeyStore
  <2>1. TypeOK'
    BY <1>0, <1>4 DEF IInv, TypeOK, Answer, Answers, Attempts, RetrySafe, Keyed
  <2>2. Ordered' /\ InLoop' /\ InProgressIsKeyed' /\ NothingKept'
    BY <1>0, <1>4, ServerStepKeepsClient DEF Answers
  <2>3. KeyStore'
    BY <1>0, <1>4 DEF IInv, TypeOK, KeyStore, Answer, Keyed
  <2>4. UnkeyedOnce'
    BY <1>0, <1>4 DEF IInv, TypeOK, UnkeyedOnce, Answer, RetrySafe, Keyed
  <2>5. OkIsReal' /\ SuccessIsReal'
    BY <1>0, <1>4, <2>0 DEF IInv, TypeOK, OkIsReal, SuccessIsReal, Answer, Effect, Keyed
  <2> QED
    BY <2>1, <2>2, <2>3, <2>4, <2>5 DEF IInv
<1> QED
  BY <1>1, <1>2, <1>3, <1>4

LEMMA RefuseKeeps ==
  ASSUME IInv, NEW c \in Calls, NEW n \in 0..MaxRetries, Refuse(c, n) PROVE IInv'
<1> USE DEF Refuse, clientVars
<1>0. /\ TypeOK /\ request[c][n] = "running"
      /\ Keyed(c) => call[c].key \in Keys /\ keyState[call[c].key] = "running"
  BY CallFacts DEF IInv, KeyStore
<1>k. \A d \in Calls : \A m \in 0..MaxRetries :
        /\ Keyed(d) /\ Keyed(c) /\ call[d].key = call[c].key
        /\ request[d][m] = "running"
        => d = c /\ m = n
  BY <1>0 DEF IInv, KeyStore
<1>1. PICK answer \in {"rejected", "server_error"} : Answer(c, n, answer)
  OBVIOUS
<1>2. TypeOK'
  BY <1>0, <1>1 DEF IInv, TypeOK, Answer, Answers, Attempts, RetrySafe, Keyed
<1>3. Ordered' /\ InLoop' /\ InProgressIsKeyed' /\ NothingKept'
  BY <1>0, <1>1, ServerStepKeepsClient DEF Answers
<1>4. KeyStore'
  <2>1. (\A k \in Keys : applied[k] = IF keyState[k] = "done" THEN 1 ELSE 0)'
    BY <1>0, <1>1 DEF IInv, TypeOK, KeyStore, Effects
  <2>2. (\A d \in Calls : \A m \in 0..MaxRetries :
           Keyed(d) /\ request[d][m] = "running" => keyState[call[d].key] = "running")'
    BY <1>0, <1>1, <1>k, CallFacts DEF IInv, TypeOK, KeyStore, Answer, Keyed
  <2>3. (\A d, e \in Calls : \A m, l \in 0..MaxRetries :
           /\ Keyed(d) /\ call[d].key = call[e].key
           /\ request[d][m] = "running" /\ request[e][l] = "running"
           => d = e /\ m = l)'
    BY <1>0, <1>1 DEF IInv, TypeOK, KeyStore, Answer, Keyed
  <2> QED
    BY <2>1, <2>2, <2>3 DEF KeyStore
<1>5. UnkeyedOnce'
  BY <1>0, <1>1 DEF IInv, TypeOK, UnkeyedOnce, Answer, RetrySafe, Keyed
<1>6. OkIsReal' /\ SuccessIsReal'
  BY <1>0, <1>1 DEF IInv, TypeOK, OkIsReal, SuccessIsReal, Answer, Effect, Keyed
<1> QED
  BY <1>2, <1>3, <1>4, <1>5, <1>6 DEF IInv

LEMMA ApplyKeeps ==
  ASSUME IInv, NEW c \in Calls, NEW n \in 0..MaxRetries, Apply(c, n) PROVE IInv'
<1> USE DEF Apply, clientVars
<1>0. /\ TypeOK /\ request[c][n] = "running" /\ Effect(c) \in Effects
      /\ Keyed(c) => /\ call[c].key \in Keys /\ keyState[call[c].key] = "running"
                     /\ applied[call[c].key] = 0 /\ Effect(c) = call[c].key
      /\ ~Keyed(c) => Effect(c) = c
  BY CallFacts DEF IInv, KeyStore
<1>k. \A d \in Calls : \A m \in 0..MaxRetries :
        /\ Keyed(d) /\ Keyed(c) /\ call[d].key = call[c].key
        /\ request[d][m] = "running"
        => d = c /\ m = n
  BY <1>0 DEF IInv, KeyStore
<1>1. PICK answer \in {"ok", "server_error"} : Answer(c, n, answer)
  OBVIOUS
<1>2. TypeOK'
  BY <1>0, <1>1 DEF IInv, TypeOK, Answer, Answers, Attempts, RetrySafe, Keyed
<1>3. Ordered' /\ InLoop' /\ InProgressIsKeyed' /\ NothingKept'
  BY <1>0, <1>1, ServerStepKeepsClient DEF Answers
<1>4. KeyStore'
  <2>1. (\A k \in Keys : applied[k] = IF keyState[k] = "done" THEN 1 ELSE 0)'
    BY <1>0, <1>1, KeysAssumption DEF IInv, TypeOK, KeyStore, Effects
  <2>2. (\A d \in Calls : \A m \in 0..MaxRetries :
           Keyed(d) /\ request[d][m] = "running" => keyState[call[d].key] = "running")'
    BY <1>0, <1>1, <1>k, CallFacts DEF IInv, TypeOK, KeyStore, Answer, Keyed
  <2>3. (\A d, e \in Calls : \A m, l \in 0..MaxRetries :
           /\ Keyed(d) /\ call[d].key = call[e].key
           /\ request[d][m] = "running" /\ request[e][l] = "running"
           => d = e /\ m = l)'
    BY <1>0, <1>1 DEF IInv, TypeOK, KeyStore, Answer, Keyed
  <2> QED
    BY <2>1, <2>2, <2>3 DEF KeyStore
<1>u. ~RetrySafe(c) => n = 0 /\ applied[c] = 0
  BY <1>0, CallFacts DEF IInv, UnkeyedOnce, Ordered
<1>5. UnkeyedOnce'
  <2> SUFFICES ASSUME NEW d \in Calls, ~RetrySafe(d)
               PROVE  /\ applied'[d] <= 1
                      /\ request'[d][0] \in {"unsent", "sent", "running"} => applied'[d] = 0
    BY DEF UnkeyedOnce, RetrySafe, Keyed
  <2>1. CASE d = c
    BY <1>0, <1>1, <1>u, <2>1, CallFacts, MaxRetriesAssumption DEF TypeOK, Answer, Effects
  <2>2. CASE d # c
    <3>1. Effect(c) # d
      BY <1>0, <2>2, KeysAssumption
    <3> QED
      BY <1>0, <1>1, <2>2, <3>1 DEF IInv, TypeOK, UnkeyedOnce, Answer, Effects
  <2> QED
    BY <2>1, <2>2
<1>6. OkIsReal' /\ SuccessIsReal'
  <2>1. /\ \A e \in Effects : applied'[e] >= applied[e]
        /\ applied'[Effect(c)] >= 1 /\ outcome' = outcome
    BY <1>0 DEF TypeOK
  <2>2. \A d \in Calls : Effect(d)' = Effect(d) /\ Effect(d) \in Effects
    BY <1>0, CallFacts DEF Effect, Keyed
  <2>3. \A d \in Calls, m \in 0..MaxRetries :
          request'[d][m] = "ok" => request[d][m] = "ok" \/ d = c
    BY <1>1, <1>0 DEF TypeOK, Answer
  <2>t. \A e \in Effects : applied[e] \in Nat /\ applied'[e] \in Nat
    BY <1>0, <1>2 DEF TypeOK
  <2>4. OkIsReal'
    BY <1>0, <2>1, <2>2, <2>3, <2>t DEF IInv, OkIsReal
  <2>5. SuccessIsReal'
    BY <1>0, <2>1, <2>2, <2>t DEF IInv, SuccessIsReal
  <2> QED
    BY <2>4, <2>5
<1> QED
  BY <1>2, <1>3, <1>4, <1>5, <1>6 DEF IInv

-----------------------------------------------------------------------------
(* The invariant is inductive. *)
LEMMA NextKeeps == IInv /\ [Next]_vars => IInv'
<1> SUFFICES ASSUME IInv, [Next]_vars PROVE IInv'
  OBVIOUS
<1>1. ASSUME NEW c \in Calls, ClientStep(c) PROVE IInv'
  <2>1. CASE Send(c)
    BY <2>1, SendKeeps
  <2>2. CASE Exhausted(c)
    BY <2>2, ExhaustedKeeps
  <2>3. CASE WakeUp(c)
    BY <2>3, WakeUpKeeps
  <2>4. CASE ReceiveServerError(c)
    BY <2>4, RaiseOrRetryKeeps DEF ReceiveServerError
  <2>5. CASE ReceiveInProgress(c)
    BY <2>5, ReceiveInProgressKeeps
  <2>6. CASE ReceiveFinal(c)
    BY <2>6, ReceiveFinalKeeps
  <2>7. ASSUME NEW error \in TransportErrors, TransportFailure(c, error) PROVE IInv'
    BY <2>7, RaiseOrRetryKeeps DEF TransportFailure
  <2> QED
    BY <1>1, <2>1, <2>2, <2>3, <2>4, <2>5, <2>6, <2>7 DEF ClientStep
<1>2. ASSUME NEW c \in Calls, NEW n \in 0..MaxRetries, ServerStep(c, n) PROVE IInv'
  BY <1>2, ArriveKeeps, TurnAwayKeeps, ApplyKeeps, RefuseKeeps DEF ServerStep
<1>3. CASE UNCHANGED vars
  BY <1>3 DEF vars, clientVars, serverVars, IInv, TypeOK, Ordered, InLoop,
     InProgressIsKeyed, KeyStore, UnkeyedOnce, OkIsReal, SuccessIsReal, NothingKept,
     Attempts, RetrySafe, Keyed, Effect
<1> QED
  BY <1>1, <1>2, <1>3, CancelKeeps DEF Next

LEMMA Invariance == Spec => []IInv
BY InitIInv, NextKeeps, PTL DEF Spec

(* Type correctness, for any calls, keys and max_retries. *)
THEOREM TypeCorrect == Spec => []TypeOK
<1>1. IInv => TypeOK
  BY DEF IInv
<1> QED
  BY Invariance, <1>1, PTL

(* No POST takes effect twice, with a key or without (client.py:106-117). *)
THEOREM AtMostOnce == Spec => []AppliedAtMostOnce
<1>1. IInv => AppliedAtMostOnce
  <2> SUFFICES ASSUME IInv, NEW c \in Calls, call[c].method = "POST"
               PROVE  applied[Effect(c)] <= 1
    BY DEF AppliedAtMostOnce
  <2>1. CASE Keyed(c)
    BY <2>1, CallFacts DEF IInv, KeyStore
  <2>2. CASE ~Keyed(c)
    BY <2>2, CallFacts DEF IInv, UnkeyedOnce, RetrySafe
  <2> QED
    BY <2>1, <2>2
<1> QED
  BY Invariance, <1>1, PTL

(* A reported success is backed by an effect that happened. *)
THEOREM SuccessBacked == Spec => []SuccessIsReal
<1>1. IInv => SuccessIsReal
  BY DEF IInv
<1> QED
  BY Invariance, <1>1, PTL

(* The loop raises nothing but real errors when it has more attempts than  *)
(* it may spend on "in progress" answers.  The code spends two, so the     *)
(* default of 3 is the least max_retries for which client.py:193 is safe.  *)
NothingInv == IInv /\ NeverRaisesNothing

LEMMA NothingRaised ==
  ASSUME MaxRetries > MaxInProgress, NothingInv, [Next]_vars PROVE NeverRaisesNothing'
<1> USE DEF NothingInv
<1>1. ASSUME NEW c \in Calls, Exhausted(c) PROVE lastExc[c] # NoError
  <2>1. /\ attempt[c] >= Attempts(c) /\ pc[c] = "ready"
        /\ attempt[c] \in Nat /\ inProgressRetries[c] \in 0..MaxInProgress
    BY <1>1 DEF Exhausted, IInv, TypeOK
  <2>2. SUFFICES ASSUME lastExc[c] = NoError PROVE FALSE
    OBVIOUS
  <2>3. attempt[c] <= inProgressRetries[c]
    BY <2>1, <2>2 DEF IInv, NothingKept
  <2>4. CASE RetrySafe(c)
    BY <2>1, <2>3, <2>4, CallFacts, MaxRetriesAssumption, MaxInProgressAssumption DEF IInv
  <2>5. CASE ~RetrySafe(c)
    BY <2>1, <2>3, <2>5, CallFacts, MaxInProgressAssumption DEF IInv, InProgressIsKeyed
  <2> QED
    BY <2>4, <2>5
<1>2. ASSUME NEW c \in Calls, NEW result, result # NoError, Finish(c, result)
      PROVE  NeverRaisesNothing'
  BY <1>2 DEF IInv, TypeOK, NeverRaisesNothing, Finish
<1>3. ASSUME outcome' = outcome PROVE NeverRaisesNothing'
  BY <1>3 DEF NeverRaisesNothing
<1>4. ASSUME NEW c \in Calls, ClientStep(c) \/ Cancel(c) PROVE NeverRaisesNothing'
  <2>1. CASE Exhausted(c)
    BY <1>1, <1>2, <2>1 DEF Exhausted
  <2>2. CASE Cancel(c)
    BY <1>2, <2>2 DEF Cancel, NoError
  <2>3. CASE ReceiveFinal(c)
    BY <1>2, <2>3 DEF ReceiveFinal, NoError
  <2>4. ASSUME NEW error \in TransportErrors \cup {"server_error"}, RetryOrRaise(c, error)
        PROVE  NeverRaisesNothing'
    BY <1>2, <1>3, <2>4 DEF RetryOrRaise, Backoff, TransportErrors, NoError
  <2>5. CASE Send(c) \/ WakeUp(c) \/ ReceiveInProgress(c)
    BY <1>3, <2>5 DEF Send, WakeUp, ReceiveInProgress, Backoff
  <2> QED
    BY <1>4, <2>1, <2>2, <2>3, <2>4, <2>5 DEF ClientStep, ReceiveServerError, TransportFailure
<1>5. ASSUME NEW c \in Calls, NEW n \in 0..MaxRetries, ServerStep(c, n)
      PROVE  NeverRaisesNothing'
  BY <1>3, <1>5 DEF ServerStep, Arrive, TurnAway, Apply, Refuse, clientVars
<1>6. CASE UNCHANGED vars
  BY <1>3, <1>6 DEF vars, clientVars
<1> QED
  BY <1>4, <1>5, <1>6 DEF Next

THEOREM RaisesRealErrors ==
  ASSUME MaxRetries > MaxInProgress PROVE Spec => []NeverRaisesNothing
<1>1. Init => NeverRaisesNothing
  BY DEF Init, NeverRaisesNothing, NoError
<1>2. NothingInv /\ [Next]_vars => NothingInv'
  BY NothingRaised, NextKeeps DEF NothingInv
<1>3. NothingInv => NeverRaisesNothing
  BY DEF NothingInv
<1> QED
  BY <1>1, <1>2, <1>3, InitIInv, PTL DEF Spec, NothingInv

-----------------------------------------------------------------------------
(* The steps a call has left: three for each attempt (send, answer, sleep),*)
(* and three for its end.                                                  *)
StepsLeft(c) ==
  IF pc[c] = "done" THEN 0
  ELSE 3 * (Attempts(c) - attempt[c])
       + (IF pc[c] = "ready" THEN 3 ELSE IF pc[c] = "waiting" THEN 2 ELSE 1)

Untouched(c) ==
  /\ pc'[c] = pc[c] /\ attempt'[c] = attempt[c]
  /\ inProgressRetries'[c] = inProgressRetries[c]
  /\ lastExc'[c] = lastExc[c] /\ outcome'[c] = outcome[c]

LEMMA StepsAreCounted ==
  ASSUME IInv, NEW c \in Calls
  PROVE  /\ StepsLeft(c) \in 0 .. 3 * Attempts(c) + 3
         /\ call' = call => Attempts(c)' = Attempts(c)
         /\ Attempts(c) \in Nat /\ attempt[c] \in 0 .. Attempts(c)
         /\ pc[c] = "ready" => StepsLeft(c) = 3 * (Attempts(c) - attempt[c]) + 3
         /\ pc[c] = "waiting" => StepsLeft(c) = 3 * (Attempts(c) - attempt[c]) + 2
         /\ pc[c] = "sleeping" => StepsLeft(c) = 3 * (Attempts(c) - attempt[c]) + 1
         /\ pc[c] = "done" => StepsLeft(c) = 0
<1>1. /\ Attempts(c) \in Nat /\ attempt[c] \in 0 .. Attempts(c)
      /\ pc[c] \in {"ready", "waiting", "sleeping", "done"}
  BY CallFacts DEF IInv, TypeOK
<1>2. call' = call => Attempts(c)' = Attempts(c)
  BY DEF Attempts, RetrySafe, Keyed
<1>3. QED  BY <1>1, <1>2 DEF StepsLeft

(* A step that a client takes, or its cancellation, is one of those left.  *)
LEMMA OwnStepCounts ==
  ASSUME IInv, IInv', NEW c \in Calls, ClientStep(c) \/ Cancel(c)
  PROVE  StepsLeft(c)' < StepsLeft(c)
<1>0. /\ call' = call /\ pc \in [Calls -> {"ready", "waiting", "sleeping", "done"}]
      /\ attempt \in [Calls -> Nat]
  BY DEF IInv, TypeOK, ClientStep, Send, Exhausted, WakeUp, ReceiveServerError,
         ReceiveInProgress, ReceiveFinal, TransportFailure, Cancel
<1>1. /\ Attempts(c)' = Attempts(c) /\ Attempts(c) \in Nat
      /\ attempt[c] \in 0 .. Attempts(c)
      /\ pc[c] # "done" => StepsLeft(c) >= 1
      /\ pc[c] = "ready" => StepsLeft(c) = 3 * (Attempts(c) - attempt[c]) + 3
      /\ pc[c] = "waiting" => StepsLeft(c) = 3 * (Attempts(c) - attempt[c]) + 2
      /\ pc[c] = "sleeping" => StepsLeft(c) = 3 * (Attempts(c) - attempt[c]) + 1
  <2>1. pc[c] \in {"ready", "waiting", "sleeping", "done"}
    BY <1>0
  <2>2. QED  BY <2>1, <1>0, StepsAreCounted
<1>2. ASSUME pc'[c] = "done", pc[c] # "done" PROVE StepsLeft(c)' < StepsLeft(c)
  BY <1>1, <1>2 DEF StepsLeft
<1>3. CASE Send(c)
  <2>1. pc[c] = "ready" /\ pc'[c] = "waiting" /\ attempt' = attempt
    BY <1>0, <1>3 DEF Send
  <2>2. QED  BY <2>1, <1>1 DEF StepsLeft
<1>4. CASE WakeUp(c)
  <2>1. pc[c] = "sleeping" /\ pc'[c] = "ready" /\ attempt'[c] = attempt[c] + 1
    BY <1>0, <1>4 DEF WakeUp
  <2>2. QED  BY <2>1, <1>1 DEF StepsLeft
<1>5. ASSUME pc[c] = "waiting", Backoff(c), attempt' = attempt
      PROVE  StepsLeft(c)' < StepsLeft(c)
  <2>1. pc'[c] = "sleeping"
    BY <1>0, <1>5 DEF Backoff
  <2>2. QED  BY <2>1, <1>1, <1>5 DEF StepsLeft
<1>6. ASSUME NEW result, pc[c] # "done", Finish(c, result)
      PROVE  StepsLeft(c)' < StepsLeft(c)
  BY <1>0, <1>2, <1>6 DEF Finish
<1>7. CASE Exhausted(c) \/ ReceiveFinal(c) \/ Cancel(c)
  BY <1>6, <1>7 DEF Exhausted, ReceiveFinal, Cancel
<1>8. CASE ReceiveInProgress(c)
  BY <1>5, <1>8 DEF ReceiveInProgress
<1>9. CASE ReceiveServerError(c) \/ \E error \in TransportErrors : TransportFailure(c, error)
  <2>1. PICK error : pc[c] = "waiting" /\ RetryOrRaise(c, error) /\ attempt' = attempt
    BY <1>9 DEF ReceiveServerError, TransportFailure
  <2>2. QED  BY <2>1, <1>5, <1>6 DEF RetryOrRaise
<1>10. QED  BY <1>3, <1>4, <1>7, <1>8, <1>9 DEF ClientStep

(* Nobody else touches a call.                                             *)
LEMMA OtherStepsLeaveItAlone ==
  ASSUME IInv, NEW c \in Calls, [Next]_vars, ~ (ClientStep(c) \/ Cancel(c))
  PROVE  Untouched(c) /\ StepsLeft(c)' = StepsLeft(c)
<1>1. Untouched(c) /\ call' = call
  <2>1. ASSUME NEW d \in Calls, d # c, ClientStep(d) \/ Cancel(d)
        PROVE  Untouched(c) /\ call' = call
    BY <2>1 DEF Untouched, IInv, TypeOK, ClientStep, Cancel, Finish, Send, Exhausted, WakeUp,
           ReceiveServerError, ReceiveInProgress, ReceiveFinal, TransportFailure,
           RetryOrRaise, Backoff
  <2>2. ASSUME NEW d \in Calls, NEW n \in 0..MaxRetries, ServerStep(d, n)
        PROVE  Untouched(c) /\ call' = call
    BY <2>2 DEF Untouched, ServerStep, Arrive, TurnAway, Apply, Refuse, clientVars
  <2>3. CASE UNCHANGED vars
    BY <2>3 DEF Untouched, vars, clientVars
  <2>4. QED  BY <2>1, <2>2, <2>3 DEF Next
<1>2. QED  BY <1>1, StepsAreCounted DEF StepsLeft, Untouched

(* Only its own steps change a call, and each of them is counted.          *)
EveryStepCounts ==
  \A c \in Calls :
    \/ StepsLeft(c)' < StepsLeft(c)
    \/ Untouched(c) /\ StepsLeft(c)' = StepsLeft(c)

BudgetHolds ==
  \A c \in Calls :
    /\ StepsLeft(c) \in 0 .. 3 * Attempts(c) + 3
    /\ StepsLeft(c) = 0 <=> pc[c] = "done"

(* The retries of _request run out: whatever the API answers, and however  *)
(* often it says "in progress", a call takes at most 3 * Attempts(c) + 3   *)
(* steps (send, answer and sleep of each attempt, and the end), each of    *)
(* its steps leaves fewer, and no other call nor the API adds any.  What   *)
(* Terminates adds is that a client which can move does.                   *)
THEOREM RetriesRunOut == Spec => []BudgetHolds /\ [][EveryStepCounts]_vars
<1>1. IInv => BudgetHolds
  <2>1. ASSUME IInv, NEW c \in Calls
        PROVE  /\ StepsLeft(c) \in 0 .. 3 * Attempts(c) + 3
               /\ StepsLeft(c) = 0 <=> pc[c] = "done"
    <3>1. pc[c] \in {"ready", "waiting", "sleeping", "done"}
      BY <2>1 DEF IInv, TypeOK
    <3>2. QED  BY <2>1, <3>1, StepsAreCounted
  <2>2. QED  BY <2>1 DEF BudgetHolds
<1>2. IInv /\ IInv' /\ [Next]_vars => [EveryStepCounts]_vars
  <2>1. ASSUME IInv, IInv', [Next]_vars, NEW c \in Calls
        PROVE  \/ StepsLeft(c)' < StepsLeft(c)
               \/ Untouched(c) /\ StepsLeft(c)' = StepsLeft(c)
    BY <2>1, OwnStepCounts, OtherStepsLeaveItAlone
  <2>2. QED  BY <2>1 DEF EveryStepCounts
<1>3. QED  BY <1>1, <1>2, InitIInv, NextKeeps, PTL DEF Spec
=============================================================================
