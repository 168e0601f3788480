----------------------------- MODULE CacheStore -----------------------------
(***************************************************************************)
(* What CacheStore (cache/store.py) promises to the service while several  *)
(* calls are under way at once: an entry only changes on account of a call *)
(* that is working on it, a read returns what the entry is at one moment   *)
(* of the call, and what a drop leaves was touched by a set while the drop *)
(* was running.  A call that sets or drops an entry may lose it, and may   *)
(* fail; a crash ends every call where it is and keeps the entries.        *)
(*                                                                         *)
(* Time-to-live is module SemanticCache's: it compares ages of entries.    *)
(***************************************************************************)
CONSTANTS Threads,    \* the threads that calls run on
          Keys,
          Families,   \* the sets of keys that one drop may remove
          Values,     \* what may be stored
          Nothing,    \* no entry, or none that can be read
          Ok, Failed  \* how a set or a drop ends

VARIABLES entries,    \* what a read of each key would return
          calls,      \* the call each thread is in
          touched,    \* the keys set since that call began, if it is a drop
          answer      \* how the last call of each thread ended

vars == <<entries, calls, touched, answer>>

Idle == [op |-> "none", keys |-> {}, value |-> Nothing]
Gets == [op : {"get"}, keys : {{k} : k \in Keys}, value : {Nothing}]
Sets == [op : {"set"}, keys : {{k} : k \in Keys}, value : Values]
Drops == [op : {"drop"}, keys : Families, value : {Nothing}]

Init ==
  /\ entries = [k \in Keys |-> Nothing]
  /\ calls = [t \in Threads |-> Idle]
  /\ touched = [t \in Threads |-> {}]
  /\ answer = [t \in Threads |-> Nothing]

BeingSet == UNION {calls[t].keys : t \in {u \in Threads : calls[u].op = "set"}}

(* A call begins; a set touches its key for every drop that is running. *)
Begin(t) ==
  /\ calls[t] = Idle
  /\ \E call \in Gets \cup Sets \cup Drops :
       /\ calls' = [calls EXCEPT ![t] = call]
       /\ touched' = [u \in Threads |->
                        IF u = t THEN (IF call.op = "drop" THEN BeingSet ELSE {})
                        ELSE IF call.op = "set" /\ calls[u].op = "drop"
                             THEN touched[u] \cup call.keys ELSE touched[u]]
  /\ answer' = [answer EXCEPT ![t] = Nothing]
  /\ UNCHANGED entries

(* A set takes effect. *)
Put(t) ==
  /\ calls[t].op = "set"
  /\ \E k \in calls[t].keys : entries' = [entries EXCEPT ![k] = calls[t].value]

(* An entry is lost on account of a set or a drop. *)
Lose(t) ==
  /\ calls[t].op \in {"set", "drop"}
  /\ \E k \in calls[t].keys : entries' = [entries EXCEPT ![k] = Nothing]

(* A call ends, with its last effect or without one. *)
Returns(t, a) ==
  /\ calls' = [calls EXCEPT ![t] = Idle]
  /\ touched' = [touched EXCEPT ![t] = {}]
  /\ answer' = [answer EXCEPT ![t] = a]

EndGet(t) ==
  /\ calls[t].op = "get"
  /\ \E k \in calls[t].keys : Returns(t, entries[k])
  /\ UNCHANGED entries

EndSet(t) ==
  /\ calls[t].op = "set"
  /\ \E a \in {Ok, Failed} : Returns(t, a)
  /\ UNCHANGED entries \/ Put(t) \/ Lose(t)

EndDrop(t) ==
  /\ calls[t].op = "drop"
  /\ UNCHANGED entries \/ Lose(t)
  /\ \/ Returns(t, Failed)
     \/ /\ Returns(t, Ok)
        /\ \A k \in calls[t].keys \ touched[t] : entries'[k] = Nothing

Crash ==
  /\ calls' = [t \in Threads |-> Idle]
  /\ touched' = [t \in Threads |-> {}]
  /\ answer' = [t \in Threads |-> Nothing]
  /\ UNCHANGED entries

Next ==
  \/ \E t \in Threads : Begin(t) \/ EndGet(t) \/ EndSet(t) \/ EndDrop(t)
  \/ \E t \in Threads : (Put(t) \/ Lose(t)) /\ UNCHANGED <<calls, touched, answer>>
  \/ Crash

Spec == Init /\ [][Next]_vars
=============================================================================
