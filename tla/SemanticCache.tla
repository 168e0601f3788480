--------------------------- MODULE SemanticCache ---------------------------
(***************************************************************************)
(* SemanticService over its cache: _cached_fetch and refresh_cache         *)
(* (application/use_cases.py), _write_op (application/write_use_cases.py)  *)
(* and the entries of FileCacheStore (cache/file_store.py).                *)
(*                                                                         *)
(* Tasks are the tool calls the event loop interleaves at every await; a   *)
(* task that is done may serve another call.  The API holds a version of   *)
(* the content of each key and counts it up when a write changes it.  An   *)
(* entry remembers the version it was filled with.  Time passes in ticks;  *)
(* ages stop counting once nothing depends on them any more.               *)
(***************************************************************************)
EXTENDS Naturals, Sequences

CONSTANTS
  Tasks,          \* tool calls in progress
  Keys,           \* cache keys
  RmdKey,         \* the key df_refresh_cache fetches again
  Scopes,         \* scopes of writes and refreshes
  Drops,          \* for each scope, the keys under each of its prefixes, in order
  Changes,        \* for each scope, the keys whose content a write may change
  TTL,            \* cache_ttl_seconds, in ticks
  MaxFetchTime,   \* ticks from the API's reading of its state to cache.set
  MaxVersion,     \* bound of the model: versions of a key's content
  Disturbances,   \* what the environment may do, see below
  NoEntry,        \* no file for the key, or none that can be read
  NoSample        \* nothing fetched

(***************************************************************************)
(* "overlap": reads run while a write is under way; "api": fetches and     *)
(* writes may fail; "lost": a write takes effect and its caller is told    *)
(* otherwise, or never hears; "outsider": someone changes the content      *)
(* without this cache; "disk": the cache directory may refuse a change;    *)
(* "leftovers": rmtree may leave entries behind, and ignores its errors;   *)
(* "cancel": a call is cancelled, or all of them are when the process dies *)
(* (the entries survive a restart, and so does nothing else).              *)
(***************************************************************************)
ASSUME ScopeAssumption ==
  /\ Drops \in [Scopes -> Seq(SUBSET Keys)]
  /\ Changes \in [Scopes -> SUBSET Keys]
ASSUME KeyAssumption == RmdKey \in Keys
ASSUME BoundAssumption == TTL \in Nat /\ MaxFetchTime \in Nat /\ MaxVersion \in Nat
ASSUME DisturbanceAssumption ==
  Disturbances \subseteq
    {"overlap", "api", "lost", "outsider", "disk", "leftovers", "cancel"}

(* Every key a write may change lies under a prefix it drops; established  *)
(* for the scopes of the real write use cases in module Invalidation.      *)
ASSUME DropsCoverChanges ==
  \A s \in Scopes : \A k \in Changes[s] : \E i \in 1..Len(Drops[s]) : k \in Drops[s][i]

VARIABLES
  api,        \* the version of every key's content at the API
  acked,      \* the version the last acknowledged write made of it
  cache,      \* the entries on disk, which survive restarts
  pc, op,     \* where each task is and what it serves
  key, scope, \* the key it reads, the scope it writes
  sample,     \* the content it has fetched and not yet stored
  dropped,    \* the number of prefixes it has dropped
  wrote,      \* the versions its write has made
  before,     \* api and acked of its key when the call came in
  result      \* what it returned

taskVars == <<pc, op, key, scope, sample, dropped, wrote, before, result>>
vars == <<api, acked, cache, taskVars>>

Versions == 0..MaxVersion

(* Ages stop one past the last value that is told apart. *)
MaxAge == TTL + 1
MaxSampleAge == TTL + MaxFetchTime + 1
Older(age, limit) == IF age < limit THEN age + 1 ELSE limit

Samples == [version : Versions, age : 0..MaxFetchTime]
Entries == [version : Versions, age : 0..MaxAge, sampleAge : 0..MaxSampleAge]
ASSUME NothingAssumption == NoEntry \notin Entries /\ NoSample \notin Samples

Sources == {"none", "hit", "api", "last known good", "written", "error"}

Idle(t) == pc[t] = "idle"

FreshTooLong(k) ==    \* mutant: an entry lives one tick longer
  cache[k] # NoEntry /\ cache[k].age <= TTL + 1
Fresh(k) == cache[k] # NoEntry /\ cache[k].age <= TTL

Init ==
  /\ api = [k \in Keys |-> 0]
  /\ acked = [k \in Keys |-> 0]
  /\ cache = [k \in Keys |-> NoEntry]
  /\ pc = [t \in Tasks |-> "idle"]
  /\ op = [t \in Tasks |-> "read"]
  /\ key \in [Tasks -> {RmdKey}]
  /\ scope \in {[t \in Tasks |-> s] : s \in Scopes}
  /\ sample = [t \in Tasks |-> NoSample]
  /\ dropped = [t \in Tasks |-> 0]
  /\ wrote = [t \in Tasks |-> [k \in Keys |-> 0]]
  /\ before = [t \in Tasks |-> [api |-> 0, acked |-> 0]]
  /\ result = [t \in Tasks |-> [source |-> "none", version |-> 0, sampleAge |-> 0]]

(* The call of t ends; only what it served and returned stays on record. *)
Return(t, source, version, sampleAge) ==
  /\ pc' = [pc EXCEPT ![t] = "idle"]
  /\ result' = [result EXCEPT ![t] =
                 [source |-> source, version |-> version, sampleAge |-> sampleAge]]
  /\ sample' = [sample EXCEPT ![t] = NoSample]
  /\ dropped' = [dropped EXCEPT ![t] = 0]
  /\ wrote' = [wrote EXCEPT ![t] = [k \in Keys |-> 0]]
  /\ UNCHANGED <<op, key, scope, before>>

Raise(t) == Return(t, "error", 0, 0)
ReturnEntry(t, source) == Return(t, source, cache[key[t]].version, cache[key[t]].sampleAge)

(* The call of t goes on. *)
GoTo(t, label) ==
  /\ pc' = [pc EXCEPT ![t] = label]
  /\ UNCHANGED <<op, key, scope, before, result>>

Begin(t, service, label, k, s) ==
  /\ Idle(t)
  /\ pc' = [pc EXCEPT ![t] = label]
  /\ op' = [op EXCEPT ![t] = service]
  /\ key' = [key EXCEPT ![t] = k]
  /\ scope' = [scope EXCEPT ![t] = s]
  /\ before' = [before EXCEPT ![t] = [api |-> api[k], acked |-> acked[k]]]
  /\ result' = [result EXCEPT ![t] = [source |-> "none", version |-> 0, sampleAge |-> 0]]
  /\ UNCHANGED <<api, acked, cache, sample, dropped, wrote>>

(* Without "overlap" an agent finishes its writes before it reads, and its *)
(* reads before it writes.                                                 *)
NoneServes(services) ==
  "overlap" \in Disturbances \/ \A t \in Tasks : Idle(t) \/ op[t] \notin services

-----------------------------------------------------------------------------
(* _cached_fetch *)

BeginRead(t) ==
  /\ NoneServes({"write"})
  /\ \E k \in Keys, useCache \in BOOLEAN :
       Begin(t, "read", IF useCache THEN "lookup" ELSE "fetch", k, scope[t])

(* FileCacheStore.get: an entry of age TTL is still served. *)
LookupSliding(t) ==    \* mutant: a hit extends the life of the entry
  /\ pc[t] = "lookup"
  /\ \/ /\ Fresh(key[t]) /\ ReturnEntry(t, "hit")
        /\ cache' = [cache EXCEPT ![key[t]].age = 0]
     \/ /\ ~Fresh(key[t]) /\ GoTo(t, "fetch")
        /\ UNCHANGED <<sample, dropped, wrote, cache>>
  /\ UNCHANGED <<api, acked>>

Lookup(t) ==
  /\ pc[t] = "lookup"
  /\ \/ Fresh(key[t]) /\ ReturnEntry(t, "hit")
     \/ ~Fresh(key[t]) /\ GoTo(t, "fetch") /\ UNCHANGED <<sample, dropped, wrote>>
  /\ UNCHANGED <<api, acked, cache>>

(* The API reads its state; the answer is on its way. *)
Fetch(t) ==
  /\ pc[t] = "fetch"
  /\ GoTo(t, "store")
  /\ sample' = [sample EXCEPT ![t] = [version |-> api[key[t]], age |-> 0]]
  /\ UNCHANGED <<api, acked, cache, dropped, wrote>>

(* Any DataForgeError leads to the last known good; an answer that does    *)
(* not fit its schema raises something else.                               *)
FetchFails(t) ==
  /\ "api" \in Disturbances /\ pc[t] = "fetch"
  /\ \/ GoTo(t, "fallback") /\ UNCHANGED <<sample, dropped, wrote>>
     \/ Raise(t)
  /\ UNCHANGED <<api, acked, cache>>

(* get_last_known_good does not look at the age. *)
Fallback(t) ==
  /\ pc[t] = "fallback"
  /\ IF cache[key[t]] # NoEntry THEN ReturnEntry(t, "last known good") ELSE Raise(t)
  /\ UNCHANGED <<api, acked, cache>>

(* fetched_at is the time of cache.set, not that of the fetch. *)
Store(t) ==
  /\ pc[t] = "store"
  /\ cache' = [cache EXCEPT ![key[t]] =
                [version |-> sample[t].version, age |-> 0, sampleAge |-> sample[t].age]]
  /\ Return(t, "api", sample[t].version, sample[t].age)
  /\ UNCHANGED <<api, acked>>

(* write_text is not atomic: what a failed one leaves may be unreadable. *)
StoreFails(t) ==
  /\ "disk" \in Disturbances /\ pc[t] = "store"
  /\ \E left \in {cache[key[t]], NoEntry} : cache' = [cache EXCEPT ![key[t]] = left]
  /\ Raise(t)
  /\ UNCHANGED <<api, acked>>

-----------------------------------------------------------------------------
(* _write_op *)

BeginWrite(t) ==
  /\ NoneServes({"read", "refresh"})
  /\ \E s \in Scopes : Begin(t, "write", "call", RmdKey, s)

CanChange(K) == \A k \in K : api[k] < MaxVersion
Changed(K) == [k \in Keys |-> IF k \in K THEN api[k] + 1 ELSE api[k]]

(* The API applies the write and says so. *)
Apply(t) ==
  /\ pc[t] = "call" /\ CanChange(Changes[scope[t]])
  /\ api' = Changed(Changes[scope[t]])
  /\ wrote' = [wrote EXCEPT ![t] = [k \in Keys |-> IF k \in Changes[scope[t]]
                                                   THEN api[k] + 1 ELSE 0]]
  /\ GoTo(t, "invalidate")
  /\ UNCHANGED <<acked, cache, sample, dropped>>

(* The API applies the write, and the call ends in an error all the same. *)
ApplyLost(t) ==
  /\ "lost" \in Disturbances
  /\ pc[t] = "call" /\ CanChange(Changes[scope[t]])
  /\ api' = Changed(Changes[scope[t]])
  /\ Raise(t)
  /\ UNCHANGED <<acked, cache>>

(* The API refuses the write. *)
Refuse(t) ==
  /\ pc[t] = "call"
  /\ Raise(t)
  /\ UNCHANGED <<api, acked, cache>>

(* invalidate_prefix, one prefix after the other. *)
DropBut(t, left) ==
  /\ pc[t] = "invalidate" /\ dropped[t] < Len(Drops[scope[t]])
  /\ cache' = [k \in Keys |-> IF k \in Drops[scope[t]][dropped[t] + 1] \ left
                               THEN NoEntry ELSE cache[k]]
  /\ dropped' = [dropped EXCEPT ![t] = @ + 1]
  /\ GoTo(t, "invalidate")
  /\ UNCHANGED <<api, acked, sample, wrote>>

Drop(t) == DropBut(t, {})

(* What rmtree cannot remove stays, and the call goes on all the same. *)
DropLeaves(t) == "leftovers" \in Disturbances /\ \E left \in SUBSET Keys : DropBut(t, left)

DropFails(t) ==
  /\ "disk" \in Disturbances
  /\ pc[t] = "invalidate" /\ dropped[t] < Len(Drops[scope[t]])
  /\ Raise(t)
  /\ UNCHANGED <<api, acked, cache>>

AllButOneDropped(t) ==    \* mutant: the last prefix is missed
  pc[t] = "invalidate" /\ dropped[t] + 1 = Len(Drops[scope[t]])
AllDropped(t) == pc[t] = "invalidate" /\ dropped[t] = Len(Drops[scope[t]])

Acknowledge(t) ==
  /\ AllDropped(t) /\ op[t] = "write"
  /\ acked' = [k \in Keys |-> IF wrote[t][k] > acked[k] THEN wrote[t][k] ELSE acked[k]]
  /\ Return(t, "written", 0, 0)
  /\ UNCHANGED <<api, cache>>

-----------------------------------------------------------------------------
(* refresh_cache: drop the scope, then read the snapshot past the cache. *)

BeginRefreshKeeping(t) ==    \* mutant: the fetch comes without the drop
  /\ NoneServes({"write"})
  /\ \E s \in Scopes : Begin(t, "refresh", "fetch", RmdKey, s)

BeginRefresh(t) ==
  /\ NoneServes({"write"})
  /\ \E s \in Scopes : Begin(t, "refresh", "invalidate", RmdKey, s)

Refetch(t) ==
  /\ AllDropped(t) /\ op[t] = "refresh"
  /\ GoTo(t, "fetch")
  /\ UNCHANGED <<api, acked, cache, sample, dropped, wrote>>

-----------------------------------------------------------------------------
(* The environment *)

Cancel(t) ==
  /\ "cancel" \in Disturbances /\ ~Idle(t)
  /\ Raise(t)
  /\ UNCHANGED <<api, acked, cache>>

Outsider(k) ==
  /\ "outsider" \in Disturbances /\ CanChange({k})
  /\ api' = Changed({k})
  /\ UNCHANGED <<acked, cache, taskVars>>

(* Requests time out, so a fetch takes at most MaxFetchTime. *)
TimePasses ==
  /\ cache' = [k \in Keys |-> IF cache[k] = NoEntry THEN NoEntry ELSE
                 [cache[k] EXCEPT !.age = Older(@, MaxAge), !.sampleAge = Older(@, MaxSampleAge)]]
  /\ sample' = [t \in Tasks |-> IF sample[t] = NoSample THEN NoSample ELSE
                  [sample[t] EXCEPT !.age = @ + 1]]
  /\ UNCHANGED <<api, acked, pc, op, key, scope, dropped, wrote, before, result>>

TickWithoutTimeout ==    \* mutant: no timeout reaches httpx
  TimePasses
Tick ==
  /\ \A t \in Tasks : sample[t] # NoSample => sample[t].age < MaxFetchTime
  /\ TimePasses

-----------------------------------------------------------------------------
Begins(t) == BeginRead(t) \/ BeginWrite(t) \/ BeginRefresh(t)

Step(t) ==
  \/ Lookup(t) \/ Fetch(t) \/ FetchFails(t) \/ Fallback(t) \/ Store(t) \/ StoreFails(t)
  \/ Apply(t) \/ ApplyLost(t) \/ Refuse(t) \/ Drop(t) \/ DropLeaves(t) \/ DropFails(t)
  \/ Acknowledge(t) \/ Refetch(t)

Next ==
  \/ \E t \in Tasks : Begins(t) \/ Step(t) \/ Cancel(t)
  \/ \E k \in Keys : Outsider(k)
  \/ Tick

Spec == Init /\ [][Next]_vars

(* Calls that have begun go on: the event loop is fair, awaits have        *)
(* timeouts.  Time passes.  Nobody has to call, write or fail.             *)
FairSpec == Spec /\ WF_vars(Tick) /\ \A t \in Tasks : WF_vars(Step(t))

-----------------------------------------------------------------------------
(* Every variable stays in its range. *)
TypeOK ==
  /\ api \in [Keys -> Versions]
  /\ acked \in [Keys -> Versions]
  /\ cache \in [Keys -> Entries \cup {NoEntry}]
  /\ pc \in [Tasks -> {"idle", "lookup", "fetch", "fallback", "store", "call", "invalidate"}]
  /\ op \in [Tasks -> {"read", "write", "refresh"}]
  /\ key \in [Tasks -> Keys]
  /\ scope \in [Tasks -> Scopes]
  /\ sample \in [Tasks -> Samples \cup {NoSample}]
  /\ dropped \in [Tasks -> Nat]
  /\ wrote \in [Tasks -> [Keys -> Versions]]
  /\ before \in [Tasks -> [api : Versions, acked : Versions]]
  /\ result \in [Tasks -> [source : Sources, version : Versions, sampleAge : 0..MaxSampleAge]]

(* What a call that read something returned. *)
Returned(t) == result[t].source \in {"hit", "api", "last known good"}

(* Read-your-writes (README.md:355, configuration.md:168-170): a read that *)
(* begins after a write was acknowledged returns the written state or a    *)
(* later one, be it a hit, a fetch or the last known good.  It holds when  *)
(* reads and writes do not overlap and prefixes leave nothing behind,      *)
(* whatever else fails, and not otherwise.                                 *)
ReadYourWrites == \A t \in Tasks : Returned(t) => result[t].version >= before[t].acked

(* A hit is at most TTL plus the duration of one fetch behind the API,     *)
(* under every interleaving and failure: fetched_at is set late, but no    *)
(* hit, fallback or failed store makes an entry younger.                   *)
BoundedStaleness ==
  \A t \in Tasks : result[t].source = "hit" => result[t].sampleAge <= TTL + MaxFetchTime

(* df_refresh_cache reports "refreshed" only when the snapshot is at least *)
(* as new as the call (tools-semantic.md:194, "Drop the cached state ...   *)
(* and re-fetch its RMD snapshot"), even if the API fails.                 *)
RefreshIsHonest ==
  \A t \in Tasks : op[t] = "refresh" /\ Returned(t) => result[t].version >= before[t].api

(* Once nobody changes the content any more, every entry that would still  *)
(* be served comes to agree with the API, whatever race left it behind.    *)
EventuallyFresh == <>[](\A k \in Keys : Fresh(k) => cache[k].version = api[k])
=============================================================================
