------------------------ MODULE SemanticCacheProofs ------------------------
(***************************************************************************)
(* Theorems about the semantic service's cache, for any tasks, keys,       *)
(* scopes, TTL and fetch time.                                             *)
(***************************************************************************)
EXTENDS SemanticCache, TLAPS

Labels == {"idle", "lookup", "fetch", "fallback", "store", "call", "invalidate"}
Results == [source : Sources, version : Versions, sampleAge : 0..MaxSampleAge]
Wrotes == [Keys -> Versions]

(* The half of the type invariant that a call's own state is about. *)
TaskTypes ==
  /\ pc \in [Tasks -> Labels]
  /\ op \in [Tasks -> {"read", "write", "refresh"}]
  /\ key \in [Tasks -> Keys]
  /\ scope \in [Tasks -> Scopes]
  /\ sample \in [Tasks -> Samples \cup {NoSample}]
  /\ dropped \in [Tasks -> Nat]
  /\ wrote \in [Tasks -> Wrotes]
  /\ before \in [Tasks -> [api : Versions, acked : Versions]]
  /\ result \in [Tasks -> Results]

SharedTypes ==
  /\ api \in [Keys -> Versions]
  /\ acked \in [Keys -> Versions]
  /\ cache \in [Keys -> Entries \cup {NoEntry}]

(* Only a task about to store holds a sample, and it does hold one. *)
Holding ==
  \A t \in Tasks : (pc[t] = "store") <=> (sample[t] # NoSample)

(* Reads and refreshes look up, fetch and store; writes call. *)
Serving ==
  \A t \in Tasks :
    /\ pc[t] \in {"lookup", "fetch", "fallback", "store"} => op[t] \in {"read", "refresh"}
    /\ pc[t] = "call" => op[t] = "write"
    /\ pc[t] = "invalidate" => op[t] \in {"write", "refresh"}

(* What an entry that would be served is behind the API by. *)
YoungEntries ==
  \A k \in Keys :
    cache[k] # NoEntry /\ cache[k].age <= TTL => cache[k].sampleAge <= cache[k].age + MaxFetchTime

IInv ==
  /\ TaskTypes /\ SharedTypes /\ Holding /\ Serving /\ YoungEntries /\ BoundedStaleness

-----------------------------------------------------------------------------
LEMMA BoundFacts ==
  /\ TTL \in Nat /\ MaxFetchTime \in Nat /\ MaxVersion \in Nat
  /\ MaxAge \in Nat /\ MaxSampleAge \in Nat /\ 0 \in Versions
  /\ Versions \subseteq Nat
BY BoundAssumption DEF MaxAge, MaxSampleAge, Versions

LEMMA TypesAreTypeOK == TypeOK <=> TaskTypes /\ SharedTypes
BY DEF TypeOK, TaskTypes, SharedTypes, Labels, Results, Wrotes

(* The initial states satisfy the invariant. *)
LEMMA InitIInv == Init => IInv
<1> SUFFICES ASSUME Init PROVE IInv
  OBVIOUS
<1> USE BoundFacts DEF Init
<1>1. TaskTypes
  BY KeyAssumption DEF TaskTypes, Labels, Results, Sources, Wrotes
<1>2. SharedTypes
  BY DEF SharedTypes
<1>3. Holding /\ Serving /\ YoungEntries /\ BoundedStaleness
  BY DEF Holding, Serving, YoungEntries, BoundedStaleness
<1> QED
  BY <1>1, <1>2, <1>3 DEF IInv

(* Returning anything of the right type keeps a call's own state in order. *)
LEMMA ReturnKeeps ==
  ASSUME IInv, NEW t \in Tasks, NEW source \in Sources, NEW version \in Versions,
         NEW sampleAge \in 0..MaxSampleAge, Return(t, source, version, sampleAge),
         source = "hit" => sampleAge <= TTL + MaxFetchTime
  PROVE  TaskTypes' /\ Holding' /\ Serving' /\ BoundedStaleness'
<1> USE BoundFacts DEF IInv, Return, TaskTypes
<1>1. TaskTypes'
  <2>1. [source |-> source, version |-> version, sampleAge |-> sampleAge] \in Results
    BY DEF Results
  <2>2. [k \in Keys |-> 0] \in Wrotes
    BY DEF Wrotes
  <2> QED
    BY <2>1, <2>2 DEF Labels
<1>2. Holding' /\ Serving'
  BY DEF Holding, Serving
<1>3. BoundedStaleness'
  BY DEF BoundedStaleness
<1> QED
  BY <1>1, <1>2, <1>3

LEMMA RaiseKeeps ==
  ASSUME IInv, NEW t \in Tasks, Raise(t)
  PROVE  TaskTypes' /\ Holding' /\ Serving' /\ BoundedStaleness'
<1>1. 0 \in Versions /\ 0 \in 0..MaxSampleAge
  BY BoundFacts
<1> QED
  BY <1>1, ReturnKeeps DEF Raise, Sources

(* Entries that go, or stay, leave the rest young. *)
LEMMA DroppingKeeps ==
  ASSUME IInv, \A k \in Keys : cache'[k] \in {cache[k], NoEntry},
         cache' \in [Keys -> Entries \cup {NoEntry}]
  PROVE  YoungEntries'
BY DEF IInv, YoungEntries

(* A call that begins. *)
LEMMA BeginKeeps ==
  ASSUME IInv, NEW t \in Tasks, NEW service, NEW label, NEW k \in Keys, NEW s \in Scopes,
         Begin(t, service, label, k, s),
         \/ service = "read" /\ label \in {"lookup", "fetch"}
         \/ service = "write" /\ label = "call"
         \/ service = "refresh" /\ label = "invalidate"
  PROVE  IInv'
<1> USE BoundFacts DEF IInv, Begin
<1>1. TaskTypes'
  <2>1. [source |-> "none", version |-> 0, sampleAge |-> 0] \in Results
    BY DEF Results, Sources
  <2>2. [api |-> api[k], acked |-> acked[k]] \in [api : Versions, acked : Versions]
    BY DEF SharedTypes
  <2> QED
    BY <2>1, <2>2 DEF TaskTypes, Labels
<1>2. SharedTypes' /\ YoungEntries'
  BY DEF SharedTypes, YoungEntries
<1>3. Holding' /\ Serving'
  BY DEF TaskTypes, Holding, Serving, Idle
<1>4. BoundedStaleness'
  BY DEF TaskTypes, BoundedStaleness
<1> QED
  BY <1>1, <1>2, <1>3, <1>4

(* A call that goes on and leaves the shared state alone. *)
LEMMA GoToKeeps ==
  ASSUME IInv, NEW t \in Tasks, NEW label \in Labels, GoTo(t, label),
         UNCHANGED <<api, acked, cache, sample, wrote>>, dropped' \in [Tasks -> Nat],
         pc[t] # "store", label # "store",
         label \in {"fetch", "fallback"} => op[t] \in {"read", "refresh"},
         label = "invalidate" => op[t] \in {"write", "refresh"},
         label \notin {"lookup", "call"}
  PROVE  IInv'
<1> USE DEF IInv, GoTo
<1>1. TaskTypes' /\ SharedTypes' /\ YoungEntries'
  BY DEF TaskTypes, SharedTypes, YoungEntries
<1>2. Holding' /\ Serving' /\ BoundedStaleness'
  BY DEF TaskTypes, Holding, Serving, BoundedStaleness
<1> QED
  BY <1>1, <1>2

-----------------------------------------------------------------------------
(* Every action preserves the invariant. *)
LEMMA BeginsKeep == ASSUME IInv, NEW t \in Tasks, Begins(t) PROVE IInv'
<1>1. CASE BeginRead(t)
  BY <1>1, BeginKeeps DEF BeginRead, IInv, TaskTypes
<1>2. CASE BeginWrite(t)
  BY <1>2, BeginKeeps, KeyAssumption DEF BeginWrite
<1>3. CASE BeginRefresh(t)
  BY <1>3, BeginKeeps, KeyAssumption DEF BeginRefresh
<1> QED
  BY <1>1, <1>2, <1>3 DEF Begins

(* Returning the entry of the key that is read. *)
LEMMA ReturnEntryKeeps ==
  ASSUME IInv, NEW t \in Tasks, NEW source \in Sources, ReturnEntry(t, source),
         cache[key[t]] # NoEntry, source = "hit" => Fresh(key[t]),
         UNCHANGED <<api, acked, cache>>
  PROVE  IInv'
<1> DEFINE e == cache[key[t]]
<1>1. key[t] \in Keys /\ e \in Entries
  BY DEF IInv, TaskTypes, SharedTypes
<1>2. e.version \in Versions /\ e.age \in 0..MaxAge /\ e.sampleAge \in 0..MaxSampleAge
  BY <1>1 DEF Entries
<1>3. source = "hit" => e.sampleAge <= TTL + MaxFetchTime
  BY <1>1, <1>2, BoundFacts DEF IInv, YoungEntries, Fresh
<1>4. TaskTypes' /\ Holding' /\ Serving' /\ BoundedStaleness'
  BY <1>2, <1>3, ReturnKeeps DEF ReturnEntry
<1>5. SharedTypes' /\ YoungEntries'
  BY DEF IInv, SharedTypes, YoungEntries
<1> QED
  BY <1>4, <1>5 DEF IInv

LEMMA QuietRaiseKeeps ==
  ASSUME IInv, NEW t \in Tasks, Raise(t), UNCHANGED <<api, acked, cache>>
  PROVE  IInv'
<1>1. SharedTypes' /\ YoungEntries'
  BY DEF IInv, SharedTypes, YoungEntries
<1> QED
  BY <1>1, RaiseKeeps DEF IInv

LEMMA LookupKeeps == ASSUME IInv, NEW t \in Tasks, Lookup(t) PROVE IInv'
<1>1. CASE Fresh(key[t]) /\ ReturnEntry(t, "hit")
  BY <1>1, ReturnEntryKeeps DEF Lookup, Fresh, Sources
<1>2. CASE GoTo(t, "fetch") /\ UNCHANGED <<sample, dropped, wrote>>
  BY <1>2, GoToKeeps DEF Lookup, IInv, TaskTypes, Serving, Labels
<1> QED
  BY <1>1, <1>2 DEF Lookup

LEMMA FetchKeeps == ASSUME IInv, NEW t \in Tasks, Fetch(t) PROVE IInv'
<1> USE BoundFacts DEF IInv, Fetch, GoTo
<1>1. [version |-> api[key[t]], age |-> 0] \in Samples
  BY DEF TaskTypes, SharedTypes, Samples
<1>2. TaskTypes' /\ SharedTypes' /\ YoungEntries'
  BY <1>1 DEF TaskTypes, SharedTypes, YoungEntries, Labels
<1>3. Holding' /\ Serving' /\ BoundedStaleness'
  BY <1>1, NothingAssumption DEF TaskTypes, Holding, Serving, BoundedStaleness
<1> QED
  BY <1>2, <1>3

LEMMA FetchFailsKeeps == ASSUME IInv, NEW t \in Tasks, FetchFails(t) PROVE IInv'
<1>1. CASE GoTo(t, "fallback") /\ UNCHANGED <<sample, dropped, wrote>>
  BY <1>1, GoToKeeps DEF FetchFails, IInv, TaskTypes, Serving, Labels
<1>2. CASE Raise(t)
  BY <1>2, QuietRaiseKeeps DEF FetchFails
<1> QED
  BY <1>1, <1>2 DEF FetchFails

LEMMA FallbackKeeps == ASSUME IInv, NEW t \in Tasks, Fallback(t) PROVE IInv'
BY ReturnEntryKeeps, QuietRaiseKeeps DEF Fallback, Sources

LEMMA StoreKeeps == ASSUME IInv, NEW t \in Tasks, Store(t) PROVE IInv'
<1> USE BoundFacts DEF IInv, Store
<1>1. sample[t] \in Samples /\ key[t] \in Keys
  BY DEF TaskTypes, Holding
<1>2. sample[t].version \in Versions /\ sample[t].age \in 0..MaxFetchTime
  BY <1>1 DEF Samples
<1>3. /\ [version |-> sample[t].version, age |-> 0, sampleAge |-> sample[t].age] \in Entries
      /\ sample[t].age \in 0..MaxSampleAge
  BY <1>2 DEF Entries, MaxAge, MaxSampleAge
<1>4. TaskTypes' /\ Holding' /\ Serving' /\ BoundedStaleness'
  BY <1>2, <1>3, ReturnKeeps DEF Sources
<1>5. SharedTypes'
  BY <1>1, <1>3 DEF SharedTypes
<1>6. YoungEntries'
  BY <1>1, <1>2 DEF SharedTypes, YoungEntries
<1> QED
  BY <1>4, <1>5, <1>6

LEMMA StoreFailsKeeps == ASSUME IInv, NEW t \in Tasks, StoreFails(t) PROVE IInv'
<1> USE DEF IInv, StoreFails
<1>1. SharedTypes' /\ \A k \in Keys : cache'[k] \in {cache[k], NoEntry}
  BY DEF TaskTypes, SharedTypes
<1>2. YoungEntries'
  BY <1>1, DroppingKeeps DEF SharedTypes
<1> QED
  BY <1>1, <1>2, RaiseKeeps

(* A counted-up version stays within the bound of the model. *)
LEMMA ChangedVersions ==
  ASSUME SharedTypes, NEW K, CanChange(K), K \subseteq Keys
  PROVE  Changed(K) \in [Keys -> Versions] /\ \A k \in K : api[k] + 1 \in Versions
BY BoundFacts DEF SharedTypes, CanChange, Changed, Versions

LEMMA ScopeChanges ==
  ASSUME IInv, NEW t \in Tasks
  PROVE  scope[t] \in Scopes /\ Changes[scope[t]] \subseteq Keys
BY ScopeAssumption DEF IInv, TaskTypes

LEMMA ApplyKeeps == ASSUME IInv, NEW t \in Tasks, Apply(t) PROVE IInv'
<1> USE BoundFacts DEF IInv, Apply, GoTo
<1>1. /\ api' \in [Keys -> Versions]
      /\ \A k \in Changes[scope[t]] : api[k] + 1 \in Versions
  BY ChangedVersions, ScopeChanges
<1>2. [k \in Keys |-> IF k \in Changes[scope[t]] THEN api[k] + 1 ELSE 0] \in Wrotes
  BY <1>1 DEF Wrotes
<1>3. TaskTypes'
  BY <1>2 DEF TaskTypes, Labels
<1>4. SharedTypes' /\ YoungEntries'
  BY <1>1 DEF SharedTypes, YoungEntries
<1>5. Holding' /\ Serving' /\ BoundedStaleness'
  BY DEF TaskTypes, Holding, Serving, BoundedStaleness
<1> QED
  BY <1>3, <1>4, <1>5

LEMMA ApplyLostKeeps == ASSUME IInv, NEW t \in Tasks, ApplyLost(t) PROVE IInv'
<1> USE DEF IInv, ApplyLost
<1>1. api' \in [Keys -> Versions]
  BY ChangedVersions, ScopeChanges
<1>2. SharedTypes' /\ YoungEntries'
  BY <1>1 DEF SharedTypes, YoungEntries
<1> QED
  BY <1>2, RaiseKeeps

LEMMA DropKeeps == ASSUME IInv, NEW t \in Tasks, NEW left, DropBut(t, left) PROVE IInv'
<1> USE DEF IInv, DropBut, GoTo
<1>1. TaskTypes'
  BY DEF TaskTypes, Labels
<1>2. SharedTypes' /\ \A k \in Keys : cache'[k] \in {cache[k], NoEntry}
  BY DEF SharedTypes
<1>3. YoungEntries'
  BY <1>2, DroppingKeeps DEF SharedTypes
<1>4. Holding' /\ Serving' /\ BoundedStaleness'
  BY DEF TaskTypes, Holding, Serving, BoundedStaleness
<1> QED
  BY <1>1, <1>2, <1>3, <1>4

LEMMA AcknowledgeKeeps == ASSUME IInv, NEW t \in Tasks, Acknowledge(t) PROVE IInv'
<1> USE BoundFacts DEF IInv, Acknowledge
<1>1. SharedTypes'
  BY DEF TaskTypes, SharedTypes, Wrotes
<1>2. YoungEntries'
  BY DEF YoungEntries
<1>3. Return(t, "written", 0, 0) /\ 0 \in Versions /\ 0 \in 0..MaxSampleAge
  OBVIOUS
<1>4. TaskTypes' /\ Holding' /\ Serving' /\ BoundedStaleness'
  BY <1>3, ReturnKeeps DEF Sources
<1> QED
  BY <1>1, <1>2, <1>4

LEMMA RefetchKeeps == ASSUME IInv, NEW t \in Tasks, Refetch(t) PROVE IInv'
BY GoToKeeps DEF Refetch, AllDropped, IInv, TaskTypes, Labels

LEMMA StepKeeps == ASSUME IInv, NEW t \in Tasks, Step(t) PROVE IInv'
BY LookupKeeps, FetchKeeps, FetchFailsKeeps, FallbackKeeps, StoreKeeps, StoreFailsKeeps,
   ApplyKeeps, ApplyLostKeeps, QuietRaiseKeeps, DropKeeps, AcknowledgeKeeps, RefetchKeeps
   DEF Step, Refuse, Drop, DropLeaves, DropFails

LEMMA OutsiderKeeps == ASSUME IInv, NEW k \in Keys, Outsider(k) PROVE IInv'
<1> USE DEF IInv, Outsider, taskVars
<1>1. api' \in [Keys -> Versions]
  BY ChangedVersions
<1>2. TaskTypes' /\ SharedTypes'
  BY <1>1 DEF TaskTypes, SharedTypes
<1>3. Holding' /\ Serving' /\ YoungEntries' /\ BoundedStaleness'
  BY DEF Holding, Serving, YoungEntries, BoundedStaleness
<1> QED
  BY <1>2, <1>3

(* Ages count to their limit, and never past it. *)
LEMMA OlderFacts ==
  ASSUME NEW n \in Nat, NEW age \in 0..n
  PROVE  /\ Older(age, n) \in 0..n /\ Older(age, n) <= age + 1
         /\ age < n => Older(age, n) = age + 1
         /\ Older(age, n) < n => Older(age, n) = age + 1
BY DEF Older

(* A sample in time grows older by one. *)
LEMMA OlderSample ==
  ASSUME NEW s \in Samples, s.age < MaxFetchTime
  PROVE  [s EXCEPT !.age = @ + 1] \in Samples
<1>1. s.version \in Versions /\ s.age \in 0..MaxFetchTime
  BY DEF Samples
<1>2. s.age + 1 \in 0..MaxFetchTime
  BY <1>1, BoundFacts
<1> QED
  BY <1>2 DEF Samples

(* An entry that was young enough to be served stays within a fetch of its *)
(* age, as long as it is young enough.                                     *)
LEMMA OlderEntry ==
  ASSUME NEW e \in Entries, NEW f,
         f = [e EXCEPT !.age = Older(@, MaxAge), !.sampleAge = Older(@, MaxSampleAge)],
         e.age <= TTL => e.sampleAge <= e.age + MaxFetchTime
  PROVE  /\ f \in Entries /\ f.version = e.version
         /\ f.age <= TTL => f.sampleAge <= f.age + MaxFetchTime
<1>1. e.version \in Versions /\ e.age \in 0..MaxAge /\ e.sampleAge \in 0..MaxSampleAge
  BY DEF Entries
<1>2. /\ f.version = e.version
      /\ f.age = Older(e.age, MaxAge) /\ f.sampleAge = Older(e.sampleAge, MaxSampleAge)
  BY DEF Entries
<1>3. f.age \in 0..MaxAge /\ f.sampleAge \in 0..MaxSampleAge
  BY <1>1, <1>2, OlderFacts, BoundFacts
<1>4. f \in Entries
  BY <1>1, <1>2, <1>3 DEF Entries
<1>5. ASSUME f.age <= TTL PROVE f.sampleAge <= f.age + MaxFetchTime
  <2>1. f.age < MaxAge
    BY <1>3, <1>5, BoundFacts DEF MaxAge
  <2>2. f.age = e.age + 1 /\ f.sampleAge <= e.sampleAge + 1
    BY <1>1, <1>2, <2>1, OlderFacts, BoundFacts
  <2>3. e.sampleAge <= e.age + MaxFetchTime
    BY <1>1, <1>5, <2>2, BoundFacts
  <2> QED
    BY <1>1, <1>3, <2>2, <2>3, BoundFacts
<1> QED
  BY <1>2, <1>4, <1>5

LEMMA TickKeeps == ASSUME IInv, Tick PROVE IInv'
<1> USE DEF IInv, Tick, TimePasses
<1>1. \A t \in Tasks :
        /\ sample'[t] \in Samples \cup {NoSample}
        /\ (sample'[t] = NoSample) <=> (sample[t] = NoSample)
  <2> SUFFICES ASSUME NEW t \in Tasks, sample[t] # NoSample
               PROVE  sample'[t] \in Samples
    BY NothingAssumption
  <2>1. sample[t] \in Samples /\ sample[t].age < MaxFetchTime
    BY DEF TaskTypes
  <2>2. sample'[t] = [sample[t] EXCEPT !.age = @ + 1]
    OBVIOUS
  <2> QED
    BY <2>1, <2>2, OlderSample
<1>2. \A k \in Keys :
        IF cache[k] = NoEntry THEN cache'[k] = NoEntry
        ELSE /\ cache'[k] \in Entries
             /\ cache'[k].version = cache[k].version
             /\ cache'[k].age <= TTL =>
                  cache'[k].sampleAge <= cache'[k].age + MaxFetchTime
  <2> SUFFICES ASSUME NEW k \in Keys, cache[k] # NoEntry
               PROVE  /\ cache'[k] \in Entries
                      /\ cache'[k].version = cache[k].version
                      /\ cache'[k].age <= TTL =>
                           cache'[k].sampleAge <= cache'[k].age + MaxFetchTime
    OBVIOUS
  <2>1. cache[k] \in Entries
    BY DEF SharedTypes
  <2>2. cache'[k] = [cache[k] EXCEPT !.age = Older(@, MaxAge),
                                     !.sampleAge = Older(@, MaxSampleAge)]
    OBVIOUS
  <2>3. cache[k].age <= TTL => cache[k].sampleAge <= cache[k].age + MaxFetchTime
    BY DEF YoungEntries
  <2> QED
    BY <2>1, <2>2, <2>3, OlderEntry
<1>3. TaskTypes' /\ SharedTypes'
  BY <1>1, <1>2 DEF TaskTypes, SharedTypes
<1>4. Holding' /\ Serving' /\ BoundedStaleness'
  BY <1>1 DEF Holding, Serving, BoundedStaleness
<1>5. YoungEntries'
  BY <1>2 DEF YoungEntries
<1> QED
  BY <1>3, <1>4, <1>5

LEMMA NextKeeps == IInv /\ [Next]_vars => IInv'
<1> SUFFICES ASSUME IInv, [Next]_vars PROVE IInv'
  OBVIOUS
<1>1. CASE Next
  BY <1>1, BeginsKeep, StepKeeps, QuietRaiseKeeps, OutsiderKeeps, TickKeeps DEF Next, Cancel
<1>2. CASE UNCHANGED vars
  BY <1>2 DEF vars, taskVars, IInv, TaskTypes, SharedTypes, Holding, Serving, YoungEntries,
              BoundedStaleness
<1> QED
  BY <1>1, <1>2

(* Every variable stays in its range. *)
THEOREM TypeCorrect == Spec => []TypeOK
<1>1. IInv => TypeOK
  BY TypesAreTypeOK DEF IInv
<1> QED
  BY InitIInv, NextKeeps, <1>1, PTL DEF Spec

(* No hit of _cached_fetch is more than TTL plus the duration of a fetch   *)
(* behind the API, however calls interleave and whatever fails.            *)
THEOREM HitsAreRecent == Spec => []BoundedStaleness
<1>1. IInv => BoundedStaleness
  BY DEF IInv
<1> QED
  BY InitIInv, NextKeeps, <1>1, PTL DEF Spec
-----------------------------------------------------------------------------
(* Reads and writes that do not overlap.                                   *)

(* While a write is under way, nothing but writes is. *)
Apart ==
  \A t, u \in Tasks : ~Idle(t) /\ op[t] = "write" /\ ~Idle(u) => op[u] = "write"

(* No write was acknowledged, or made, that the API does not show. *)
Past ==
  /\ \A k \in Keys : acked[k] <= api[k]
  /\ \A t \in Tasks : \A k \in Keys : wrote[t][k] <= api[k]
  /\ \A t \in Tasks : before[t].acked <= acked[key[t]]

(* What is on disk, or on its way there, shows every acknowledged write. *)
EntriesFollow ==
  \A k \in Keys : cache[k] # NoEntry => cache[k].version >= acked[k]
SamplesFollow ==
  \A t \in Tasks : sample[t] # NoSample => sample[t].version >= acked[key[t]]

(* A write that is dropping prefixes has yet to drop every entry left of   *)
(* what it changed.                                                        *)
DropsToCome ==
  \A t \in Tasks : \A k \in Keys :
    wrote[t][k] > 0 /\ cache[k] # NoEntry =>
      \E i \in 1..Len(Drops[scope[t]]) : i > dropped[t] /\ k \in Drops[scope[t]][i]

OnlyWritesWrote ==
  \A t \in Tasks :
    /\ \A k \in Keys : wrote[t][k] > 0 => pc[t] = "invalidate" /\ op[t] = "write"
    /\ pc[t] \in {"idle", "call"} => dropped[t] = 0

SInv ==
  /\ Apart /\ Past /\ EntriesFollow /\ SamplesFollow /\ DropsToCome /\ OnlyWritesWrote
  /\ ReadYourWrites

(* The versions these speak of are numbers. *)
LEMMA Numbers ==
  ASSUME IInv
  PROVE  /\ \A k \in Keys : api[k] \in Nat /\ acked[k] \in Nat
         /\ \A k \in Keys : cache[k] # NoEntry => cache[k].version \in Nat
         /\ \A t \in Tasks : sample[t] # NoSample => sample[t].version \in Nat
         /\ \A t \in Tasks : before[t].acked \in Nat /\ result[t].version \in Nat
         /\ \A t \in Tasks : \A k \in Keys : wrote[t][k] \in Nat
         /\ \A t \in Tasks : key[t] \in Keys /\ dropped[t] \in Nat
<1> USE BoundFacts DEF IInv, TaskTypes, SharedTypes
<1>1. \A k \in Keys : api[k] \in Nat /\ acked[k] \in Nat
  OBVIOUS
<1>2. \A k \in Keys : cache[k] # NoEntry => cache[k].version \in Nat
  BY DEF Entries
<1>3. \A t \in Tasks : sample[t] # NoSample => sample[t].version \in Nat
  BY DEF Samples
<1>4. \A t \in Tasks : before[t].acked \in Nat /\ result[t].version \in Nat
  BY DEF Results
<1>5. \A t \in Tasks : \A k \in Keys : wrote[t][k] \in Nat
  BY DEF Wrotes
<1> QED
  BY <1>1, <1>2, <1>3, <1>4, <1>5

LEMMA InitSInv == Init => SInv
<1> SUFFICES ASSUME Init PROVE SInv
  OBVIOUS
<1> USE DEF Init
<1>1. Apart /\ OnlyWritesWrote /\ DropsToCome /\ EntriesFollow /\ SamplesFollow
  BY DEF Apart, Idle, OnlyWritesWrote, DropsToCome, EntriesFollow, SamplesFollow
<1>2. Past
  BY KeyAssumption DEF Past
<1>3. ReadYourWrites
  BY DEF ReadYourWrites, Returned
<1> QED
  BY <1>1, <1>2, <1>3 DEF SInv

(* What the end of a call does, task by task. *)
Ended(t, source, version) ==
  /\ UNCHANGED <<op, key, scope, before>>
  /\ pc'[t] = "idle" /\ sample'[t] = NoSample /\ dropped'[t] = 0
  /\ \A k \in Keys : wrote'[t][k] = 0
  /\ result'[t].source = source /\ result'[t].version = version
  /\ \A u \in Tasks \ {t} :
       /\ pc'[u] = pc[u] /\ sample'[u] = sample[u] /\ dropped'[u] = dropped[u]
       /\ result'[u] = result[u] /\ \A k \in Keys : wrote'[u][k] = wrote[u][k]

LEMMA ReturnEnds ==
  ASSUME IInv, NEW t \in Tasks, NEW source, NEW version, NEW sampleAge,
         Return(t, source, version, sampleAge)
  PROVE  Ended(t, source, version)
BY DEF IInv, TaskTypes, Return, Ended

(* A call that ends takes nothing up, and drops nothing another has to. *)
LEMMA EndedKeeps ==
  ASSUME IInv, SInv, NEW t \in Tasks, NEW source, NEW version, Ended(t, source, version)
  PROVE  /\ Apart' /\ OnlyWritesWrote'
         /\ \A u \in Tasks : \A k \in Keys : wrote'[u][k] > 0 => u # t /\ wrote[u][k] > 0
<1> USE DEF Ended
<1>1. Apart'
  BY DEF SInv, Apart, Idle
<1>2. \A u \in Tasks : \A k \in Keys : wrote'[u][k] > 0 => u # t /\ wrote[u][k] > 0
  OBVIOUS
<1>3. OnlyWritesWrote'
  <2> SUFFICES ASSUME NEW u \in Tasks
               PROVE  /\ \A k \in Keys : wrote'[u][k] > 0 =>
                            pc'[u] = "invalidate" /\ op'[u] = "write"
                      /\ pc'[u] \in {"idle", "call"} => dropped'[u] = 0
    BY DEF OnlyWritesWrote
  <2>1. CASE u = t
    BY <1>2, <2>1
  <2>2. CASE u # t
    BY <1>2, <2>2 DEF SInv, OnlyWritesWrote
  <2> QED
    BY <2>1, <2>2
<1> QED
  BY <1>1, <1>2, <1>3

LEMMA EndedLeavesDrops ==
  ASSUME IInv, SInv, NEW t \in Tasks, NEW source, NEW version, Ended(t, source, version),
         \A k \in Keys : cache'[k] \in {cache[k], NoEntry}
  PROVE  DropsToCome'
<1> SUFFICES ASSUME NEW u \in Tasks, NEW k \in Keys, wrote'[u][k] > 0, cache'[k] # NoEntry
             PROVE  \E i \in 1..Len(Drops[scope'[u]]) :
                      i > dropped'[u] /\ k \in Drops[scope'[u]][i]
  BY DEF DropsToCome
<1>1. u # t /\ wrote[u][k] > 0
  BY EndedKeeps
<1>2. cache[k] # NoEntry /\ dropped'[u] = dropped[u] /\ scope'[u] = scope[u]
  BY <1>1 DEF Ended
<1> QED
  BY <1>1, <1>2 DEF SInv, DropsToCome

IsRead(source) == source \in {"hit", "api", "last known good"}

(* A call that ends, having read nothing older than the writes it follows, *)
(* while entries at most go and versions at most grow.                     *)
LEMMA ReturnFollows ==
  ASSUME IInv, SInv, NEW t \in Tasks, NEW source, NEW version \in Nat, NEW sampleAge,
         Return(t, source, version, sampleAge),
         IsRead(source) => version >= before[t].acked,
         acked' = acked, \A k \in Keys : api'[k] \in Nat /\ api[k] <= api'[k],
         \A k \in Keys : cache'[k] \in {cache[k], NoEntry}
  PROVE  SInv'
<1> USE Numbers
<1>0. Ended(t, source, version)
  BY ReturnEnds
<1>1. Apart'
  BY <1>0, EndedKeeps
<1>2. Past'
  <2>1. \A k \in Keys : acked'[k] <= api'[k]
    BY DEF SInv, Past
  <2>2. ASSUME NEW u \in Tasks, NEW k \in Keys PROVE wrote'[u][k] <= api'[k]
    <3>1. wrote'[u][k] \in {0, wrote[u][k]}
      BY <1>0 DEF Ended
    <3> QED
      BY <3>1 DEF SInv, Past
  <2>3. \A u \in Tasks : before'[u].acked <= acked'[key'[u]]
    BY <1>0 DEF Ended, SInv, Past
  <2> QED
    BY <2>1, <2>2, <2>3 DEF Past
<1>3. EntriesFollow' /\ SamplesFollow'
  BY <1>0 DEF Ended, SInv, EntriesFollow, SamplesFollow
<1>4. DropsToCome'
  BY <1>0, EndedLeavesDrops
<1>5. OnlyWritesWrote'
  BY <1>0, EndedKeeps
<1>6. ReadYourWrites'
  BY <1>0 DEF Ended, IsRead, SInv, ReadYourWrites, Returned
<1> QED
  BY <1>1, <1>2, <1>3, <1>4, <1>5, <1>6 DEF SInv

LEMMA RaiseFollows ==
  ASSUME IInv, SInv, NEW t \in Tasks, Raise(t),
         acked' = acked, \A k \in Keys : api'[k] \in Nat /\ api[k] <= api'[k],
         \A k \in Keys : cache'[k] \in {cache[k], NoEntry}
  PROVE  SInv'
<1>1. ~IsRead("error")
  BY DEF IsRead
<1> QED
  BY <1>1, ReturnFollows DEF Raise

LEMMA ReturnEntryFollows ==
  ASSUME IInv, SInv, NEW t \in Tasks, NEW source, ReturnEntry(t, source),
         cache[key[t]] # NoEntry, UNCHANGED <<api, acked, cache>>
  PROVE  SInv'
<1>1. cache[key[t]].version \in Nat /\ cache[key[t]].version >= before[t].acked
  BY Numbers DEF SInv, EntriesFollow, Past
<1>2. \A k \in Keys : api'[k] \in Nat /\ api[k] <= api'[k]
  BY Numbers
<1> QED
  BY <1>1, <1>2, ReturnFollows DEF ReturnEntry

(* A call begins only where it does not overlap one of the other kind. *)
LEMMA BeginFollows ==
  ASSUME IInv, SInv, NEW t \in Tasks, NEW service, NEW label, NEW k \in Keys, NEW s \in Scopes,
         Begin(t, service, label, k, s), "overlap" \notin Disturbances,
         \/ service = "write" /\ label = "call" /\ NoneServes({"read", "refresh"})
         \/ service \in {"read", "refresh"} /\ label \notin {"idle", "call"} /\ NoneServes({"write"})
  PROVE  SInv'
<1> USE Numbers DEF IInv, SInv, Begin, TaskTypes
<1>1. Apart'
  BY DEF Apart, Idle, NoneServes
<1>2. Past'
  BY DEF Past
<1>3. sample[t] = NoSample /\ \A j \in Keys : ~(wrote[t][j] > 0)
  <2>1. pc[t] = "idle"
    BY DEF Idle
  <2> QED
    BY <2>1 DEF Holding, OnlyWritesWrote
<1>4. EntriesFollow' /\ SamplesFollow'
  BY <1>3 DEF EntriesFollow, SamplesFollow
<1>5. DropsToCome'
  BY <1>3 DEF DropsToCome
<1>6. OnlyWritesWrote'
  BY <1>3 DEF OnlyWritesWrote, Idle
<1>7. ReadYourWrites'
  BY DEF ReadYourWrites, Returned
<1> QED
  BY <1>1, <1>2, <1>4, <1>5, <1>6, <1>7

LEMMA BeginsFollow ==
  ASSUME IInv, SInv, NEW t \in Tasks, Begins(t), "overlap" \notin Disturbances PROVE SInv'
<1>1. CASE BeginRead(t)
  BY <1>1, BeginFollows DEF BeginRead, IInv, TaskTypes
<1>2. CASE BeginWrite(t)
  BY <1>2, BeginFollows, KeyAssumption DEF BeginWrite
<1>3. CASE BeginRefresh(t)
  BY <1>3, BeginFollows, KeyAssumption DEF BeginRefresh
<1> QED
  BY <1>1, <1>2, <1>3 DEF Begins

(* A call that is no write goes on and stores nothing. *)
LEMMA GoToFollows ==
  ASSUME IInv, SInv, NEW t \in Tasks, NEW label, GoTo(t, label), label \notin {"idle", "call"},
         pc[t] \in {"lookup", "fetch"} \/ op[t] = "refresh", ~Idle(t),
         UNCHANGED <<api, acked, cache, sample, dropped, wrote>>
  PROVE  SInv'
<1> USE DEF IInv, SInv, GoTo, TaskTypes
<1>1. Apart'
  BY DEF Apart, Idle
<1>2. Past' /\ EntriesFollow' /\ SamplesFollow' /\ DropsToCome' /\ ReadYourWrites'
  BY DEF Past, EntriesFollow, SamplesFollow, DropsToCome, ReadYourWrites, Returned
<1>3. OnlyWritesWrote'
  BY Numbers DEF OnlyWritesWrote
<1> QED
  BY <1>1, <1>2, <1>3

LEMMA LookupFollows == ASSUME IInv, SInv, NEW t \in Tasks, Lookup(t) PROVE SInv'
BY ReturnEntryFollows, GoToFollows DEF Lookup, Fresh, Idle

(* A fetch reads the API, which shows every acknowledged write. *)
LEMMA FetchFollows == ASSUME IInv, SInv, NEW t \in Tasks, Fetch(t) PROVE SInv'
<1> USE DEF IInv, SInv, Fetch, GoTo, TaskTypes
<1>1. Apart' /\ OnlyWritesWrote'
  BY Numbers DEF Apart, Idle, OnlyWritesWrote
<1>2. Past' /\ EntriesFollow' /\ DropsToCome' /\ ReadYourWrites'
  BY DEF Past, EntriesFollow, DropsToCome, ReadYourWrites, Returned
<1>3. SamplesFollow'
  BY Numbers DEF SamplesFollow, Past
<1> QED
  BY <1>1, <1>2, <1>3

LEMMA FetchFailsFollows == ASSUME IInv, SInv, NEW t \in Tasks, FetchFails(t) PROVE SInv'
BY GoToFollows, RaiseFollows, Numbers DEF FetchFails, Idle

LEMMA FallbackFollows == ASSUME IInv, SInv, NEW t \in Tasks, Fallback(t) PROVE SInv'
<1>1. \A k \in Keys : api[k] \in Nat /\ api[k] <= api[k]
  BY Numbers
<1> QED
  BY <1>1, ReturnEntryFollows, RaiseFollows DEF Fallback

(* What is stored shows every acknowledged write, and no write that has    *)
(* still to drop it is under way.                                          *)
LEMMA StoreFollows == ASSUME IInv, SInv, NEW t \in Tasks, Store(t) PROVE SInv'
<1> USE Numbers DEF IInv, SInv, Store
<1>0. Ended(t, "api", sample[t].version)
  BY ReturnEnds
<1>1. sample[t] # NoSample /\ sample[t].version >= acked[key[t]]
  BY DEF Holding, SamplesFollow
<1>2. \A u \in Tasks : \A k \in Keys : ~(wrote[u][k] > 0)
  <2>1. ~Idle(t) /\ op[t] # "write"
    BY DEF Serving, Idle
  <2> QED
    BY <2>1 DEF OnlyWritesWrote, Apart, Idle
<1>3. Apart' /\ OnlyWritesWrote' /\ DropsToCome'
  <2>1. Apart' /\ OnlyWritesWrote' /\ \A u \in Tasks : \A k \in Keys : ~(wrote'[u][k] > 0)
    BY <1>0, <1>2, EndedKeeps
  <2> QED
    BY <2>1 DEF DropsToCome
<1>4. Past'
  BY <1>0 DEF Ended, Past
<1>5. EntriesFollow'
  BY <1>0, <1>1 DEF Ended, EntriesFollow, SharedTypes
<1>6. SamplesFollow'
  BY <1>0 DEF Ended, SamplesFollow
<1>7. ReadYourWrites'
  <2>1. sample[t].version >= before[t].acked
    BY <1>1 DEF Past
  <2> QED
    BY <1>0, <2>1 DEF Ended, ReadYourWrites, Returned
<1> QED
  BY <1>3, <1>4, <1>5, <1>6, <1>7

LEMMA StoreFailsFollows == ASSUME IInv, SInv, NEW t \in Tasks, StoreFails(t) PROVE SInv'
<1>1. \A k \in Keys : cache'[k] \in {cache[k], NoEntry}
  BY DEF StoreFails, IInv, SharedTypes
<1> QED
  BY <1>1, RaiseFollows, Numbers DEF StoreFails

(* Versions at the API only grow. *)
LEMMA ChangedGrows ==
  ASSUME IInv, NEW K, api' = Changed(K)
  PROVE  \A k \in Keys : api'[k] \in Nat /\ api[k] <= api'[k]
BY Numbers DEF Changed

(* A write that was applied has all its prefixes to drop, and they cover   *)
(* what it changed.                                                        *)
LEMMA ApplyFollows == ASSUME IInv, SInv, NEW t \in Tasks, Apply(t) PROVE SInv'
<1> USE Numbers DEF IInv, SInv, Apply, GoTo, TaskTypes
<1>0. /\ \A k \in Keys : api'[k] \in Nat /\ api[k] <= api'[k]
      /\ \A k \in Keys : wrote'[t][k] > 0 => k \in Changes[scope[t]]
      /\ \A k \in Keys : wrote'[t][k] <= api'[k]
      /\ dropped[t] = 0 /\ op[t] = "write" /\ scope[t] \in Scopes
  BY ChangedGrows DEF Changed, OnlyWritesWrote, Serving
<1>1. Apart' /\ OnlyWritesWrote'
  BY <1>0 DEF Apart, Idle, OnlyWritesWrote
<1>2. Past'
  BY <1>0 DEF Past
<1>3. EntriesFollow' /\ SamplesFollow' /\ ReadYourWrites'
  BY DEF EntriesFollow, SamplesFollow, ReadYourWrites, Returned
<1>4. DropsToCome'
  <2> SUFFICES ASSUME NEW u \in Tasks, NEW k \in Keys, wrote'[u][k] > 0, cache'[k] # NoEntry
               PROVE  \E i \in 1..Len(Drops[scope'[u]]) :
                        i > dropped'[u] /\ k \in Drops[scope'[u]][i]
    BY DEF DropsToCome
  <2>1. CASE u = t
    <3>1. PICK i \in 1..Len(Drops[scope[t]]) : k \in Drops[scope[t]][i]
      BY <1>0, <2>1, DropsCoverChanges
    <3> QED
      BY <1>0, <2>1, <3>1
  <2>2. CASE u # t
    BY <2>2 DEF DropsToCome
  <2> QED
    BY <2>1, <2>2
<1> QED
  BY <1>1, <1>2, <1>3, <1>4

LEMMA ApplyLostFollows == ASSUME IInv, SInv, NEW t \in Tasks, ApplyLost(t) PROVE SInv'
BY RaiseFollows, ChangedGrows DEF ApplyLost

(* The prefix that is dropped takes its entries with it. *)
LEMMA DropFollows == ASSUME IInv, SInv, NEW t \in Tasks, Drop(t) PROVE SInv'
<1> USE Numbers DEF IInv, SInv, Drop, DropBut, GoTo, TaskTypes
<1>1. Apart' /\ OnlyWritesWrote'
  BY DEF Apart, Idle, OnlyWritesWrote
<1>2. Past' /\ SamplesFollow' /\ ReadYourWrites'
  BY DEF Past, SamplesFollow, ReadYourWrites, Returned
<1>3. EntriesFollow'
  BY DEF EntriesFollow
<1>4. DropsToCome'
  <2> SUFFICES ASSUME NEW u \in Tasks, NEW k \in Keys, wrote[u][k] > 0, cache'[k] # NoEntry
               PROVE  \E i \in 1..Len(Drops[scope[u]]) :
                        i > dropped'[u] /\ k \in Drops[scope[u]][i]
    BY DEF DropsToCome
  <2>1. cache[k] # NoEntry /\ k \notin Drops[scope[t]][dropped[t] + 1]
    OBVIOUS
  <2>2. PICK i \in 1..Len(Drops[scope[u]]) : i > dropped[u] /\ k \in Drops[scope[u]][i]
    BY <2>1 DEF DropsToCome
  <2>3. i > dropped'[u]
    BY <2>1, <2>2
  <2> QED
    BY <2>2, <2>3
<1> QED
  BY <1>1, <1>2, <1>3, <1>4

(* When a write is acknowledged, nothing is left of what it changed. *)
LEMMA AcknowledgeFollows == ASSUME IInv, SInv, NEW t \in Tasks, Acknowledge(t) PROVE SInv'
<1> USE Numbers DEF IInv, SInv, Acknowledge
<1>0. Ended(t, "written", 0)
  BY ReturnEnds
<1>1. \A k \in Keys : wrote[t][k] > 0 => cache[k] = NoEntry
  BY DEF DropsToCome, AllDropped
<1>2. \A u \in Tasks : sample[u] = NoSample
  BY DEF Apart, Idle, Holding, Serving, AllDropped
<1>3. Apart' /\ OnlyWritesWrote' /\ DropsToCome'
  <2>1. \A k \in Keys : cache'[k] \in {cache[k], NoEntry}
    OBVIOUS
  <2> QED
    BY <1>0, <2>1, EndedKeeps, EndedLeavesDrops
<1>4. \A k \in Keys : /\ acked'[k] \in {acked[k], wrote[t][k]}
                      /\ acked[k] <= acked'[k]
                      /\ acked'[k] # acked[k] => wrote[t][k] > 0
  BY DEF SharedTypes
<1>5. Past'
  BY <1>0, <1>4 DEF Ended, Past
<1>6. EntriesFollow' /\ SamplesFollow'
  BY <1>0, <1>1, <1>2, <1>4 DEF Ended, EntriesFollow, SamplesFollow
<1>7. ReadYourWrites'
  BY <1>0 DEF Ended, ReadYourWrites, Returned
<1> QED
  BY <1>3, <1>5, <1>6, <1>7

LEMMA RefetchFollows == ASSUME IInv, SInv, NEW t \in Tasks, Refetch(t) PROVE SInv'
BY GoToFollows DEF Refetch, AllDropped, Idle

LEMMA StepFollows ==
  ASSUME IInv, SInv, NEW t \in Tasks, Step(t), "leftovers" \notin Disturbances
  PROVE  SInv'
BY LookupFollows, FetchFollows, FetchFailsFollows, FallbackFollows, StoreFollows,
   StoreFailsFollows, ApplyFollows, ApplyLostFollows, DropFollows, AcknowledgeFollows,
   RefetchFollows, RaiseFollows, Numbers
   DEF Step, Refuse, DropLeaves, DropFails

LEMMA OutsiderFollows == ASSUME IInv, SInv, NEW k \in Keys, Outsider(k) PROVE SInv'
<1> USE Numbers DEF SInv, Outsider, taskVars
<1>1. \A j \in Keys : api'[j] \in Nat /\ api[j] <= api'[j]
  BY ChangedGrows
<1>2. Past'
  BY <1>1 DEF Past
<1>3. Apart' /\ EntriesFollow' /\ SamplesFollow' /\ DropsToCome' /\ OnlyWritesWrote'
      /\ ReadYourWrites'
  BY DEF Apart, Idle, EntriesFollow, SamplesFollow, DropsToCome, OnlyWritesWrote,
         ReadYourWrites, Returned
<1> QED
  BY <1>2, <1>3

LEMMA TickFollows == ASSUME IInv, SInv, Tick PROVE SInv'
<1> USE DEF SInv, Tick, TimePasses
<1>1. \A k \in Keys : cache'[k] # NoEntry =>
        cache[k] # NoEntry /\ cache'[k].version = cache[k].version
  BY DEF IInv, SharedTypes, Entries
<1>2. \A t \in Tasks : sample'[t] # NoSample =>
        sample[t] # NoSample /\ sample'[t].version = sample[t].version
  BY DEF IInv, TaskTypes, Samples
<1>3. EntriesFollow' /\ SamplesFollow' /\ DropsToCome'
  BY <1>1, <1>2 DEF EntriesFollow, SamplesFollow, DropsToCome
<1>4. Apart' /\ Past' /\ OnlyWritesWrote' /\ ReadYourWrites'
  BY DEF Apart, Idle, Past, OnlyWritesWrote, ReadYourWrites, Returned
<1> QED
  BY <1>3, <1>4

LEMMA NextFollows ==
  ASSUME "overlap" \notin Disturbances, "leftovers" \notin Disturbances
  PROVE  IInv /\ SInv /\ [Next]_vars => SInv'
<1> SUFFICES ASSUME IInv, SInv, [Next]_vars PROVE SInv'
  OBVIOUS
<1>1. CASE Next
  BY <1>1, BeginsFollow, StepFollows, RaiseFollows, OutsiderFollows, TickFollows, Numbers
     DEF Next, Cancel
<1>2. CASE UNCHANGED vars
  BY <1>2 DEF vars, taskVars, SInv, Apart, Idle, Past, EntriesFollow, SamplesFollow, DropsToCome,
              OnlyWritesWrote, ReadYourWrites, Returned
<1> QED
  BY <1>1, <1>2

(* A read that begins after a write was acknowledged shows that write,     *)
(* through any other failure, crash and outside change, if _cached_fetch   *)
(* and _write_op do not overlap, rmtree leaves nothing behind and          *)
(* prefixes_for covers what a write changes (DropsCoverChanges).           *)
THEOREM ReadsFollowWrites ==
  ASSUME "overlap" \notin Disturbances, "leftovers" \notin Disturbances
  PROVE  Spec => []ReadYourWrites
<1>1. IInv /\ SInv => ReadYourWrites
  BY DEF SInv
<1> QED
  BY InitIInv, NextKeeps, InitSInv, NextFollows, <1>1, PTL DEF Spec

-----------------------------------------------------------------------------
(***************************************************************************)
(* What refresh_cache (application/use_cases.py) reports as refreshed is   *)
(* at least as new as the call, for any tasks, keys, scopes and prefixes:  *)
(* even when the API fails and the last known good is returned instead.    *)
(***************************************************************************)

Refreshes(t) == ~Idle(t) /\ op[t] = "refresh"

(* While reads are under way nothing changes the API's content.            *)
SamplesAreCurrent ==
  \A t \in Tasks : sample[t] # NoSample => sample[t].version = api[key[t]]

RefreshesTheSnapshot ==
  \A t \in Tasks : Refreshes(t) => key[t] = RmdKey /\ before[t].api <= api[RmdKey]

(* An older snapshot has yet to be dropped.                                *)
ToDrop(t) ==
  pc[t] = "invalidate" /\ \E i \in 1..Len(Drops[scope[t]]) :
                             i > dropped[t] /\ RmdKey \in Drops[scope[t]][i]
OldIsDropped ==
  \A t \in Tasks :
    Refreshes(t) /\ cache[RmdKey] # NoEntry =>
      cache[RmdKey].version >= before[t].api \/ ToDrop(t)

RInv == SamplesAreCurrent /\ RefreshesTheSnapshot /\ OldIsDropped /\ RefreshIsHonest

Quiet == "overlap" \notin Disturbances /\ "leftovers" \notin Disturbances
           /\ "outsider" \notin Disturbances

LEMMA MoreNumbers ==
  ASSUME IInv
  PROVE  \A t \in Tasks : before[t].api \in Nat
BY BoundFacts DEF IInv, TaskTypes

LEMMA InitRInv == Init => RInv
<1> SUFFICES ASSUME Init PROVE RInv
  OBVIOUS
<1> USE DEF Init
<1>1. SamplesAreCurrent /\ RefreshesTheSnapshot /\ OldIsDropped
  BY DEF SamplesAreCurrent, RefreshesTheSnapshot, OldIsDropped, Refreshes, Idle
<1>2. RefreshIsHonest
  BY DEF RefreshIsHonest, Returned
<1> QED
  BY <1>1, <1>2 DEF RInv

-----------------------------------------------------------------------------
(* A call that ends honestly, while entries at most go, versions at most   *)
(* grow, and what others have fetched stays current.                       *)
LEMMA EndedIsHonest ==
  ASSUME IInv, RInv, NEW t \in Tasks, NEW source, NEW version \in Nat,
         Ended(t, source, version),
         IsRead(source) /\ op[t] = "refresh" => version >= before[t].api,
         \A k \in Keys : api'[k] \in Nat /\ api[k] <= api'[k],
         \A u \in Tasks : sample[u] # NoSample => api'[key[u]] = api[key[u]],
         \A k \in Keys : cache'[k] \in {cache[k], NoEntry}
  PROVE  RInv'
<1> USE Numbers, MoreNumbers, KeyAssumption DEF Ended
<1>1. SamplesAreCurrent'
  BY DEF RInv, SamplesAreCurrent
<1>2. RefreshesTheSnapshot'
  BY DEF RInv, RefreshesTheSnapshot, Refreshes, Idle
<1>3. OldIsDropped'
  <2> SUFFICES ASSUME NEW u \in Tasks, Refreshes(u)', cache'[RmdKey] # NoEntry
               PROVE  cache'[RmdKey].version >= before'[u].api \/ ToDrop(u)'
    BY DEF OldIsDropped
  <2>1. u # t /\ Refreshes(u) /\ cache[RmdKey] # NoEntry /\ cache'[RmdKey] = cache[RmdKey]
    BY DEF Refreshes, Idle
  <2>2. CASE cache[RmdKey].version >= before[u].api
    BY <2>1, <2>2
  <2>3. CASE ToDrop(u)
    BY <2>1, <2>3 DEF ToDrop
  <2> QED
    BY <2>1, <2>2, <2>3 DEF RInv, OldIsDropped
<1>4. RefreshIsHonest'
  BY DEF RInv, RefreshIsHonest, Returned, IsRead
<1> QED
  BY <1>1, <1>2, <1>3, <1>4 DEF RInv

LEMMA RaiseIsHonest ==
  ASSUME IInv, RInv, NEW t \in Tasks, Raise(t),
         \A k \in Keys : api'[k] \in Nat /\ api[k] <= api'[k],
         \A u \in Tasks : sample[u] # NoSample => api'[key[u]] = api[key[u]],
         \A k \in Keys : cache'[k] \in {cache[k], NoEntry}
  PROVE  RInv'
<1>1. ~IsRead("error") /\ Ended(t, "error", 0)
  BY ReturnEnds DEF IsRead, Raise
<1> QED
  BY <1>1, EndedIsHonest

LEMMA SameVersions ==
  ASSUME IInv
  PROVE  \A k \in Keys : api[k] \in Nat /\ api[k] <= api[k]
BY Numbers

LEMMA QuietRaiseIsHonest ==
  ASSUME IInv, RInv, NEW t \in Tasks, Raise(t), api' = api,
         \A k \in Keys : cache'[k] \in {cache[k], NoEntry}
  PROVE  RInv'
BY RaiseIsHonest, SameVersions

(* An entry that a refresh may return is not old.                          *)
LEMMA ReturnEntryIsHonest ==
  ASSUME IInv, RInv, NEW t \in Tasks, NEW source, ReturnEntry(t, source),
         cache[key[t]] # NoEntry, ~Idle(t), pc[t] # "invalidate",
         UNCHANGED <<api, cache>>
  PROVE  RInv'
<1>1. cache[key[t]].version \in Nat
  BY Numbers
<1>2. Ended(t, source, cache[key[t]].version)
  BY ReturnEnds DEF ReturnEntry
<1>3. op[t] = "refresh" => cache[key[t]].version >= before[t].api
  BY DEF RInv, OldIsDropped, RefreshesTheSnapshot, Refreshes, ToDrop
<1> QED
  BY <1>1, <1>2, <1>3, EndedIsHonest, SameVersions

LEMMA BeginIsHonest ==
  ASSUME IInv, SInv, RInv, NEW t \in Tasks, NEW service, NEW label, NEW k \in Keys,
         NEW s \in Scopes, Begin(t, service, label, k, s), label # "idle",
         service = "refresh" => label = "invalidate" /\ k = RmdKey,
         \E i \in 1..Len(Drops[s]) : RmdKey \in Drops[s][i]
  PROVE  RInv'
<1> USE Numbers, MoreNumbers DEF IInv, TaskTypes, Begin
<1>1. pc[t] = "idle" /\ sample[t] = NoSample /\ dropped[t] = 0
  BY DEF Idle, Holding, SInv, OnlyWritesWrote
<1>2. SamplesAreCurrent'
  BY <1>1 DEF RInv, SamplesAreCurrent
<1>3. RefreshesTheSnapshot'
  BY DEF RInv, RefreshesTheSnapshot, Refreshes, Idle
<1>4. OldIsDropped'
  <2> SUFFICES ASSUME NEW u \in Tasks, Refreshes(u)', cache[RmdKey] # NoEntry
               PROVE  cache[RmdKey].version >= before'[u].api \/ ToDrop(u)'
    BY DEF OldIsDropped
  <2>1. CASE u = t
    <3>1. pc'[t] = "invalidate" /\ scope'[t] = s /\ dropped'[t] = 0
      BY <1>1, <2>1 DEF Refreshes
    <3> QED
      BY <2>1, <3>1 DEF ToDrop
  <2>2. CASE u # t
    <3>1. Refreshes(u) /\ pc'[u] = pc[u] /\ scope'[u] = scope[u] /\ before'[u] = before[u]
      BY <2>2 DEF Refreshes, Idle
    <3>2. ToDrop(u) => ToDrop(u)'
      BY <3>1 DEF ToDrop
    <3> QED
      BY <3>1, <3>2 DEF RInv, OldIsDropped
  <2> QED
    BY <2>1, <2>2
<1>5. RefreshIsHonest'
  BY DEF RInv, RefreshIsHonest, Returned
<1> QED
  BY <1>2, <1>3, <1>4, <1>5 DEF RInv

(* A call goes on; a refresh leaves "invalidate" with everything dropped.  *)
LEMMA GoToIsHonest ==
  ASSUME IInv, RInv, NEW t \in Tasks, NEW label, GoTo(t, label), ~Idle(t),
         pc[t] = "invalidate" => ~ToDrop(t),
         \A u \in Tasks : sample'[u] # NoSample => sample'[u].version = api'[key[u]],
         \A k \in Keys : api'[k] \in Nat /\ api[k] <= api'[k],
         UNCHANGED <<cache, dropped>>
  PROVE  RInv'
<1> USE Numbers, MoreNumbers, KeyAssumption DEF IInv, TaskTypes, GoTo
<1>1. SamplesAreCurrent'
  BY DEF SamplesAreCurrent
<1>2. \A u \in Tasks : Refreshes(u)' => Refreshes(u)
  BY DEF Refreshes, Idle
<1>3. RefreshesTheSnapshot'
  BY <1>2 DEF RInv, RefreshesTheSnapshot
<1>4. OldIsDropped'
  <2> SUFFICES ASSUME NEW u \in Tasks, Refreshes(u)', cache[RmdKey] # NoEntry
               PROVE  cache[RmdKey].version >= before[u].api \/ ToDrop(u)'
    BY DEF OldIsDropped
  <2>1. cache[RmdKey].version >= before[u].api \/ ToDrop(u)
    BY <1>2 DEF RInv, OldIsDropped
  <2>2. ToDrop(u) => u # t
    BY DEF ToDrop
  <2> QED
    BY <2>1, <2>2 DEF ToDrop
<1>5. RefreshIsHonest'
  BY DEF RInv, RefreshIsHonest, Returned
<1> QED
  BY <1>1, <1>3, <1>4, <1>5 DEF RInv

-----------------------------------------------------------------------------
LEMMA BeginsAreHonest ==
  ASSUME IInv, SInv, RInv, NEW t \in Tasks, Begins(t),
         \A s \in Scopes : \E i \in 1..Len(Drops[s]) : RmdKey \in Drops[s][i]
  PROVE  RInv'
<1>1. CASE BeginRead(t)
  BY <1>1, BeginIsHonest DEF BeginRead, IInv, TaskTypes
<1>2. CASE BeginWrite(t)
  BY <1>2, BeginIsHonest, KeyAssumption DEF BeginWrite
<1>3. CASE BeginRefresh(t)
  BY <1>3, BeginIsHonest, KeyAssumption DEF BeginRefresh
<1> QED
  BY <1>1, <1>2, <1>3 DEF Begins

(* GoTo where neither the API nor a sample changes.                        *)
LEMMA GoesOn ==
  ASSUME IInv, RInv, NEW t \in Tasks, NEW label, GoTo(t, label), ~Idle(t),
         pc[t] = "invalidate" => ~ToDrop(t),
         UNCHANGED <<api, cache, sample, dropped>>
  PROVE  RInv'
<1>1. \A u \in Tasks : sample'[u] # NoSample => sample'[u].version = api'[key[u]]
  BY DEF RInv, SamplesAreCurrent
<1>2. \A k \in Keys : api'[k] \in Nat /\ api[k] <= api'[k]
  BY SameVersions
<1> QED
  BY <1>1, <1>2, GoToIsHonest

LEMMA LookupIsHonest == ASSUME IInv, RInv, NEW t \in Tasks, Lookup(t) PROVE RInv'
BY ReturnEntryIsHonest, GoesOn DEF Lookup, Fresh, Idle

LEMMA FetchIsHonest == ASSUME IInv, RInv, NEW t \in Tasks, Fetch(t) PROVE RInv'
<1>1. \A u \in Tasks : sample'[u] # NoSample => sample'[u].version = api'[key[u]]
  BY DEF RInv, SamplesAreCurrent, Fetch, IInv, TaskTypes
<1> QED
  BY <1>1, SameVersions, GoToIsHonest DEF Fetch, Idle

LEMMA FetchFailsIsHonest == ASSUME IInv, RInv, NEW t \in Tasks, FetchFails(t) PROVE RInv'
BY GoesOn, QuietRaiseIsHonest DEF FetchFails, Idle

LEMMA FallbackIsHonest == ASSUME IInv, RInv, NEW t \in Tasks, Fallback(t) PROVE RInv'
BY ReturnEntryIsHonest, QuietRaiseIsHonest DEF Fallback, Idle

(* What is stored is what the API holds.                                   *)
LEMMA StoreIsHonest == ASSUME IInv, RInv, NEW t \in Tasks, Store(t) PROVE RInv'
<1> USE Numbers, MoreNumbers, KeyAssumption
<1>0. Ended(t, "api", sample[t].version) /\ api' = api
  BY ReturnEnds DEF Store
<1>1. sample[t] # NoSample /\ sample[t].version = api[key[t]] /\ ~Idle(t)
  BY DEF IInv, Holding, RInv, SamplesAreCurrent, Store, Idle
<1>2. SamplesAreCurrent' /\ RefreshesTheSnapshot'
  BY <1>0 DEF Ended, RInv, SamplesAreCurrent, RefreshesTheSnapshot, Refreshes, Idle
<1>3. OldIsDropped'
  <2> SUFFICES ASSUME NEW u \in Tasks, Refreshes(u)', cache'[RmdKey] # NoEntry
               PROVE  cache'[RmdKey].version >= before'[u].api \/ ToDrop(u)'
    BY DEF OldIsDropped
  <2>1. u # t /\ Refreshes(u) /\ before'[u] = before[u] /\ (ToDrop(u) => ToDrop(u)')
    BY <1>0 DEF Ended, Refreshes, Idle, ToDrop
  <2>2. CASE key[t] = RmdKey
    <3>1. cache'[RmdKey].version = api[RmdKey]
      BY <1>1, <2>2 DEF Store, IInv, SharedTypes
    <3> QED
      BY <2>1, <3>1 DEF RInv, RefreshesTheSnapshot
  <2>3. CASE key[t] # RmdKey
    <3>1. cache'[RmdKey] = cache[RmdKey]
      BY <2>3 DEF Store, IInv, SharedTypes
    <3> QED
      BY <2>1, <3>1 DEF RInv, OldIsDropped
  <2> QED
    BY <2>2, <2>3
<1>4. RefreshIsHonest'
  <2>1. op[t] = "refresh" => sample[t].version >= before[t].api
    BY <1>1 DEF RInv, RefreshesTheSnapshot, Refreshes
  <2> QED
    BY <1>0, <2>1 DEF Ended, RInv, RefreshIsHonest, Returned
<1> QED
  BY <1>2, <1>3, <1>4 DEF RInv

LEMMA StoreFailsIsHonest == ASSUME IInv, RInv, NEW t \in Tasks, StoreFails(t) PROVE RInv'
<1>1. \A k \in Keys : cache'[k] \in {cache[k], NoEntry}
  BY DEF StoreFails, IInv, SharedTypes
<1> QED
  BY <1>1, QuietRaiseIsHonest DEF StoreFails

(* A write finds nothing fetched: no read is under way.                    *)
LEMMA NothingIsFetched ==
  ASSUME IInv, SInv, NEW t \in Tasks, pc[t] = "call"
  PROVE  \A u \in Tasks : sample[u] = NoSample
BY DEF IInv, Serving, Holding, SInv, Apart, Idle

LEMMA ApplyIsHonest == ASSUME IInv, SInv, RInv, NEW t \in Tasks, Apply(t) PROVE RInv'
<1>1. \A u \in Tasks : sample'[u] = NoSample
  BY NothingIsFetched DEF Apply
<1>2. \A k \in Keys : api'[k] \in Nat /\ api[k] <= api'[k]
  BY ChangedGrows DEF Apply
<1> QED
  BY <1>1, <1>2, GoToIsHonest DEF Apply, Idle

LEMMA ApplyLostIsHonest == ASSUME IInv, SInv, RInv, NEW t \in Tasks, ApplyLost(t) PROVE RInv'
<1>1. \A u \in Tasks : sample[u] = NoSample
  BY NothingIsFetched DEF ApplyLost
<1>2. \A k \in Keys : api'[k] \in Nat /\ api[k] <= api'[k]
  BY ChangedGrows DEF ApplyLost
<1> QED
  BY <1>1, <1>2, RaiseIsHonest DEF ApplyLost

LEMMA DropIsHonest == ASSUME IInv, RInv, NEW t \in Tasks, Drop(t) PROVE RInv'
<1> USE Numbers, MoreNumbers, KeyAssumption DEF Drop, DropBut, GoTo, IInv, TaskTypes
<1>1. SamplesAreCurrent' /\ RefreshIsHonest'
  BY DEF RInv, SamplesAreCurrent, RefreshIsHonest, Returned
<1>2. \A u \in Tasks : Refreshes(u)' => Refreshes(u)
  BY DEF Refreshes, Idle
<1>3. RefreshesTheSnapshot'
  BY <1>2 DEF RInv, RefreshesTheSnapshot
<1>4. OldIsDropped'
  <2> SUFFICES ASSUME NEW u \in Tasks, Refreshes(u)', cache'[RmdKey] # NoEntry
               PROVE  cache'[RmdKey].version >= before[u].api \/ ToDrop(u)'
    BY DEF OldIsDropped
  <2>1. /\ cache[RmdKey] # NoEntry /\ cache'[RmdKey] = cache[RmdKey]
        /\ RmdKey \notin Drops[scope[t]][dropped[t] + 1]
    OBVIOUS
  <2>2. CASE cache[RmdKey].version >= before[u].api
    BY <2>1, <2>2
  <2>3. CASE ToDrop(u)
    <3>1. PICK i \in 1..Len(Drops[scope[u]]) : i > dropped[u] /\ RmdKey \in Drops[scope[u]][i]
      BY <2>3 DEF ToDrop
    <3>2. i > dropped'[u] /\ pc'[u] = "invalidate"
      BY <2>1, <2>3, <3>1 DEF ToDrop
    <3> QED
      BY <3>1, <3>2 DEF ToDrop
  <2> QED
    BY <1>2, <2>1, <2>2, <2>3 DEF RInv, OldIsDropped
<1> QED
  BY <1>1, <1>3, <1>4 DEF RInv

LEMMA AcknowledgeIsHonest == ASSUME IInv, RInv, NEW t \in Tasks, Acknowledge(t) PROVE RInv'
<1>1. Ended(t, "written", 0) /\ ~IsRead("written")
  BY ReturnEnds DEF Acknowledge, IsRead
<1> QED
  BY <1>1, EndedIsHonest, SameVersions DEF Acknowledge

(* The fetch begins when the last prefix is dropped.                       *)
LEMMA RefetchIsHonest == ASSUME IInv, RInv, NEW t \in Tasks, Refetch(t) PROVE RInv'
<1>1. ~ToDrop(t)
  BY DEF Refetch, AllDropped, ToDrop
<1> QED
  BY <1>1, GoesOn DEF Refetch, AllDropped, Idle

LEMMA StepIsHonest ==
  ASSUME IInv, SInv, RInv, NEW t \in Tasks, Step(t), "leftovers" \notin Disturbances
  PROVE  RInv'
BY LookupIsHonest, FetchIsHonest, FetchFailsIsHonest, FallbackIsHonest, StoreIsHonest,
   StoreFailsIsHonest, ApplyIsHonest, ApplyLostIsHonest, DropIsHonest, AcknowledgeIsHonest,
   RefetchIsHonest, QuietRaiseIsHonest
   DEF Step, Refuse, DropLeaves, DropFails

LEMMA TickIsHonest == ASSUME IInv, RInv, Tick PROVE RInv'
<1> USE KeyAssumption DEF RInv, Tick, TimePasses
<1>1. \A k \in Keys : cache'[k] # NoEntry =>
        cache[k] # NoEntry /\ cache'[k].version = cache[k].version
  BY DEF IInv, SharedTypes, Entries
<1>2. \A t \in Tasks : sample'[t] # NoSample =>
        sample[t] # NoSample /\ sample'[t].version = sample[t].version
  BY DEF IInv, TaskTypes, Samples
<1>3. SamplesAreCurrent' /\ OldIsDropped'
  BY <1>1, <1>2 DEF SamplesAreCurrent, OldIsDropped, Refreshes, Idle, ToDrop
<1>4. RefreshesTheSnapshot' /\ RefreshIsHonest'
  BY DEF RefreshesTheSnapshot, Refreshes, Idle, RefreshIsHonest, Returned
<1> QED
  BY <1>3, <1>4

LEMMA NextIsHonest ==
  ASSUME Quiet, \A s \in Scopes : \E i \in 1..Len(Drops[s]) : RmdKey \in Drops[s][i]
  PROVE  IInv /\ SInv /\ RInv /\ [Next]_vars => RInv'
<1> SUFFICES ASSUME IInv, SInv, RInv, [Next]_vars PROVE RInv'
  OBVIOUS
<1>1. CASE Next
  BY <1>1, BeginsAreHonest, StepIsHonest, QuietRaiseIsHonest, TickIsHonest
     DEF Next, Cancel, Outsider, Quiet
<1>2. CASE UNCHANGED vars
  BY <1>2 DEF vars, taskVars, RInv, SamplesAreCurrent, RefreshesTheSnapshot, OldIsDropped,
              Refreshes, Idle, ToDrop, RefreshIsHonest, Returned
<1> QED
  BY <1>1, <1>2

(* refresh_cache returns nothing older than the content at the time of the *)
(* call, a last known good included, if the prefixes of its scope cover    *)
(* the snapshot, rmtree leaves nothing behind, reads and writes do not     *)
(* overlap and nobody else changes the content.                            *)
THEOREM RefreshesAreHonest ==
  ASSUME Quiet, \A s \in Scopes : \E i \in 1..Len(Drops[s]) : RmdKey \in Drops[s][i]
  PROVE  Spec => []RefreshIsHonest
<1>1. IInv /\ SInv /\ [Next]_vars => SInv'
  BY NextFollows DEF Quiet
<1>2. IInv /\ SInv /\ RInv /\ [Next]_vars => RInv'
  BY NextIsHonest
<1>3. RInv => RefreshIsHonest
  BY DEF RInv
<1> QED
  BY InitIInv, NextKeeps, InitSInv, InitRInv, <1>1, <1>2, <1>3, PTL DEF Spec
=============================================================================
