# A verification of the DataForge MCP gateway

TLA+ models, TLC runs and TLAPS proofs for `dataforge-mcp`, the server that exposes the
DataForge API to agents as MCP tools. Paths below are relative to `src/src/dataforge_mcp/`
in the tree of sources, documents to its root.

## The system

| Part | State | Operations | Interacts with |
|---|---|---|---|
| Tools (`mcp/`) | none | schemas, argument checks, handlers, error envelope | the service |
| Semantic service, reads (`application/use_cases.py`) | none of its own | `_cached_fetch`, some 20 read use cases over it, `refresh_cache` | cache store and client, by awaits |
| Semantic service, writes (`application/write_use_cases.py`) | none of its own | `_write_op`, 40 write use cases over it | client, then the cache, prefix by prefix |
| Invalidation (`application/invalidation.py`) | constant table | `prefixes_for` | called by writes and refresh |
| Cache (`cache/store.py`, `cache/file_store.py`) | one JSON file per key; survives restarts | get, last known good, set, drop a prefix; each runs in a thread | the file system |
| Endpoints (`dataforge/read_client.py`, `write_client.py`) | none | a method, path, parameters or body for each use case | the API client |
| API client (`dataforge/client.py`) | locals of `_request`: attempt, in-progress budget, last error | one HTTP call with retries | the API, by requests that may be lost, late or answered twice |
| Errors (`errors.py`) | constant catalogue | one code for each error of the API | client, tools |
| Transports (`transport/`) | sessions, in the `mcp` library | bearer check, routing | the MCP client |
| Schemas, normalizer, configuration | none that changes | pure conversions, start-up | everything |

What is hard here:

* The event loop interleaves tool calls at every await. `_cached_fetch` reads the API and
  stores the answer at another time; `_write_op` applies a write and drops the cached
  entries later, one prefix at a time. There is no lock and no version number anywhere.
* A request that timed out is still at large. What happens to it later, and to the retry
  that carries the same idempotency key, decides whether a write takes effect once.
* Every call may be cancelled at every await, and the process may die; entries survive.
* The cache answers when the API does not, without looking at the age of an entry.
* The file store works in threads without locks, and ignores some of its own errors.
* A tool call passes through five tables (schema, handler, use case, key or body, endpoint)
  that agree by name only; a slip shows in a combination of arguments, or in a later call.
* A listing is fetched page by page while others change it.

`PROJECT.json` lists the hazards one by one, with the properties about each, and the
components with what is left out of them.

## Modules

| Module | Models | Kind |
|---|---|---|
| `ApiClient`, `MCApiClient` | `_request`, `_transport_error`; the API's idempotency store from outside | state machine |
| `Invalidation`, `MCInvalidation` | key shapes, `_VERSION_PREFIXES`, `prefixes_for`, the scope every write use case passes | state machine over a table |
| `SemanticCache`, `MCSemanticCache` | `_cached_fetch`, `refresh_cache`, `_write_op`, the entries of the store; composed with the real scopes of `Invalidation` | state machine |
| `CacheStore` | what `cache/store.py` promises to concurrent callers | abstract specification |
| `FileStore`, `MCFileStore` | `FileCacheStore`, one file-system call a step | state machine, implements `CacheStore` |
| `ReadTools`, `MCReadTools` | the read tools, from arguments to request, key and file | tables, and a sequence of calls |
| `WriteTools`, `MCWriteTools` | the write tools, from arguments to request, and a caller who repeats | tables, and a sequence of tries |
| `Pagination` | the paged fetches, against a listing that changes | state machine |
| `Arguments` | `prepare_arguments` and the coercions | operators |
| `ErrorMapping` | the catalogue and `_resolve_code` | operators |
| `ToolCall`, `MCToolCall` | `on_call_tool`, composing the three above | state machine |
| `Tables` | tables that are put together from parts; used by `ReadTools` and `WriteTools` | operators |
| `ApiClientProofs`, `SemanticCacheProofs`, `InvalidationProofs`, `PaginationProofs`, `FileStoreProofs`, `ToolCallProofs`, `WriteToolsProofs`, `ReadToolsProofs` | theorems about the module each is named for | proofs |

### ApiClient

`pc`, `attempt`, `inProgressRetries` and `lastExc` are the locals of the loop; `outcome` is
what the call returns or raises. `request[c][n]` follows attempt `n` of call `c` beyond the
client's interest in it: unsent, sent, running, or answered. `Send` and `Exhausted` are the
loop head; `ReceiveServerError`, `ReceiveInProgress` and `ReceiveFinal` the branches on the
status; `TransportFailure` the two `except` clauses, possible at any moment of waiting,
whatever became of the request (an `httpx.RequestError` that is no `TransportError`, which
neither clause catches, is left out); `WakeUp` the end of `asyncio.sleep`. `IDEMPOTENT` stands
for GET, PUT, PATCH and DELETE. A key goes with a POST only, as in `write_client.py`.

The API (`Arrive`, `TurnAway`, `Apply`, `Refuse`) is external. What is assumed of it is
what docs and tests say: a key that is running answers 409 in progress, a key that is done
answers with the stored success, a failed key is free again. An answer may be a 5xx although
the effect has happened.

### Invalidation

Keys are sequences of segments, and ids sequences of digits, because `invalidate_prefix`
turns segments into directories. `Writes` has a row per use case, or for several that
agree, with the scope read off its `_write_op` call and the families its change shows in.
The latter is knowledge of the API: its source is the comment that heads
`invalidation.py` and the content of each payload.

### SemanticCache

A task is one tool call. The API holds a version of each key's content. An entry has the
version it was filled with, its age since `cache.set` (`fetched_at`) and the age of what it
holds since the API read it. `acked` is the version the last acknowledged write made.

| Action | Code |
|---|---|
| `BeginRead`, `Lookup` | `_cached_fetch` up to a hit, with and without `use_cache` |
| `Fetch`, `FetchFails`, `Fallback` | `await fetch()`; a `DataForgeError` and the last known good; any other exception |
| `Store`, `StoreFails` | `cache.set`, and a `write_text` that fails |
| `BeginWrite`, `Apply`, `ApplyLost`, `Refuse` | the call in `_write_op`: done, done but told otherwise, not done |
| `Drop`, `DropLeaves`, `DropFails` | one turn of the loop over prefixes; what `rmtree` leaves; what `unlink` raises |
| `Acknowledge` | the response |
| `BeginRefresh`, `Refetch` | `refresh_cache`, which goes on as a fetch |
| `Cancel`, `Outsider`, `Tick` | cancellation or death, other clients of the API, time |

The constant `Disturbances` says what the environment may do, so that a property can be
stated with exactly the assumption it needs. `ASSUME DropsCoverChanges` is what
`Invalidation` establishes for the real scopes.

Abstractions: store operations are atomic here (`FileStore` takes them apart); a paged
listing is read at one moment, and `MaxFetchTime` stands for the whole fetch, all pages and
retries, from the API's first reading; the clock only moves forward. After a cancellation, a
write that is still on its way appears as an `Outsider`.

### CacheStore and FileStore

`CacheStore` has the entries and the calls in progress, nothing of files. A call that sets
or drops may lose an entry it works on at any time and may fail; nothing else changes an
entry; a get returns what its entry is at one moment of the call; a drop that reports
success leaves no entry of its family but those a set was working on meanwhile (`touched`).

In `FileStore` every call is a thread (`asyncio.to_thread`), and every step of it one call
of the file system:

| Steps | Code |
|---|---|
| `Read` | `read_text` and the parsing in `get` and `get_last_known_good` |
| `Climb`, `MakeDir`, `FindDir`, `StillThere`, `GoneAgain`, `LoseParent` | `mkdir(parents=True, exist_ok=True)`: up to a directory that exists, down again, and the second look of `exist_ok` |
| `Open`, `Write` | `write_text`, which truncates and then writes |
| `Enter`, `Count` | `is_dir`, and `rglob`, which raises when a directory of the family goes meanwhile |
| `ListDir`, `RemoveFile`, `RemoveDir`, `Removed` | `rmtree(ignore_errors=True)`, level by level, in any order |
| `DropLeaf` | the file of a key that is the prefix itself |
| `Check`, `Unlink` | `invalidate` |
| `CheckHealth`, `Crash` | `is_healthy` makes `cache_dir`; the process dies between any two steps |

A thread that has a file open keeps it when the name goes (`linked`), and then writes into
the void. Two writers of one file may leave the end of the longer text (`Mixed`), which the
parser refuses. Abstractions: one `read` and one `write` carry a whole entry; names are
followed, not file descriptors of directories; losing power is not modelled; expiry is in
`SemanticCache`. `Contract` is the refinement mapping: `CallOf` says which call of
`CacheStore` a thread is in, `Contents` what a read would find.

`SemanticCache` uses a store with atomic calls. What `CacheStore` allows beyond that is
covered there by its disturbances: a set that fails (`StoreFails`), a drop that fails or
leaves something (`DropFails`, `DropLeaves`), and an entry that is lost early, which is a
miss. A miss that was a torn entry is the third finding.

### ReadTools and WriteTools

Each layer of the code is a table, transcribed row by row: `Schemas` (`tools_read.py`,
`tools_write.py`), `Handlers` and `Defaults`, `UseCases`, `KeyBuilders` (`store.py`), the
path of a key (`_key_to_path`) and `Endpoints`; for writes the required and declared fields
of each body (`write_schemas.py`), the modes, and which methods pass the key on. Operators
named for the code compose them, so a call of a tool becomes the request it is sent as and
the file it is answered from. What the caller asked for is stated apart from the tables:
`Asked`, by tool and argument names, and `Complete`, from the documented requirements.

`ReadTools` then plays one call after another over a shared cache directory, with
outages and refreshes; a refresh stores a snapshot in the language it names. Left out are
empty texts as filters, which the code prints in the key and does not send, and page sizes
below 1. `WriteTools` plays a caller that repeats one call because no answer
came, against an API that remembers keys. There an argument stands for its own value, and
the fields that a body treats alike are one. `options` stands for `commit_hash`,
`encryption_password` and the other details of exports that travel together. A file to
import that cannot be read is left out.

### Pagination, Arguments, ErrorMapping, ToolCall

`Pagination` numbers the rows in the order they are added, and lets other clients insert and
remove rows between two pages. The three ends of the loop (`_is_last_page`, the empty page,
`_MAX_PAGES`) are `EndsAfter`. It assumes that the API keeps its order and never uses a row
id twice. An answer without a pagination object (`bare`) ends the loop after its first page,
however full, so the completeness property does not speak of it.

`Arguments` is `prepare_arguments`: a JSON value is its type and its text, and
the coercions are tried in the order of the code. The code recurses over the schema; here
there is an operator for each level (`CoerceLeaf`, `CoerceMember`, `CoerceItem`, `Coerce`),
since no tool has a schema deeper than that of `df_bulk_write_dimensions`: a list of objects
with an object among their members. `ErrorMapping` has the catalogue with its
order, because the last resort of `_resolve_code` takes the first key it finds in the text.
`ToolCall` puts them together, with three tools that differ in their checks.
`df_get_measures` stands for the tools that page and cache, `df_bulk_write_measures` for
those whose body is checked again after the arguments, `df_write_measure` for those with a
`mode`: after its arguments come `require_for_mode` (`RefuseMissing`) and
`_check_target_id` (`RefuseTarget`). An error has `fields`, whoever named them: the check,
the API in its `details[]` (`Details`), or the schema that an answer does not fit
(`Misfits`). The agent looks at the fields only. It gives, replaces or removes what they
name, keeps every other argument, and calls again, at most `Patience` refusals long. A write
may end in an error although it was carried out, when a drop raises (`Written`). One cache
key is followed, as fresh, expired or none.

## Runs

| Run | Instance | Shows |
|---|---|---|
| `ApiClient` | 2 calls, 1 key, 2 attempts each, 1 of them for "in progress" | effects at most once; success is real; the loop ends and never raises `None` |
| `Invalidation` | projects 39, 392; versions 9, 94, 48 | scopes are wide enough, and no wider than said |
| `CacheSequential` | 2 tasks, keys `measures` and `rmd`, 3 versions; no overlap, outsider or leftovers | read-your-writes; an honest refresh |
| `CacheConcurrent` | 2 tasks, key `rmd`, 2 versions, TTL 1; every disturbance | bounded staleness; eventual freshness |
| `FileStore` | 2 threads, 3 directories, 2 keys (one of them a prefix), 2 prefixes, 2 sets | the store implements `CacheStore`; every call ends |
| `ReadTools` | every cached read tool, up to 2 optional arguments, 1 file | calls get their own answers; an outage costs nothing that was stored; a refresh is thorough |
| `WriteTools` | every write tool with every subset of its optional arguments, 3 tries | what is complete is sent, whole; what is not costs no request; an own key makes repeats harmless |
| `ToolCall` | 3 tools; page size 2, 2 pages, 6 rows, 2 changes; sampled arguments, 6 API errors, statuses 409 and 500, with details and without; patience 4 | what a listing may lack or repeat; refusals; codes; leniency; every call is answered |
| `CacheStraddle` | 2 tasks, overlap | finding: a fetch that straddles a write restores the old content |
| `WriteToolsSavedConnection` | Git tools with `connection_id` | finding: credentials by reference are lost |
| `FileStoreLastKnownGood` | 2 threads, 2 sets | finding: the last known good entry is truncated in place |
| `ToolCallTarget` | as `ToolCall` | finding: a missing target is named as another argument, and the agent is refused for ever |

**Bounds.** Two calls with two attempts each give four requests with one key at large. The
code makes three attempts and spends at most two of them on "in progress" (the literal at
`dataforge/client.py:155`, here `MaxInProgress`); the run has two and one, since what decides
is that one attempt is left over. With three and two, a single call passes as well, and the
theorems below cover any number of calls. Two tasks suffice for every race of a read with a write, of two reads and of two
writes, and because a task serves one call after another, each may be preceded by any
history. Two keys give a scope of two prefixes, so that something can come between drops;
the prefixes of other families behave like these. TTL 1 and fetch time 1 distinguish
"within", "at" and "past" both limits; in `CacheSequential` they are 0, as no property
there depends on time. `MaxVersion` bounds the number of changes: two for the
order of two writes, one where only "old" and "new" count.

In `FileStore` the two keys are a file deep in the tree and a file that is itself a prefix,
so that a drop has a directory and a leaf to remove and a set has parents to make; with a
third key beside the first the run also passes (132,000 states instead of 51,000). Two sets
give an old and a new text. `ReadTools` compares every pair of calls through the one
file that the cache may hold (`MaxFiles`): a wrong answer needs only the file that gives
it. Ids are shared between projects, versions and entities, so that a swap of any two
shows; two optional arguments at a time cover every pair of them. In `WriteTools` all
subsets are taken; three tries are a first, a replay and one more. `ToolCall` has listings
from empty to more than the loop's limit, with lengths on both sides of every multiple of
the page size, and two changes, so that a row may be inserted and another removed during
one fetch; its arguments have every type that a coercion looks at, both ways, and every
combination of mode, target, id and mandatory fields. No tool has more than three checks, so
a patience of four shows a refusal too many. Two statuses are one whose errors may be retried
and one whose may not; the fallback for the others is a table that `ErrorsKeepTheirCode`
covers.

The calls of `ApiClient` end, and the caller of `WriteTools` gives up, and the system with
them, so these runs do not look for deadlock; all others do.

**Fairness.** In `ApiClient`, a client that can move does: httpx arms a timeout on every
request and sleeps are finite; nothing is assumed of the server. In `SemanticCache`,
each call that has begun goes on (the event loop serves all tasks, every await ends) and
time passes. Nobody has to call, write or fail. `EventuallyFresh` also rests on the bound of
the versions: it speaks of the time after the last change. In `FileStore` each thread that
is in a call goes on, as the operating system schedules it; nobody has to call or to crash.
`EveryCallEnds` is not obvious: a `mkdir` that started over when `rmtree` takes its parent
away could do so for ever. In `ToolCall` the service goes on: its handler runs, and each
page is answered or fails in the end, as `ApiClient` shows. The agent need not.

## What is proved

All theorems hold for every value of the constants that the named assumptions allow; tlapm
checks them to the last leaf.

`ApiClientProofs`. The invariant `IInv` adds to `TypeOK`: attempts are sent in order
(`Ordered`); while a key is "running" exactly the one request that took it runs, whichever
call and attempt sent it, and a key's effect has happened iff it is "done" (`KeyStore`); the
only request of an unkeyed POST has run at most once (`UnkeyedOnce`); an "ok" has an effect
behind it (`OkIsReal`); without an error kept, every attempt so far met "in progress"
(`NothingKept`). `AtMostOnce` needs `KeyStore`, since the property itself says nothing of
requests that have not run yet; `SuccessBacked` needs `OkIsReal`, since an abandoned
request may be answered later. `RaisesRealErrors` assumes
`MaxRetries > MaxInProgress`: with the two of the code, 3 attempts satisfy it and 2 do not.

`SemanticCacheProofs`. `HitsAreRecent` rests on `YoungEntries`: an entry that would
still be served holds content at most `MaxFetchTime` older than itself. It holds under every
disturbance. `ReadsFollowWrites` assumes that neither `"overlap"` nor `"leftovers"` is
among the disturbances; any other may be. Its invariant `SInv` says that entries and samples
show every acknowledged write (`EntriesFollow`, `SamplesFollow`), that a write which is
dropping has yet to drop each entry left of what it changed (`DropsToCome`, from
`DropsCoverChanges`), and that no read is in progress beside a write (`Apart`). The finding
`CacheStraddle` shows that the first assumption is needed.

Also there, `RefreshesAreHonest` assumes the same, no outsider, and that every scope
drops the snapshot. The scopes VERSION and PROJECT do; GLOBAL does not, and there an old
snapshot may come back as refreshed when the API fails. Its invariant adds that a
refreshing task has yet to drop any older snapshot, or has dropped it.

`InvalidationProofs`. `WritesDropWhatTheyChange` and `WritesStayInScope` for all ids, so
also for those that begin with each other: the prefixes of a scope are compared by
whole segments, position by position.

`PaginationProofs`. `ListingsAreComplete` and `ListingsRepeatLittle` for every page size,
limit and number of changes. A count of what is missing says nothing while the
loop is under way, so the invariant `PInv` counts the rows that have slipped past: those
that stand before the next page and were not fetched (`Skipped`) are paid for by removals,
those that were fetched and stand after it (`Again`), with those repeated already, by
insertions. A finished loop has come to the end of the listing (`EndsAtTheEnd`). The
theorems are about `PagingSpec`; `CallsPageAsListings` of `ToolCallProofs` carries them over
to tool calls.

`FileStoreProofs`. `StoreTypes` needs `LinkedIsThere`: who has an open file with a name has
a file in the tree, although another thread may have removed that name with its directory.
`TreeIsWhole` is a part of the invariant only: it is what a file system gives to every
program, and says nothing of this one.

`StoreKeepsTheContract` is the refinement: `FileStore` implements `CacheStore`. The
invariant `RInv` adds that what is in the tree has all its ancestors (`AncestorsThere`;
`TreeIsWhole` says it of the next one only, and without induction over the tree one cannot
get from there to the top), that a drop knows every set it runs beside (`SetsAreTouched`),
and that a file of its family which no set touched is still ahead of a drop: in
its list, or below a directory it has yet to list (`DropsAreThorough`). Each step then is
invisible, a loss, or the beginning or end of a call. The assumptions on `Under` say that
it is the order of the directories.

`ToolCallProofs`. The invariant `CallInv` has the shapes of call and answer (`Shapes`), what
an answer says together with its cause (`Answers`), and the refusals so far together with
what has been repaired since (`Counted`): the arguments of a call that has been refused stay
free of faults (`Settled`), each later refusal is for something that no earlier one named
(`Refused`), and the refusals with the checks that may still object are no more than the
checks of the tool (`Within`), so `RefusalsNameEverything`. It excludes a replace or update
without its target, for which it is false: that is the fourth finding. This rests on lemmas about
the coercions, level by level: what is coerced conforms to its schema, what conforms is left
alone, and what an agent repairs stays repaired when the arguments are prepared again.
`LeniencyIsBounded` is the action property about the same lemmas. `ErrorsKeepTheirCode`
compares the three generations of envelope over the whole catalogue. Assumed are samples that
are JSON values (`SampleAssumption`), an agent that has a good value for each argument
(`GoodAssumption`), and errors of the catalogue (`ErrorAssumption`). `CallsPageAsListings`: what a
call does to its listing is a step of `PagingSpec` or none.

`WriteToolsProofs`. The tables agree tool by tool (`Agree`: which arguments the schema
admits, the handler passes on, the use case needs and the body checks; whether a key gets
through to the request); from there on the proofs speak of any tool. `WInv` says that what
was sent was not refused (`Judged`), and that a key which is sent and remembered has taken
effect once (`Once`). `CompleteCallsReachTheApi` excludes `connection_id` as a way to give
credentials: that is the second finding. `IncompleteCallsCostNothing` holds for the three
modes that the schemas declare; a `mode` of null passes without the checks of an update, as
listed below.

Also there, `ArgumentsAllArrive`, under both of these assumptions. A path is a word of the
API followed by an id, again and again, with `bulk` or a verb at the end; `Leads` says that
the path so far ends in this collection and holds those ids, each once and after its own
collection, and `PathsLead` gets that for every endpoint by adding one piece at a time. Per
tool, `Settled` says of each argument whether it goes to the path, the body, the method or
the envelope, and that nothing else is sent; `PlainArrival` and `ModalArrival` put the two
together, for a tool with one endpoint and for one whose mode picks it.

`ReadToolsProofs`. Again the tables agree tool by tool (`Agree`): the handler passes on
every argument, the endpoint sends each under its own parameter, the key names those that
count and no others, and begins with what the scopes of a refresh compare. Two calls ask for
the same (`Same`) iff they have the same key, and iff they have the same file: `FromAsked`,
`SameAsked`, `SameKey` and `FromFile`. The last of these takes a path apart again, so it needs `Plain`: ids and
languages are one token, a text to search for has no separator of keys or paths, and neither
is the word `None`. The code admits other searches, and for them it is false (see
`cache/store.py:97` below); `StoreHoldsAnswers` does without. The invariant `RInv` says that every
file is what some call fetched, under the name of its key (`Kept`), and that every question
that was answered and not dropped has its file (`Remembered`). A refresh keeps
`Remembered` because a prefix that covers one file covers all files about the same thing
(`SameStart`), and `RefreshesLeaveNothing` because some prefix of the scope covers each
family that has a version (`VersionIsCleared`). Neither the number of files nor that of
optional arguments is bounded here.

`RetriesRunOut`, and `CallsRunOut` in `ToolCallProofs` and in `FileStoreProofs`, are what a
proof can say of termination. `StepsLeft` counts the steps that a call can still take: each
step of its own leaves fewer (`EveryStepCounts`), whatever the API or the other threads do
adds none, and it is zero exactly when the call is over (`BudgetHolds`). The retry loop has
three for each attempt and three more; a tool call has the pages of its listing and three
more; in the file store the count follows the directories that `mkdir` may still climb, and
those that `rmtree` has still to list or to remove. That it comes to none of them twice
(`Tidy`), and always finds one that nothing keeps any more (`NeverStuck`), needs a finite
order of the directories without cycles, `DirsAreATree`, which the instance of the run
satisfies (`MCTreeAssumption`). In a tool call the guard of some step holds until the answer
(`SomethingToDo`), since its listing is under way exactly while the call fetches (`InStep`).

Only model-checked: the liveness properties `Terminates`, `EventuallyFresh`, `EveryCallEnds`
and `EveryCallIsAnswered`, since liveness under fairness, which speaks of ENABLED, is out of
the prover's reach. Of three of them the theorems above prove all but the last inference,
from steps that run out and a thread that takes them to a call that ends. `EventuallyFresh`
has no such count: it is the clock that ends what is stale, and reads go on.
Every other property of the passing runs is stated by a theorem.

## Findings

1. `application/use_cases.py:141`, run `CacheStraddle`. A fetch that straddles a write puts
   the old content back, and it is served for a whole TTL (`README.md:356`).
2. `mcp/tools_write.py:759`, run `WriteToolsSavedConnection`. `connection_id` is taken for a
   control key, so an export or import by a saved Git connection has no credentials
   (`docs/api/tools-write.md:221`).
3. `cache/file_store.py:36`, run `FileStoreLastKnownGood`. An entry is truncated in place
   before it is rewritten; a fallback at that moment, or after a crash at that moment, finds
   nothing (`README.md:352`).
4. `application/write_use_cases.py:81`, run `ToolCallTarget`. A replace or update without its
   target is told that `id` is missing, where the argument is `measure_id`. `id` is another
   argument of the same tool, so an agent that gives what is named is refused the same way
   for ever (`docs/api/schemas.md:223`, `:249`).

Divergences met while reading, which have no run of their own:

* `dataforge/client.py:157`: the in-progress retry shares the loop's attempts; on the last
  one it sleeps and then raises an earlier error (`docs/api/schemas.md:317`).
* `dataforge/client.py:138`: a 5xx to an unkeyed POST is not marked as possibly applied
  (`docs/api/schemas.md:319`).
* `dataforge/client.py:195`: timeouts are not flagged retryable, as the table of
  `docs/api/schemas.md` has them.
* `cache/file_store.py:81`: `ignore_errors=True` lets a write be acknowledged although its
  entries could not be removed (`docs/api/tools-write.md:127`).
* `application/use_cases.py:429`: a refresh with scope `global` and a failing API
  reports the old snapshot as refreshed (`docs/api/tools-semantic.md:194`).
* `cache/store.py:97`, `cache/file_store.py:25`: a search of `None` shares the key of no
  search, and one with a colon the file of one with a slash.
* `application/write_use_cases.py:139`: the response names an idempotency key that was not
  sent (`docs/api/tools-write.md:33`); `dataforge/client.py:110` looks only at keys that
  are sent, so a malformed one passes where it is dropped (`docs/api/tools-write.md:39`).
* `application/write_use_cases.py:77`: a `mode` of null becomes a PATCH without the
  checks of an update.
* `errors.py:233`: a 401 without a known code is `DATAFORGE_UNAUTHORIZED`, not
  `invalid_api_key`; `errors.py:359`: the search of the text prefers a shorter key to a
  longer one that contains it, and ignores the status.
* `mcp/tools.py:83`: an answer of the API that does not fit its schema is reported as
  invalid arguments, with the fields of the answer.
* `application/write_use_cases.py:437`, `:521`, `:610`, `:671`: the other tools with a mode
  share the check of the fourth finding, and those of groups, fact tables, filters and
  relationships have no argument `id` at all.
* `dataforge/write_schemas.py:265`, `:321`: the validators of Git bodies run after those of
  the fields and name the body as a whole or `authentication`, so one of their faults may
  come up only at the second try, or without a field to repair.
* `application/use_cases.py:231`: a listing longer than a hundred pages is cut off, where
  `docs/api/tools-semantic.md:75` has it come back complete.

## Not modelled

* Transports and authentication: start-up wiring, and a check of each request that keeps no
  state. Sessions and streams belong to the `mcp` library.
* The semantic normalizer and the response models of `schemas.py` copy fields. That a
  response may be refused by its model is `PageDoesNotFit`.
* `patch_group_dimension_level` of the write client, which no use case calls; the split of a
  207 body into succeeded and failed rows, which changes no state.
* In errors: hints, messages and `retry_after`, which are copied, and what `details` hold beside
  fields. In tool calls: the validators of Git bodies. In arguments: the
  types number and union, which no tool schema has.
* Configuration, CLI and logging run once or change nothing.

## Running

    tlc -workers 2 -config CacheConcurrent.cfg MCSemanticCache.tla
    tlc -workers 2 -config FileStore.cfg MCFileStore.tla
    tlapm FileStoreProofs.tla

The longest runs, `ApiClient`, `ToolCall` and `CacheConcurrent`, take about two minutes.
