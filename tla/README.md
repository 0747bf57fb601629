# cdp-cache in TLA+

cdp-cache is an HTTP cache for Caddy 2, written in Go: a middleware that answers
requests from memory, Redis or files, fetches what it does not have, and can share its
bodies between the nodes of a cluster. This directory holds TLA+ models of its
concurrent core, the TLC configurations that check them, and TLAPS proofs of their
safety properties. File names below are relative to `src/`.

## The system

| part | state | operations | hard because |
|---|---|---|---|
| URL lock (`url_lock.go`) | a mutex per bucket, a map from key to mutex | `Acquire`, the caller's `Unlock` | the bucket is held while the key's mutex is waited for; mutexes are made on demand |
| Response (`response.go`) | header, body, four one-token channels | `WriteHeader`, `Write`, `Flush`, `SetBody`, `GetReader`, `WaitClose`, `Close`, `Clean` | upstream goroutine, handler and readers share plain fields without a lock |
| Index (`cache.go`, `HTTPCache`) | per key a slice of entries, an RWMutex per bucket, a goroutine per entry | `Get`, `Put`, `Del`, `Keys`, `cleanEntry`, `scheduleCleanEntry` | slices share arrays; `Del` walks one without the lock; three parties clean |
| Policy (`cache.go`, `getCacheStatus`) | none | whether a response may be shared, and until when | precedence of lifetimes, boundaries, several clock readings |
| Handler (`handler.go`, `ServeHTTP`) | the request's locals | hit, probe, fetch, stale answer, store, private answer | composes all of the above; every error falls through to a later case |
| Backends (`backends/`) | groupcache group, Redis, a file with subscribers | `Write`, `Close`, `GetReader`, `Clean` | bodies of one storage key share one place; they keep a request's context |
| Admin endpoint (`endpoint.go`) | a global replacer | list, show, purge | reads entries in flight, without the URL lock; purge requests share the replacer |
| Cluster (`extends/distributed`) | Consul session, watches, locks of keys | register, lock, delete event | election by a lock that is seen only while it is held; partial failure, lost sessions |
| Consul storage (`extends/storage`) | map of locks per process | `Lock`, `Unlock`, `Store`, `Exists`, `Delete`, ... | the map is not synchronised and is taken for the truth; sessions, crashes |
| Lifecycle (`Provision`, `Cleanup`) | package globals, the group's server, the registration | start, reload, failed load, stop | the new configuration is provisioned before the old one is cleaned up |
| Configuration, Influx log, command | - | parsing, logging | - |

How they meet: `ServeHTTP` takes the URL lock of the request's key and holds it until it
returns. Under it, it asks the index, maybe probes the group of the cluster, starts the
upstream goroutine and waits for its headers, decides by the policy, gives the response
a backend, puts the entry in the index and copies the body to the client. The upstream
goroutine, each entry's timer, the `go previousEntry.Clean()` of a `Put` and the admin
endpoint do not take the URL lock, which is where the interleavings are. In a cluster
whoever removes an entry asks Consul for the lock of its key; who gets it cleans the
body, and the watches of the other nodes see the lock and drop their entries. All of
this hangs on package globals that every reload of Caddy passes on to the next handler.
The certificate storage is used by Caddy's certmagic, not by the cache.

What makes each part right: the URL lock is one mutex per key, and its waits end; a
response is read whole, the client's writer is not used after `ServeHTTP` has returned,
both goroutines end; the index has each entry once, cleans each body exactly once and
answers with the newest match; the policy honours explicit lifetimes; the handler gives
a client the body of the entry and of the variant it matched, does not fetch what is
cached, uses a stale entry for a server error and always releases the lock; a purge
reaches every node and no body outlives its entries; a reload keeps the entries, the
group's server and the registration; a purge request deletes what it names; the
storage's lock excludes, its waits end, and a certificate is stored once. `PROJECT.json`
lists the hazards behind these, line by line.

## Modules

- `KeyMutex` - abstract: requests ask for a key, get it, release it.
- `URLLock` - `Acquire` lock by lock: bucket, lookup, creation, key, leaving the bucket,
  and the caller's `Unlock`. `ImplementsKeyMutex` maps the owner of a key to the holder
  of the mutex the map has for it.
- `Response` - one response with its upstream goroutine (`upc`), the handler (`hpc`) and
  readers (`rpc`). Every channel operation and every read of a shared field that decides
  something is a step. `SetBody` stores an interface in two words without a lock; the
  state between them is `torn`, and a method call then panics or, for a flush, may do
  either. HEAD requests are modelled here.
- `HTTPCache` - the index. A key's slice is a capacity and a length over
  `heap[k][capacity]`, since `append` to a full slice makes a new array and `Del` goes
  on with the old. `Get`, `Put`, the timers, the clean of a replaced entry, `cleanEntry`
  (in two steps, the bucket held between them) and `Del`. `distributedClean` is the
  second step with an outcome that may leave the body uncleaned. Expiry is an event: the
  model has no clock.
- `FileBackend` - writer, readers and cleaners of one file and its `Subscription`. A
  file is its length, reads return up to `BufSize`. Because `Response.GetReader` waits
  for `Close`, no reader of the server subscribes while the file is written; the
  component is modelled as it is written and tested.
- `CacheStatus` - `getCacheStatus`, `judgeResponseShouldCacheOrNot` and
  `expirationObject` as functions of an abstract response; the reference they are
  checked against is the list of lifetimes of the RFC that the code quotes. What the
  cacheobject library makes of the directives is one flag.
- `ConsulStorage` - the callers of several processes, each process with its map from
  names to locks. `Lock` in three steps (look in the map, wait in Consul, record),
  `Exists` and `Store` under it as certmagic calls them, `Unlock` in two (Consul, then
  the map), `Delete` as a read and a check-and-set. A lock object is named after the
  caller that made it; a key in Consul whose object nothing refers to any more is its
  process's. Sessions are lost or expire, calls fail, contexts are cancelled, processes
  crash. External: Consul itself and certmagic's order of calls.
- `Cluster` - nodes with an index each and the bodies they share. On each node one
  goroutine for a purge or a timer (`Purge`, `Wake`) and the watch (`Fetch`,
  `handleDeleteKey`), whose deletions run the same `cleanEntry` and `distributedClean`.
  The index is that of `HTTPCache`: slices over shared arrays, a `Put` that appends or
  takes the place of a match, a `Del` that walks a snapshot (`Visit`) while `Remove`
  shifts it. An entry and its body are two things: `Put` and the upstream's `Close` come
  in either order, and a purge, an expiry or an eviction may come between them.
  Keys are sequences of characters, as the name of a lock is the prefix put before a key
  and `handleDeleteKey` gets the key back by trimming characters. The three seconds the
  leader sleeps are modelled by what they are for: `Unlock` waits for the watches that
  are idle to fetch. External: Consul's lock and its blocking queries.
- `Lifecycle` - handlers, numbered in the order of their `Provision`; a configuration
  has one or more of them (`benchmark/Caddyfile` has two). `Provision` step by step
  (`provisionRuleMatchers`, `InitGroupCacheRes` with the goroutine that starts the
  server and the channel that awaits it, `provisionDistributed`, the globals), until all
  of a configuration are `ready` and it is in use (`InUse`), or one fails and takes the
  others with it (`Fail`, `LoadFails`); `Cleanup` in Caddy's order. `ListenAndServe`
  fails when another handler's server has the port and for any other reason, at once or
  later, and its error meets the `nil` in the channel in either order. Requests put
  entries and timers clean them; purge requests set the global replacer field by field,
  expand their payload and delete from what the globals name. External: Caddy's order of
  calls and Consul's list of services.
- `Handler` - `ServeHTTP` on one key, with the URL lock, the index and the stores each
  reduced to one step per operation, which the modules above justify. A body is named
  after the request whose upstream wrote it, so that serving a wrong one shows. The
  backends differ in what they keep and how they fail: memory keeps `cachedBytes` per
  entry and one body per storage key in the group; Redis is used with the context of the
  storing request; a file belongs to its entry. In a cluster peers store and lose
  bodies, and calls on a cancelled context may fail. External, modelled from how the
  code uses them: request contexts (cancelled when the request is over, or when its
  client left in the middle of a body) and the peers of the group. `Init` chooses the
  site from `Sites`: its backend, whether it is in a cluster, its Vary header and how
  many requests there are; a request brings its headers when it arrives.
- `MC*` - constants, symmetry and small values for TLC.
- `URLLockProofs`, `HTTPCacheProofs`, `ConsulStorageProofs`, `ClusterProofs`,
  `LifecycleProofs`, `FileBackendProofs`, `HandlerProofs` - theorems about the module of
  that name; `ResponseProofs` - about `Response` and `CacheStatus`, which judges it.

Operators marked `Mutant` are plausible bugs of one definition each; `PROJECT.json` says
which property finds which.

## Runs

Passing:

| run | shows | instance |
|---|---|---|
| `URLLock` | exclusion per key, waits only for a request that is past `Acquire`, refinement of `KeyMutex`, every `Acquire` returns | 3 requests, 3 keys, two in one bucket |
| `Response` | bodies served whole, no write after return, panics only without a body, handler and upstream end | 2 readers besides the handler, up to 2 chunks |
| `HTTPCache` | index without duplicates, safe walk, one clean, nothing lost, newest match, every entry is cleaned | 2 entries, 1 deleter, one varying header with 2 values, capacities 1 and 2, cleans that fail or are left to another node |
| `FileBackend` | readers read all and end, cleaners go on | 2 readers, 1 cleaner, 3 bytes in reads of up to 2 |
| `CacheStatus` | who is cached, fresh when stored, explicit lifetimes honoured | all combinations of flags, ages and dates around the one-second limit |
| `Handler` | own body, own variant, a cached response is served, stale entry used | memory with a Vary header and file, 3 requests each; memory in a cluster with peers that store and lose bodies, 2 requests |
| `ConsulStorage` | exclusion between processes, held keys can be released, a certificate is stored once and deleted only if it was read, waits end | 3 callers in 2 processes, 1 name |
| `Cluster` | an announced purge is not forgotten, no body outlives its entries | 2 nodes, in seven settings of up to 4 entries: a variant that is made again, three variants, a probe and the response after it, two keys, a key that begins with a letter of the prefix, entries that age, bodies closed late (1.1 million states) |
| `Lifecycle` | entries, server, registration and globals survive reloads; a purge deletes what it names | 3 handlers of memory in a cluster, file and Redis, with 1 or 2 buckets; 4 handlers of memory; 2 handlers, 1 key and 2 purge requests (2.6 million states) |

The type invariants of the first modules to be proved (`URLLock`, `HTTPCache`,
`ConsulStorage`, `Cluster`, `Lifecycle`), and `LockDiscipline`, the inductive part of the
URL lock, are theorems and not in the runs.

Why the bounds are enough for the cases that matter: a third request is what it takes
for one to store, one to purge or replace and one to be hurt; two entries make a slice
grow, shift under a walk and be replaced (for more, the invariants of the index are
proved; `HTTPCache_purge` has three); two readers make notifications merge and tokens be
taken by the wrong one; three callers in two processes are two that meet in one map and
one that waits outside; three handlers are one in use, one replacing it and one that
fails or overlaps with the cleanup of the first, or two of a configuration and one of
the next, and four are two of each; `MaxCap`, `MaxWrites`, `MaxSize` and
`MaxGens` only bound how often the same thing can happen again. Symmetry is used over
requests, nodes, entries and values, in safety runs only.

Deadlock is checked in the URL lock, which serves forever, and switched on in the
certificate storage, where it says nothing: a process may crash in every state, so some
step is always possible, and that waits end there is what `LockGranted` says. The other models are finite stories - a response, a set of entries, of requests, of
configurations - that end, or, as the cluster and the lifecycle, systems that may come
to rest; their configurations switch the check off. That nobody is left waiting is what
the liveness properties say.

Fairness: goroutines that can run do; Go's `sync.Mutex` and `RWMutex` hand over to their
longest waiter, which makes waiting for them strongly fair; timers fire; the upstream
handler returns and so closes the response; a caller that holds a name's lock goes on to
unlock it, a session that nobody renews expires, and Consul gives a key that comes free
again and again to each that waits for it. Nothing is assumed about clients, purges,
sessions that are lost, calls that fail, or an upstream that has sent no header.

Disagreements between the code and its own comments, tests or readme, each a run that
TLC must find violated (the quotes are in `PROJECT.json`, `findings`):

| run | what happens |
|---|---|
| `Response_shared` | two readers wait for one completion token; the handler keeps the URL lock forever |
| `HTTPCache_purge` | `Del` skips entries because `cleanEntry` shifts the array under it |
| `Handler_redis` | hits fail on the context of the request that stored the entry |

The passing properties are stated around these and around other known weaknesses, and
say that there is nothing else:

- `HandlerReturnsAlone` is `HandlerReturns` unless another reader was there;
  `UpstreamEnds` excepts the upstream that is never given a body.
- `OwnBody` excepts a body closed after its entry was purged and one fetched anew while
  fresh, since `Close` of the memory backend keeps what the group still holds;
  `HitServed` and `StaleUsed` except the request whose own client left.
- `LifetimeHonoured` speaks of lifetimes of more than a second, as shorter ones get the
  default age.
- `Exclusion`, `HeldIsKnown`, `StoredOnce` and `LockGranted` except names that are
  `spoiled`: a session was lost (nobody watches it), a `Lock` with a cancelled context
  was recorded as held, an `Unlock` failed and left the map entry, or two calls of one
  process met (a second `Lock` returns at once; the `delete` of an `Unlock` takes away
  the lock recorded since). `StoredOnce` also excepts what was stored meanwhile, and
  names for which `Exists` took an error for an absent key.
- `PurgePropagates` excepts keys that `handleDeleteKey` trims to another one, locks that
  come and go while a node's handler is busy with another key, and what a `Del` of the
  watch leaves behind that ended with an error, saw more than two variants, or had one
  appended to the slice under it, as `HTTPCache_purge` shows. `BodiesIndexed` excepts
  `orphans`: the lock or the group failed, or the node was not elected and the leader
  cleaned another variant of the key, or had cleaned already, or the entry was removed
  between its `Put` and the `Close` that stored the body.
- `EntriesKept` excepts reloads that change the number of buckets (entries are then
  missed, or an index is out of range). `GroupServed` excepts a server that was made
  before the goroutine of another had run, as the goroutine serves whatever `srv` names
  when it runs; one that failed for a reason of its own (no permission, a port taken by
  another program), as an error that comes after the `nil` is lost and `Provision`
  succeeds without a server; and a load that fails before it has a server, as its
  `Cleanup` shuts down the one in use. `Registered` excepts Redis, whose `Provision`
  returns before the node is registered, and does not speak of a deregistration by
  Consul itself (`DeregisterCriticalServiceAfter`). `GlobalsInUse` says that the global
  cache is that of the last handler of the configuration in use - the other handlers
  of it are out of the admin endpoint's reach, but for the buckets, which they share -
  and the config that of the last one without Redis, whose `Provision` returns before it
  is set (with Redis alone a purge panics); it excepts failed loads, which leave the
  globals pointing at a handler that is never used. `PurgesOwnKeys` excepts requests
  that met in the replacer: those delete each other's keys.

Weaknesses that the models show and no run states: a body cut short by an upstream error
is cached as complete; with Redis a stale entry has no body left (`StaleUsed` on the
site of `Handler_redis`); of `Vary: A, B` only `A` enters the storage key, as the second
name is looked up with its blank (`VariantServed` with two names, the second with
`blank`); the probe of a cluster asks for the key without Vary values and may find
another variant (`VariantServed` on a distributed site with a Vary header); an empty
probe entry stays in the index and answers with an empty 200; a probe judged private
blocks in its second `SetBody` (state `blocked`); `WaitAll` of the file backend may
return on a token an earlier reader left; `InitGroupCacheRes` waits forever, with the
mutex `l` held, when the goroutine's error is in the channel before the `nil` (state
`send` of `Lifecycle`), and never returns that error: what it receives is its own `nil`;
of several handlers in one configuration only the last is the admin endpoint's, and all
their servers ask for one port; on a watching node a purge leaves variants behind when a
key has three or one is added meanwhile, and never finds a key that begins with a
character of the prefix; a body that is closed in Redis after it expired is kept there
without a limit; the server that an overwritten `srv` named goes on listening; a
new handler has new URL locks, so that exclusion does not span a reload. Read in the
code, and outside the models: watches and their handlers accumulate on reloads; `Delete`
of a name that is not there returns `fs.ErrNotExist` although its comment says
otherwise; a recursive `List` returns names with the storage's prefix.

## Proofs

For every value of the constants, from the named assumptions of the modules: what `None`
and `Dead` are not, that functions such as `BucketOf` and `StorageOf` are functions,
that timers and deleters are different goroutines, that capacities and numbers of
buckets are positive, that a configuration has one of the three types (in `Handler` also that it is in a cluster
with memory only), that the settings a run looks at are made of the entries, handlers and
purges there are, that lifetimes and delays are natural numbers (or
-1 for an absent directive), and that header values are sequences of strings.

- `URLLockProofs`: `TypeCorrect`, `Discipline`, `Exclusion`, `NoCircularWait`,
  `Refinement`. The inductive invariant is `TypeOK /\ LockDiscipline`: who is between
  `Lock` and `Unlock` of a bucket is who holds it; the mutex a request works with is the
  one the map has for its key; keys do not share mutexes; the holder of a mutex is the
  request past `Acquire`. Exclusion follows because two requests of a key have the same
  mutex; no circular wait because a holder that has not left its bucket would share it
  with the waiter.
- `HTTPCacheProofs`: `TypeCorrect`, `IndexWellFormed`, `WalkNeverNil`, `NoDoubleClean`,
  `NoLeak`, `GetIsNewest`. The invariant has two parts. `Skeleton` is the shape: every
  array, live or abandoned, holds entries of its own key (`HeapOK`, which is why a `Del`
  on an old array is safe), live slots are distinct, an entry that was not put is
  nowhere, a cleaner has a target. `Fates` says that an entry that was put is in exactly
  one of: indexed, waiting for the clean of a replacement, being cleaned, cleaned, or
  left by `distributedClean`. `AppendSlots`, `ReplaceSlots` and `RemoveSlots` say what
  the slice operations do to the live part; one lemma per action then shows that it
  keeps the invariant. `GetIsNewest` adds `NewestFirst`: of two slots of which the first
  would answer the request of the second, the first is the newer one; a `Put` appends
  only where nothing matches and otherwise replaces the first match.
- `ConsulStorageProofs`: `TypeCorrect`, `LockExcludes`, `HoldersKnown`,
  `DeletesWhatItRead`, `NoSecondStore`. The invariant says of a name and a process that
  has not spoiled it: one of its callers at a time is between `Lock` and the end of
  `Unlock` (`Alone`); a caller that has passed `Lock` has the key in Consul through its
  process (`SectionHolds`), and so has a process whose map has the name (`MapHolds`),
  but for the moment after `Unlock` (`ForgetFree`); a lock that is waited for is not in
  the map (`WaitFree`); a key that is held is held by the lock in the map or on its way
  there (`HolderMapped`, `OrphanSpoiled`). Exclusion follows as Consul gives a key to
  one. `SeenAsked` ties the pair that `Delete` read to a request since the last `Store`,
  and `StoreSafe` a caller about to store to the absence of a value.
- `ClusterProofs`: `TypeCorrect`, `PurgeReachesAll`, `BodiesFollowEntries`, for any
  nodes, keys, entries and capacities. The invariant has the shape of the slices
  (`IndexOK`: with the types, the live part of an array and the part a walk covers hold
  entries of their node and key), that what is due is fresh and indexed (`DueIndexed`),
  that an announcement is on its way or the walk of the watch has the entry still before
  it, unless something excuses that walk (`Announced`), and that a walk without an excuse
  is over a slice of at most two (`SureShort`): a removal leaves the second in its old slot as
  well. `TrimBack` shows that trimming gives back a `Plain` key, one that does not begin
  with a character of the prefix (by default keys begin with a method in capitals). For
  bodies, `BodiesIndexed` is inductive with the types: each step that ends the last way
  to a body removes the body or makes it an orphan.
- `LifecycleProofs`: `TypeCorrect`, `ReloadKeepsEntries`, `StaysRegistered`,
  `GlobalsFollow`, `GroupStaysServed`, `PurgeDeletesOwn`, for any number of handlers,
  configurations and purges. Handlers are provisioned one after the other, those of a
  configuration are ready, in use, failed or old together, and nothing is loaded while
  something is to be cleaned up (`InOrder`); every handler has the one array, and each
  entry is where some configuration's hash put it (`OneArray`); the global cache is the
  newest, the global config no older than any handler without Redis that is ready or in
  use (`Newest`, `ConfigOf`); a purge that met no other finds its own payload in the
  replacer (`OwnPayload`). For the server a second invariant is needed: one server has
  the port (`OneUp`), and while a handler is in use and another that has made a server is
  being loaded or cleaned up, a server other than the one `srv` names is up (`KeepsOne`),
  so that every `Cleanup` to come may shut `srv` down.
- `FileBackendProofs`: `TypeCorrect` and `ReadersReadWhole`, for any size, reads of any
  length and any number of readers. Added to the types is that the file is closed by the
  last thing its writer does (`ClosedLast`) and that a reader that was told the end has
  all of it (`AtEnd`).
- `ResponseProofs`: `TypeCorrect`, `BodiesServedWhole`, `WriterLeftAlone`,
  `PanicsExplained`. The invariant relates the program counters of handler, upstream and
  readers to the channels' tokens: the header token is sent and taken once
  (`HeaderOnce`); how far the handler is says which body it has stored (`BodyStored`);
  where the upstream is says what it has written and closed (`UpstreamAt`); whoever has
  passed `GetReader` or `WaitClose` did so after the body ended (`PassedLate`).
  Attempting it found a `CASE` with overlapping guards in `SetBody`, of which the value
  was TLC's choice and not the code's; the guards now exclude each other. For the
  policy, `PublicExactly`, `FreshWhenStored` and `LifetimesHonoured` for any times and
  ages, where the run has a few around the limits: `Judged` says that the verdict is
  that of the response.
- `HandlerProofs`: `TypeCorrect`, `IndexTracked`, `CachedIsServed`, `StaleAnswers`,
  `VariantsApart`, `OwnBodies`, for any requests, headers and sites. `Known` is the
  discipline of the lock (one request is between `Acquire` and the end of `ServeHTTP`)
  with the types; `Tracked` says that an entry is in the index once, after its own `Put`,
  and `NeverBack`, of every step, that one which has left it does not come back.
  - `HitServed` and `StaleUsed` are not inductive: they need what a request knows, at each
    place of `ServeHTTP`, of the entries that match it (`Served`), and that one entry
    matches a request at most. The latter is false where probe entries, which match
    everything, stand beside variants, and Redis loses bodies; hence `Uniform`.
  - `VariantServed` follows from `Keyed` (a body is only ever under the storage key of
    its own request, in the store as in an entry's copy) and `Found` (what a lookup
    returned still matches). That equal keys mean equal headers is `KeysApart`, and it is
    a hypothesis (`Separate`): of names with a blank before them nothing enters the key.
    `KeysApartIf` proves it for a Vary line with no or one name.
  - `OwnBody` on a memory backend (`Shelf`) needs an account of the shared store
    (`Shelved`): a body in it belongs to an entry that is closed and not stale and is in
    the index, on its way there, or being cleaned, or it is a stray one (`StoreHeld`); a
    request past a missed lookup finds nothing under its key but its own body or a stray
    (`Clear`), so `Close`, which keeps what the group has, keeps the right one; a purge
    between `setBackend` and `Close` is remembered (`Awaited`); what an entry copied is
    its own (`CachedOwn`), and it copied if anything was written (`WroteCached`). An
    answer is given only when what its upstream wrote is settled (`Answered`), so it
    stays right. `Own` leaves out Redis: a body stored there by a request that is over
    cannot be removed, and if the next entry expires before its `Close`, the old body
    answers for it.

These invariants were model-checked on the instances of the runs before they were proved.

Only model-checked: liveness and what is stated under fairness (`AcquireReturns`, the
ends of handler, upstream, readers and cleaners, that entries are cleaned and locks
granted), which is beyond the prover. What the recursive function under `VaryValues`
yields for lines of several names would need induction over data; it stays the
hypothesis `KeysApart` for those. What the handler does on the sites outside `Uniform`,
`Separate` and `Own` is not proved, as it is not so; the weaknesses above say what
happens there.

## Not modelled

Parsing of the Caddyfile, the Influx log writer, the command and the helpers have no
state of their own. `getKey` and the template of keys: a key is a given. In `Handler`,
HEAD requests (they are in `Response`), and clients that leave before a body is sent to
them; to the backends that is the same as a request that is over, which is modelled. Of
the cluster, `handleChecks` and `GetPeers`, which only say who is in groupcache's pool -
the peers of `Handler` come and go as they like - and `handleConfigChanged`, which loads
a configuration as an administrator would. The connection to Redis. Reads of the storage
(`Load`, `List`, `Stat`) and of the admin endpoint, which change nothing.

## Plan

Done, in this order: `URLLock`, `KeyMutex`, `Response`, `HTTPCache`, `FileBackend`,
`CacheStatus`, `Handler`, with proofs about the lock and the index; then
`ConsulStorage`, `Cluster` and `Lifecycle` (with the purge requests) and proofs of all
their invariants; then proofs of all invariants of `FileBackend`, `Response`,
`CacheStatus` and `Handler`.

Next:

1. The lock and the index of `Handler`, as refinements of `KeyMutex` (whose `Ask` and
   `Grant` are one step there) and of an abstract index.
2. Action properties of the index and of the store: that an entry is never replaced by an
   older one, and that a body is removed only by its own clean, its expiry or a replacement.
3. `HitServed` for a cluster whose responses vary, with what probe entries make of it.
