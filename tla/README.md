# Verification of Aelora

TLA+ models of the chat backend in `src/`, the TLC runs that check them on small
instances, and TLAPS proofs of the results that matter most. `PROJECT.json` maps every
definition to the source lines it models, lists the runs, a mutant for every checked
property (a plausible bug that the property must detect), the hazards the properties are
aimed at, the findings and the theorems.

    tlc -workers 2 -config pipeline.cfg MCMessagePipeline     # one run
    tlapm MessagePipelineProofs.tla                           # one proof module

## 1. The system

Aelora is a Go server that runs in several replicas over one Postgres and one Valkey.

| Part | State it keeps | Operations | Where |
|---|---|---|---|
| Send message | none of its own | `SendMessageUseCase.Execute`: limit, duplicate check, membership, reply target, save, append, publish, enqueue | `internal/application/send_message.go` |
| Tables | `messages`, `message_dedup`, `message_outbox` | `Save`, `ExistsByClientMsgID`, `GetByIDs`, `ListByRoom`, `Enqueue`, `ClaimPending`, `Mark…`, `ReleaseClaim` | `adapters/outbound/postgres` |
| Streams | a Valkey stream per room, one event stream | `AppendMessage`, `ReadFrom`, `PublishMessageCreated`, `SubscribeMessageCreated` | `valkey/stream_repo.go` |
| Outbox relay | the batch it has claimed | `Run`: claim, append, mark, publish, dispatch, release | `workers/outbox_relay.go` |
| Rooms | `rooms`, `room_members`; a Valkey set per room as cache | `CreateRoom`, `JoinRoom`, membership check, `warmCache` | `application/*_room.go`, `roomcache`, `postgres/room_repo.go` |
| Room ids | a counter in Valkey | `Next`, Feistel network, base 62 | `application/room_id_generator.go`, `valkey/room_id_sequence.go` |
| SYNC and ACK | cursors in Valkey, one per device and room | `SyncMessagesUseCase`, `AckMessageUseCase`, `recoverAndBackfill` | `application/sync_messages.go` |
| Live delivery | the hub's map, a queue per socket | subscription, hub loop, read loop, write pump | `inbound/http/hub.go`, `websocket.go` |
| Presence and push | a key with expiry per device, a set per user | `SetOnline`, `SetOffline`, `IsOnline`, refresh goroutine, `NotifyOfflineMembers` | `valkey/presence_repo.go`, `push_notifications.go` |
| Push tokens | a Valkey hash per user with one expiry | `Upsert`, `Delete`, `ListByUser`, `NotifyMessage` | `valkey/push_token_repo.go`, `outbound/push` |
| Send limiter | counters per sender in memory | `Allow` | `platform/ratelimit` |
| Token validator | cached signing keys | `lookupKey`, `fetchKeys` | `platform/auth/cognito.go` |
| Migrations | `schema_migrations`, an advisory lock | `runPostgres` | `platform/migrations/runner.go` |
| HTTP API | sampling counters of the request log | routes and WebSocket messages, audit and request records | `inbound/http/crud.go`, `observability.go` |
| Health | none | `Check`: concurrent pings with a timeout | `platform/health` |
| Message ids | last millisecond, entropy | `New` | `outbound/system/id_clock.go` |
| Request metrics | counters by route and status | `timingWriter`, `WithRequestMetrics` (not wired) | `platform/telemetry` |
| Circuit breakers | a gobreaker per repository | wrappers of every repository (not constructed) | `valkey/cached_repo.go` |
| Server process | its phase, its workers | `runServer` from migrations to exit | `cmd/server/main.go` |
| Client, load tester, deployment, test helpers | – | – | the rest |

How they interact. A send writes Postgres first and the two streams afterwards; whatever
did not reach a stream is written to the outbox and brought there by a relay of any
replica. The event stream feeds the hub of every replica, which hands frames to its own
sockets and asks presence before it pushes to members without one. A client that
reconnects runs SYNC, which reads the room stream from the acknowledged position or, when
that yields nothing, the table, and writes what it found back to the stream. Membership is
read from the cache by all of them. There are no transactions across Postgres and Valkey,
no locks across replicas except the outbox lease and the migration lock, and the server
may stop between any two requests.

What is hard, and what makes each part correct:

* **Send and relay**: concurrent retries, a failure or crash between any two of five
  writes, answers that are lost, leases that run out. One message per client id; a true
  answer; nothing visible that is not stored; nothing retired that is not delivered.
* **Rooms**: a cache filled, read and updated by calls that overlap. Nobody gets in
  through the cache; without faults nobody is missing from it.
* **SYNC**: three writers to one stream, cursors that are positions, times that are
  rounded, trimming. No gap behind a cursor.
* **Live delivery**: five kinds of goroutines around a bounded queue that may be closed, under
  the hub's lock and the client's. No send on a closed queue, order, no silent loss, nobody stuck.
* **Presence**: expiry against refresh, removal against announcement.
* **Limiter**: lock-free counters reset by whoever comes first.
* **Room ids**: a permutation in modular arithmetic, a counter that may be lost.
* **Migrations**: overlapping runners, lost locks, lost commits.
* **Key cache**: fetches that finish out of order, expiry, rotation.
* **HTTP API**: a use case that took effect and then fails, a late step of a handler that fails, a
  repeated request, an answer that a full queue does not take. The answer, the audit record and
  the log agree with what happened.
* **Server process**: replicas that start together, a signal while requests, sockets and the
  relay are at work. No service on half a schema; nothing closed under a request.
* **Push tokens**: one expiry for the tokens of all devices, set by a second request.
* **Message ids, metrics, breakers**: carry and wrap, calls in any order, results of calls
  that began before the breaker last changed.

## 2. The modules and the code

Every call to a store is one step, and so is every atomic operation of the limiter; local
computation is folded into the step before or after it. A call that fails may have taken
effect or not (its answer was lost). Each failure takes one unit of a budget `MaxFaults`.

**MessageStores** – the tables and streams of the pipeline and the repository calls that
change them. A message is named by the request that creates it, since every `Execute` takes
a new message id; a key is a (sender, client id) pair and a retry another request with the
same key. Streams are bags. An outbox row is absent, pending or dispatched, with its
`StreamAppended` flag, its claimer and a lease that is live or has run out. `Backlog` are
rows of an earlier deployment, in either payload layout (`decodeOutboxPayload`).

**SendMessage** – `Execute`, one action per call: `Admit`, `CheckDuplicate`, `CheckRoom`,
`CheckReply`, `SaveMessage` (one transaction over `message_dedup` and `messages`),
`SendAppend`, `SendPublish`, `EnqueueUnappended`, `EnqueueAppended`, and a crash anywhere.
The limiter and the membership check answer nondeterministically here; they have modules
of their own. `EnqueueAccepted` says whether Postgres accepts the statement of `Enqueue`:
as written it does not (see Findings), and the models cover both the code as it stands
(`FALSE`) and the contract of the port (`TRUE`).

**OutboxRelay** – `Run` for one replica: `Claim` (the update with `SKIP LOCKED`),
`TakeItem`, `RelayAppend`, `RelayMark`, `RelayPublish`, `RelayDispatch`, `RelayRelease`,
crash and restart. `ExpireUnattended` is a lease that runs out after its relay has let go;
`ExpireInUse` one that runs out while its relay is still at work (30 seconds for up to 200
rows, never renewed), counted in `overruns`.

**MessagePipeline** composes the three; **MessageDelivery** is the abstract promise
(stored once per key, then streamed, then announced; what was accepted is announced in the
end), which the pipeline implements under the mapping `Delivery`.

**RoomMembership** – one room (rooms share no state): `roles` is `room_members`, `cache`
the Valkey set, a call is one `CreateRoom`, `JoinRoom` or check, with a program counter at
every store request. `EXISTS` and `SADD` of the Valkey adapter are separate steps, and
`warmCache` adds members one by one when the set exists. The key may be lost
(`CacheLoss`).

**SyncMessages** – one room: senders compose, store and append; a device runs `StartSync`,
`SyncRead`, `Recover`, `Backfill` step by step, `Reply`, `AckMessage`, and may fail anywhere.
Stream ids are ⟨millisecond, sequence⟩ of Valkey's clock (`now`); `created_at` is the clock of the
replica, finer (`TicksPerMs`) and ahead or behind by one of `Skews`, chosen anew for every
message, since any replica may compose it. `Since` is the rounding of `streamIDToTime`. `ReadFrom`
is the page of entries after an id (`Later`); `ListByRoom` is the set of the first `Limit` rows in
the statement's order (`RowBefore`), which `Backfill` appends from the first to the last. `MAXLEN`
trims, streams and cursors can be lost.

**RateLimiter** – `Allow` for one key, one step per atomic operation; entries are numbered
because the sweep may drop one that a caller still holds.

**LiveDelivery** – one process: subscription (`Xread`, `XreadReturns`, `Forward`), channel,
hub (`HubTake`, `HubMember`, `HubEnqueue`, `HubSend`, `HubDrop`, `HubClose`), and per socket the
read loop (`Request`, `ReplyCheck`, `ReplySend`, `Leave`, `LeaveClose`) and the write pump. The
test of `closed` and the send are two steps under the client's read lock (`ReadLocked`), and
`Close` waits for it. `Unregister` takes a client out of the map and then closes it in a second
step, still under the hub's lock (`Locked`): until then nobody registers, unregisters or looks up
sockets. A client whose user has no entry left is not closed by it (`HasEntry`). `dropped`
records the frames that a queue did not take.

**Presence** – one user: `SetOnline`, `SetOffline` and `IsOnline` request by request, the
refresh goroutine, a push call. A `Tick` is the refresh period of 10 seconds; the key lives
`TTL` = 3 of them and the set twice that, as in the code. The context of a refresh ends after
2 seconds, so `Tick` waits for it. The handler's first `SetOnline` runs under the context of the
request and may take any time: a connection whose key was set before the last `Tick` counts as
announced only after its next refresh.

**RoomIds** – the counter, the Feistel network with an arbitrary mixing function `Round`
(the mask included), the eight digits, and the insert.

**Migrations** – runners from `pg_try_advisory_lock` to `Close`; the transaction's version
row makes others wait; the lock's session may be lost and the pool goes on with another.

**JwksCache** – concurrent `lookupKey` calls and a provider that rotates keys. A fetch
takes at most `FetchTime`, the timeout of the HTTP client.

**HttpApi** – requests of every kind at once, over HTTP or a socket: `WithAuth` (also the
identity of a socket), the handler's refusals, the use case as one step that refuses, takes
effect or fails (and may have taken effect then), the second list of members of a join, the
audit record, the answer (`MapAppError`, `WsError`) and the request record with its sampling.
A frame goes through `enqueue`, whose result every caller ignores: a full or closed queue loses it
(`lost`), and of a success nothing is logged. A join of oneself (`join_self`) is refused as one of a
member, whoever the members are. A SYNC changes the room stream when it backfills, also if it
then fails.
`Ready`, `CheckReturns` and `Report` are `health.Check` with its goroutines. Every send has
the same client id and every join the same user, so requests may be retries of each other.

**Server** extends Migrations: servers that migrate on start next to migrate commands, then
connections, workers, serving, the signal, `Shutdown` with its ten seconds, the deferred
closes, and `log.Fatal` anywhere. One HTTP request, one socket handler and the relay stand for
the jobs of a process. The pool's `Close` waits for connections in use.

**PushTokens** – one user's hash: `Hset` and `Expire` of a registration, `Delete`,
`ListByUser`, one `NotifyMessage` per token; the hash expires by the day.

**MessageIds** – `New` under a wall clock that may be set back; `IncrementEntropy` is the
byte-wise carry as a number. **CircuitBreaker** – one breaker in front of each wrapped set of
operations; gobreaker's own part is modelled from the settings. Any call may return an error on a
store that works (a miss, a cancelled context, a status or a platform the push endpoint does not
take, a malformed id), and every error counts. `errors` counts the errors in a row of calls begun
since the breaker last closed (`fresh`). **RequestMetrics** – the
response writer of the metrics middleware under handlers that write, flush and hijack in any
order, and the two counters.

The definitions marked "Faulty variant" are the mutants; no specification uses them. Variables
commented as bookkeeping (`found`, `steady`, `overtaken`, `raced`, `lasting`, `late`, `dropped`,
`lost` in HttpApi, `errors`, …) record history for the properties and never guard an action.

## 3. The runs

| Run | Instance | Shows |
|---|---|---|
| `pipeline` | a send, its retry, a reply to it; 2 relays, batches of 2, 2 faults, 1 overrun | `MessagesConsistent`, `AnswersAreTrue`, `NothingIsForgotten`, `ExclusiveUnlessOverrun`, `CopiesBoundedByFaults`, `BatchesRunOut` |
| `pipeline_delivery` | a backlog row and a reply; 2 relays, 2 faults, 1 overrun | refinement of `MessageDelivery` (`DeliverySpec`); `StoredIsDeliveredOrReported` |
| `outbox_statement_refused` | the same with the statement as written, one Valkey fault | violation, see Findings |
| `rooms` | create, a join by the owner and one by a member, a check; 1 fault of any kind | `CacheIsFaithful`, `OwnerlessRoomIsFrozen` |
| `sync` | 2 messages, 2 devices, pages of 2, streams of 2, clocks half a millisecond behind or ahead, 2 SYNCs, 1 fault | `GapOnlyWhileBackfilling`, `EmptySyncMeansCaughtUp`, `ReplayOnlyWithinSkew` |
| `sync_backfill_gap` | 1 device, no faults | violation, see Findings |
| `live` | 3 events, a stream that keeps 1, 2 sockets of one member, queues and channel of 1, 1 answer, 1 fault | `SendOnOpenQueue`, `NoSilentLoss`, `StreamIsFollowed`, `EveryMemberServed`, `NothingLeftUndone`, `StepsRunOut` |
| `live_settles` | 1 event, 2 sockets of one member, queues and channel of 1, 2 answers, 1 fault, fair goroutines | `ConnectionsSettle` |
| `presence` | 2 connections of one device or of two, 1 fault | `AnnouncedIsReached`, `OnlineAgain`, `OfflineInTheEnd` |
| `server` | a server that migrates on start and a migrate command, 3 files, 3 faults, then serving and shutdown | `RunnersDoNotClash`, `ServesOnMigratedSchema`, `DrainedBeforeClose`, `ServerGetsOn`, `EveryRunnerReturns`, `SignalledServerExits` |
| `components` | eight components, each alone, see below | `ConflictOnlyAfterLossOrWrap`, `WithinLimitUnlessRaced`, `DeniedOnlyWhenFull`, `NoStaleKey`, `MissOnlyAfterLateStore`, `MessageIdsAreDistinct`, `CutOffOnlyByErrorsInARow`, `CountedAsSent`, `TokensAreKept`, `AnswersMatchChanges`, `ReadyMeansAnswered` |
| `join_retry` | 2 requests of any kind | violation, see Findings |

Several properties are the conjunction of named parts, which the text below uses:
`NothingIsForgotten` of `StoredHasCarrier` and `DispatchedIsStreamed`, `CacheIsFaithful` of
`CacheWithinMembers` and `CompleteWithoutFaults`, `NothingLeftUndone` of `NobodyWaitsInVain` and
what holds at rest, `AnnouncedIsReached` of `AnnouncedIsOnline` and `NoPushToSteady`,
`RunnersDoNotClash` of `AppliedOnceInOrder` and `LockHeldByOne`, `ServerGetsOn` of `RunnersGetOn`
and `ShutdownGetsOn`, `TokensAreKept` of `RegisteredDeviceIsTried` and `EndlessOnlyAfterFailure`,
`AnswersMatchChanges` of `ClientErrorChangedNothing` and `ChangeLeavesTrace`.

The longest run takes about three and a half minutes with two workers (`presence`), the others
up to two.

`components` puts eight modules that share no state into one run: `part` picks one, and only
its variables move. The instances are: 256 room ids, 3 calls at the end of the space, a lost
counter; 2 callers of the limiter, 4 calls, limit 2; 2 key lookups, 2 versions of the keys, a
life of 2 ticks; message ids with 2 bytes of one bit, 2 milliseconds and 5 ids; a breaker
with 2 callers, 5 calls and 1 tolerated failure; 2 exchanges with 3 calls of the writer;
3 calls on the push tokens of 2 devices, one of them without an endpoint, a life of 2 days;
2 requests of any kind to the HTTP API, 2 dependencies, every second success logged.

**Why the bounds are enough.** Two faults allow a failed call and a failed repair of it (append
and enqueue, publish and mark, claim and release), which is as deep as the code's error handling
goes; two relays and one overrun give a stale relay against a fresh one; three requests give a
retry race and a reply to a message that may not be stored. In `rooms` every pair of operations
that touches the cache overlaps. In `sync` a page of 2 and a stream of 2 make the boundaries
occur: a full page, a shorter one, an empty one, a trimmed entry, a backfill of two rows with a
sender, another device or a failure in between, rows of one millisecond and of the next, clocks
behind and ahead. Queues of one frame make every enqueue meet a full queue in some behaviour (in
`live_settles` two answers, or an answer and the event), and three events give a batch, a full
channel, one event behind it, and an unread event that was trimmed. The id space of 256 has the
structure of the real one (the radix to the eighth is the square of the half) and lets the counter
wrap. Two windows are enough for the limiter's races, which involve one window and the next. Two
runners and three faults give a lost lock taken by the other, a failed commit and a restart; the
theorems cover any number. Five ids exceed the four values of the entropy, so that it carries and
wraps. Two requests make a join overlap with its retry or with any other request, and reach every
sampling; the proofs cover any number. Three days against a life of two let a hash expire in the
middle of a registration. Symmetry is used only in runs without liveness properties (`sync`,
`live`), over devices and sockets that nothing tells apart.

**Deadlock** is checked where the system never stops (pipeline, presence); the other cfgs
turn it off because the instance ends: all calls have returned or a bound is reached.

**Fairness**, and why the code justifies it:

* Pipeline (`Spec`): relays' goroutines loop until shutdown and leases run out with the
  clock, so each relay's steps and `ExpireUnattended` are weakly fair. `LiveSpec` adds the
  goroutines of requests that have started. No request has to start; faults are bounded, so
  "in the end" means once the stores work again. Crashes are not fair, and a relay restarts
  (its replica does).
* Server: a runner inside `runPostgres` goes on, so does a starting server and one that got
  the signal; the ten seconds of `Shutdown` pass, and a store call ends. Requests, sockets and
  the relay are not fair: a socket handler may stay forever, and the server exits all the same.
* Presence: started calls, the due refresh and time go on. `RefreshStop` is strongly fair:
  Go's `select` chooses at random among the ready cases, so a stop channel that stays closed
  is chosen in the end. Nobody has to connect, disconnect or push.
* Live delivery (`FairSpec`): the hub's goroutine and the read loop and the pump of every
  connection are weakly fair, each by itself, which is what Go's scheduler gives a goroutine that
  can run; a lock or a channel that stays free is taken. Events, connections, requests, lost links
  and the subscription are not. `ConnectionsSettle` needs it; the other properties do not:
  `NobodyWaitsInVain` says that the hub, a read loop or a pump can go on unless all of them wait
  for the outside, `StepsRunOut` that each has finitely many steps to take until then, and
  `NothingLeftUndone` what holds when they are there.

**Progress without fairness.** A run checks liveness on its instance only, and the prover does not
handle it. So the argument why the code gets on is stated as action properties of its own, with the
measure that every step makes smaller: `BatchesRunOut` (the batch, then the item's position),
`RunnersGetOn` (four times the files left plus the position), `ShutdownGetsOn` (the phases),
`StepsRunOut` (the nesting of the hub's loops; the frames in a queue). What remains for TLC is that
fair goroutines take these steps.

**Conditions in the properties.** Several properties say exactly when the code falls short
of the simpler claim, which the model refutes:

* `ExclusiveUnlessOverrun`: a lease that runs out under its relay lets a second relay work on
  the row (docs/message_journey.md:192 says the lease prevents it). Copies stay bounded.
* `StoredIsDeliveredOrReported`: the outbox row is written after the message's transaction,
  so a crash in between, or a failed enqueue, strands a stored message, and its retry is
  refused as a duplicate (README.md:9 calls the outbox transactional).
* `CompleteWithoutFaults`: one swallowed cache error leaves a set without expiry that misses
  a member, who is then denied although docs/design.md:95 calls Postgres authoritative.
* `GapOnlyWhileBackfilling`, `EmptySyncMeansCaughtUp`: see Findings; and when the stream was
  lost, recovery compares `created_at` with the time of the last append, so that a message
  created before that time is not found again.
* `ReplayOnlyWithinSkew`: `created_at` is finer than a stream id and of another clock, so a message
  of the cursor's millisecond, or of the time by which its replica is ahead of Valkey, is sent
  and appended again.
* `EveryMemberServed`: a member with a socket gets no push, also when the queue takes no frame; the
  socket is then closed, and SYNC has to make up for it.
* `ChangeLeavesTrace`: a WebSocket request that took effect may have neither an answer nor a record,
  when its success frame finds the queue full or closed.
* `WithinLimitUnlessRaced`: `windowStart` and `count` are reset in two operations; callers in
  between are forgotten or counted into the wrong window.
* `StreamIsFollowed`: until its first event the subscription passes `$` to every `XREAD`, so
  an event published between a timeout and the next call is skipped; and a subscription that
  is behind by more than the stream keeps does not notice that entries are gone.
* `NoPushToSteady`: presence belongs to a device and not to a
  connection, so a reconnecting device is hidden by the end of its old connection until the
  next refresh (`OnlineAgain`), and may get a push meanwhile.
* `MissOnlyAfterLateStore`: a slow fetch may replace newer keys by older ones.
* `ReadyMeansAnswered`: a check that ends because its client has gone counts as "ok".
* `DrainedBeforeClose`: `Shutdown` does not know of hijacked connections, and nobody tells
  the relay to stop before the stores are closed; both may call a closed store. An HTTP
  request may only after the ten seconds.
* `CutOffOnlyByErrorsInARow`: the breakers count every error, so callers' own mistakes and misses
  cut off a store that works, if they come in a row. A success in between, or a result of before
  the breaker last changed, does not count towards it.
* `RegisteredDeviceIsTried`: the hash may expire between `HSET` and `EXPIRE` when another
  device registered 90 days ago; the new token is then lost though the call succeeds.
* `MessageIdsAreDistinct`: entropy is drawn anew when the clock shows an earlier millisecond
  again, so ids are distinct with probability only. Across processes they always are so.

## 4. Findings

* `outbox_statement_refused` (bug): the `INSERT` of `Enqueue` (`outbox_repo.go:18`) names six
  columns and gives four values, which Postgres refuses. docs/message_journey.md:141 promises
  "durable + deferred realtime". With it, one failed append or publish strands the message
  for good, while with `EnqueueAccepted = TRUE` the outbox makes up for it.
* `sync_backfill_gap`: `recoverAndBackfill` returns only the entries it appended itself. An
  entry that a sender appends in between lies below the last id returned, which the client
  acknowledges; no later SYNC returns it. docs/guide.md:440 tells clients to consider their
  timeline complete after SYNC.
* `join_retry`: docs/guide.md:166 says "Existing member add is idempotent and returns
  success." `JoinRoomUseCase` returns `ErrUserAlreadyExists` (`join_room.go:56`), answered
  with 409, so a client that repeats a join whose answer was lost is told that it failed.

Other differences between docs and code met on the way, which no property is about: the route
for members is `POST` in the code and `PUT` in README.md:89 and docs/guide.md:111;
docs/guide.md:125 says unknown JSON fields are rejected, echo's `Bind` ignores them;
`/metrics` (README.md:87, docs/design.md:102) has no route and `WithRequestMetrics` is not
used; the special cases of the request log name a method and `c.Path()` has none, so the
default applies to every route; without the header the trace id stays empty; a send to a
missing room is a 404 over HTTP and an "internal error" frame, logged as an error, over a
socket; a configuration value that does not parse is replaced by its default silently.

## 5. What is proved

For every value of the constants, with TLAPS. Where a theorem states a property of a run,
`PROJECT.json` names it. The type invariants (`TypeOK` and its variants) are no properties of
runs; they are proved for every component, those of the migrations and the server as parts of
`MigrationInv` and `ServerInv`. The large inductive invariants (`CopyInv`, `SyncInv`,
`PresenceInv`) were checked with TLC on small instances before they were proved.

**MessagePipelineProofs**, from `ConstantsAssumption` and `NoneAssumption` (the maps are
functions on their domains, a backlog has one message per key, `None` is no request, relay or
result) and the assumption on `BatchSize`.

* `TypeCorrect`, by induction with `ItemInv` (a relay has an item unless it is idle).
* `OneMessage`, `SentIsSafe`, `DuplicateIsTrue`, `ReplyIsSafe`, `DispatchIsSafe`,
  `StoredFirst` from one inductive invariant `PipelineInv`. The properties are not inductive
  alone: that a row is retired only when delivered depends on what a relay's position says
  about the streams (`RelayInv`: past the append the message is in the room stream, past the
  publish in both; what it holds is stored), on what a sender's position says (`SenderInv`), on
  the flag (`StreamInv`), and one message per key on the dedup table naming exactly the stored
  messages (`DedupInv`). `AnswerInv` are the promises about answers themselves.
* `ExclusiveClaims` from `ClaimInv`: without an overrun a relay owns, by name and live lease,
  every row it holds (`OwnerInv`), and does not hold a row twice (`BatchInv`).
* `StoresFit` and `AnswersHold` put these together into the properties the run checks.
* `CopiesArePaid` from `CopyInv`, which counts who will still append a message, or publish it, if
  nothing goes wrong: the sender up to its call, the pending row unless the relay that holds its
  lease tends to it, and every relay that has the call before it. Entries in the stream and these
  claims together never exceed one plus the faults and overruns. A step hands a claim on or turns
  it into an entry (`RoomPaid`, `EventPaid`, one lemma per kind of step); only a fault or an
  overrun makes one more. It needs `BatchInv` (nobody has a row twice), `SkipInv` (who skips the
  append knows from the row that it was made), and that the relays with a claim are finitely many,
  which is part of the invariant, since nothing bounds the number of relays.
* `StoredIsNeverForgotten` from `PipelineInv` and `DoneInv` (the request of a stored message ends
  with `ok` or an error): `SenderInv` says what a request has brought about at each position, and
  `AnswerInv` what it left behind when it ended with `ok`. It is the part of
  `StoredIsDeliveredOrReported` that needs no fairness. `NothingStoredIsForgotten` puts it together
  with `DispatchIsSafe`.
* `RelaysComeToAnEnd`, an action property, from the types and `ItemInv`: a step of another process
  leaves a relay's locals alone, and each of its own calls goes down in `RelayRank` or gives up the
  item, with a fault.
* `ImplementsDelivery`: every step of the pipeline maps to a step of `MessageDelivery` or
  leaves it unchanged, with `OpenInv` (no answer before the end). Its liveness is TLC's.

**RoomMembershipProofs**, from `RoomAssumption`.

* `RoomTypes`, and `CacheIsSafe` from `RoomInv`, which adds that what a call is about to write to
  the cache are members already (`MembersInv`, `JoinInv`), and uses that memberships only grow
  (`RolesGrow`).
* `OwnerlessRoomStaysFrozen`, an action property, from `CallsInv`: which kinds of call pass a
  label and what a call has made sure of by then. A call about to add a member has found its actor
  to be the owner, so in a room without one nobody is.
* `CacheIsComplete` from `CompleteInv`: without faults every member is in the cache or some call
  still owes it (`Owes`), and a call in the loop of `warmCache` has found or made the set and has
  the rest of what it read still to do. When no call is under way nobody owes anything.

**SyncMessagesProofs**, from `SyncAssumption` (pages, streams and milliseconds are not empty, no
clock is off by more than `MaxSkew`): `SyncTypes`, `GapsAreBackfills`, `EmptyAnswerIsTrue` and
`ReplayIsWithinSkew` from `SyncInv`. Of the stores it says (`StoreInv`) that ids increase along
the stream, that an entry is of a stored message whose `created_at` is before the end of the id's
millisecond plus the skew (`Latest`), and that what was appended is there unless the stream has
lost entries. Of a device it says (`DeviceInv`) that every entry at or before one of its positions
was received or overtook a backfill (`Covers`), that what the running SYNC has collected accounts
for the entries up to the end of its answer, and for the whole stream while it recovers
(`Collects`), that the rows read by `Recover` are newer than the cursor's time, and that
everything it holds is a `Position`: an id of the present stream or one of an earlier millisecond.
That is what makes it inductive, also when the stream is lost: the next id is after every position
(`NextIdIsNew`), so a new entry opens no gap, unless the device is just writing its own answer,
which `overtaken` records.

**PresenceProofs**, from `PresenceAssumption` (a device per connection, a key that outlives one
refresh period): `PresenceTypes`, and `SteadyUserGetsNoPush` from `PresenceInv`. A connection in
`steady` is open or about to remove itself (`ConnInv`), has a key with at most one period gone,
and none unless its refresh is due or at work (`KeyInv`), and has its device in a set that lives
at least as long (`SetInv`); and the push call, which asks about one device at a time (`AskInv`),
has found the user online or has that device still to ask about (`PushInv`). Steps of other
connections and of the clean-up serve it or end its steadiness (`Undisturbed`).
`AnnouncedStaysOnline` follows from the same invariant, which speaks of every connection whose last
`SetOnline` succeeded (`Announced`): a key loses one period before its refresh is due, and time does
not go on under a due refresh.

**ComponentProofs**: the components of the run `components` but the HTTP API, each about its own
specification.

* Room ids, from `RoomIdAssumption`: `DistinctIds` – a round of the network is injective for any
  mixing function because a sum modulo the half is, hence six rounds and the combination of the
  halves, and the eight digits determine the number; `IdTypes`; `ConflictsExplained` from `IdInv`
  (as long as the counter was not lost and has not wrapped, stored ids come from numbers drawn, and
  calls hold different, unused numbers).
* Breakers, from `BreakerAssumption`: `OnlyErrorsInARowCutOff` from `BreakerInv` (while the
  breaker is closed, the calls of its generation are those begun since it closed, and gobreaker's
  own count is at most the errors in a row; no call is of a later generation).
* Push tokens, from `PushAssumption`: `AcknowledgedTokenIsUsed` and `EndlessHashIsReported` from
  `PushInv`. A registration nobody replaced, deleted or cut in two is in the hash, which lives as
  long as the last acknowledgement promised (`HashInv`), and a notification has tried what it must
  try or has it in its list (`NotifyInv`).
* Request metrics, from `MetricsAssumption`: `RequestsAreCountedAsSent` from `MetricInv` (what
  the writer has noted is on the wire, and it has noted something when the handler returns; the
  counters are cardinalities of finite sets, for any set of exchanges).
* Key cache, from `JwksAssumption`: `PublishedKeyIsAccepted` and the action property
  `ReturnedKeysAreYoung` from `KeyInv`: a lasting key is in whatever its call fetched
  (`LastingInv`), and what the cache holds was the provider's key set at most one fetch before it
  was stored (`AgeInv`).
* Message ids, from `IdAssumption`: `MessageIdsStayDistinct` from `MessageIdInv`: while the clock
  is not set back, ids of one millisecond are as many increments apart as they are ids apart,
  modulo the size of the entropy.
* Limiter, from `LimiterAssumption`: `LimitHolds` and the action property `NobodyIsDeniedEarly`
  from `LimiterInv`. A window that did not begin in a race has one caller between the swap and the
  store of the count; after it the count is the number of admitted calls and of those that will
  take theirs back, which exist only when the window is full (`WindowInv`).
* Types: `BreakerTypes`, `PushCallTypes`, `MetricsTypes`, `KeyTypes`, `MessageIdTypes` and
  `LimiterStateTypes`, from the invariants above; the limiter adds `TimeTypes` (what
  `LimiterInv` leaves open: the times of windows and calls, and the bookkeeping of races).

**ServerProofs**, from `MigrationAssumption` and `ServerAssumption`. Of Migrations alone:
`MigratedOnceInOrder` and `OkIsMigrated` from `MigrationInv` (what is recorded is a prefix of the
files and what was applied; a runner at a file found all earlier ones; an uncommitted version is
nobody else's). The advisory lock plays no part: the version row's uniqueness carries the
argument. Of the server: `ServesMigrated`,
`ShutdownDrains`, `ServersMigrateOnceInOrder` and `LockIsExclusive`. Every step of a server is
a step of Migrations or leaves its variables alone, so `MigrationInv` carries over; `ServerInv`
adds that recorded versions only grow (`VersionsGrow`), hence a server past its migrations
stays on the whole schema; that a runner between lock and unlock holds the lock or lost its
session (`LockInv`); and that after a drained shutdown no HTTP request is left (`Drained`).
The action property of `ServersComeToAnEnd` needs of it only where
runners and servers can be: a runner's `StepsLeft` falls with each of its steps, since another
runner changes neither its position nor its file, and a server's `ShutdownRank` with each phase.

**HttpApiProofs**, without assumptions: `ApiTypes`, `BlamedClientChangedNothing`,
`ChangesAreOnRecord`, `ReadyIsAnswered` from `RequestInv`, which says of one request where it is
once it has changed something, (`ChangeInv`), that only a frame can be lost (`StageInv`), what an
audit record rests on (`AuditInv`) and which dependencies it has heard of (`CheckInv`). A step of
one request keeps it for all others (`OthersKeep`), so the number of requests does not matter.

**LiveDeliveryProofs**, from `LiveAssumption`.

* `NoSendOnClosed`: `SendOnOpenQueue` is inductive with the type of the read loops' positions,
  because `Close` waits for `ReadLocked`.
* `StreamIsKeptTo`, `NothingIsLostSilently` and `MembersAreServedOnce` from `LiveInv`, which rests
  on `PositionInv` below. The subscription is at a position from which it skips only what was
  trimmed (`Reached`, `BatchInv`), what waits in the channel comes after the hub's event and in
  order (`ChannelInv`), a socket the hub has found is registered, being closed (`Closing`) or
  closed (`HubInv`), a client's frames are in order and the event in the hub's hands was not given
  to it while it is pending (`ClientInv`), and a push excludes a frame, a dropped one and a
  pending one, and without a push one of them is there (`ServedInv`). A client that did not take a
  frame is in the hub's hands until it is closed (`DroppedInv`).
* `NoDeadlock` from `PositionInv`: the hub's locals fit its position (`HubPosition`), and of a
  connection (`LinkInv`) that it is up only while it is open, served by its pump, and registered
  or being closed by the hub, that a closed one is down, and that one whose read loop has returned
  is not registered. Whoever waits for the hub's lock waits for one inside `Unregister`, which
  waits only for a reader of the client's lock, and a reader (`"send"`) can always go on, because
  the `select` in `enqueue` has a default: so whoever waits, waits for one who does not.
* `RestIsComplete` adds `LiveInv`: at rest the queues of open connections are empty, so what was
  given to a client (`NoSilentLoss`) was received.
* `LiveTypes` from `LiveInv`, `PositionInv` and `FrameTypes` (the frames on their way are events).
* `NobodyGoesInCircles`, an action property, from the types: one lemma for the hub, whose loops
  nest, and one for the connections, where a queue grows only by a step of the hub or of the
  read loop that itself gets on.

**Only model-checked**: all liveness (`StoredIsDeliveredOrReported`, the promise of
`MessageDelivery`, `EveryRunnerReturns`, `SignalledServerExits`, `OnlineAgain`, `OfflineInTheEnd`,
`ConnectionsSettle`), since fairness is outside what the prover handles. What these rest on is
proved: `StoredHasCarrier`, `BatchesRunOut`, `RunnersGetOn`, `ShutdownGetsOn`,
`AnnouncedIsOnline`, `NobodyWaitsInVain` and `StepsRunOut` are their parts without fairness. Every
other invariant and action property of the passing runs is a theorem. What recursive definitions
compute on every input is out of the prover's reach too; no module here declares one.

## 6. Not modelled

* Parsing, signatures and claims of tokens, decoding of requests, field validation, the texts
  of frames: their outcome is a nondeterministic choice of the handlers in HttpApi.
* The paging of the history route: it reads and changes nothing. ListByRoom itself is in
  SyncMessages.
* The number of pushes when several replicas find the same member offline: each hub pushes by
  itself, and the code has no state in which they could coordinate.
* The upgrade of a WebSocket and its ping ticker (a failed ping is a lost link).
* Traces, exporters, the text of `/metrics`, levels and fields of log records: nothing in the
  program reads them back.
* Configuration other than the switch for startup migrations: its values are constants of the
  modules.
* The sequence of room ids that counts in memory, and the breaker of the Postgres pool, which
  has no operation: the server uses neither.
* What migration statements do to the schema.
* Browser client, load tester, sidecar, test helpers, deployment files.

## 7. Plan

Done, in this order: pipeline with its abstract specification and proofs; rooms; sync; limiter;
live delivery; room ids; migrations; presence; key cache; the server process; HTTP API with
health; push tokens; message ids; circuit breakers; request metrics; trimming of the event
stream.

Then the theorems: the pipeline with its refinement, rooms, room ids, migrations and server, the
HTTP API, live delivery, sync, presence and the components; the bound on copies; last the absence
of deadlock in live delivery, the progress of relays, runners, shutdown and connections, and what
delivery and presence promise without fairness.

Left: the liveness of the runs stays with TLC.
