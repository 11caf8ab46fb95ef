# nebula-mnemosina in TLA+

nebula-mnemosina polls the debug shells of Nebula lighthouses over SSH, keeps
what they say in PostgreSQL (optionally TimescaleDB), prunes the history, and
offers it to Grafana (five views) and to Prometheus (a service discovery
endpoint). This directory models how a poll gets from the lighthouse into the
database, how it leaves the database again, what Prometheus and Grafana are
shown of it meanwhile, how host keys are learned, and how processes start,
migrate the database, and end. TLC checks the models on small instances; TLAPS proves
every invariant and every action property of the runs, and the two refinements, for
every value of the constants; liveness is model-checked.

Paths below are relative to the repository (`src/`).

## Inventory

| component | source | state | operations | talks to |
|---|---|---|---|---|
| collector | `internal/collector/collector.go` | results channel, wait group, joined errors, ticker | `Run`, `runRound`, `pollLighthouse` | SSH runner, poll store |
| SSH runner | `internal/sshclient/client.go` | one connection, session and goroutine per command | `Run` | lighthouse, host keys |
| host keys | `internal/sshclient/client.go` | `known_hosts` file, in-memory database, mutex | `acceptNewHostKeyCallback`, `appendKnownHost` | called back in every handshake |
| poll store | `internal/storage/storage.go`, `db/queries` | the tables | `SavePollResult`, `RefreshGrafanaViews`, `ListPresentHostmapPeers`, retention statements | PostgreSQL |
| retention | `internal/retention/retention.go` | start time and batch of a `Prune` call | `Run`, `Prune` | poll store |
| schema | `db/migrations/core`, `db/migrations/timescale` | tables, foreign keys, hypertables, views | migrations | |
| service discovery | `internal/httpserver/prometheus_sd.go` | none | handler, `prometheusTargetGroups` | poll store |
| Grafana views | `db/migrations/views` | five materialized views | refresh one by one | poll store |
| process lifecycle | `cmd/nebula-mnemosina/main.go` | root context, readiness, exit status | start-up order, signal, shutdown | everything |
| HTTP server | `internal/httpserver/server.go` | ready flag, requests, its listener | `/readyz`, `/healthz`, `/metrics`, `/prometheus-sd` | poll store |
| migrations | `internal/migrate` | version tables, tern's advisory lock | `Run`, `runSet`: three sets up to the embedded versions | PostgreSQL |
| configuration, parser, model, metrics, telemetry | `internal/config`, `internal/nebula`, `internal/model`, `internal/metrics`, `internal/telemetry` | none that control depends on | | |

How they interact. `main` cancels one root context on SIGINT or SIGTERM; the
collector, the pruner and the HTTP server run under it. A round of the
collector starts one goroutine per lighthouse; each runs its commands in turn
through the SSH runner, whose handshakes call the host key callback under one
mutex. Results come back over a buffered channel that is drained only after all
goroutines have returned; they are saved one transaction each, then the views
are refreshed. The pruner is a second goroutine on the same database, and
during a rolling update (the deployment of `tests/e2e/manifests` has one replica
and no update strategy, so the new pod starts before the old one has gone) a
second process brings a collector and a pruner of its own.

What is hard, and what makes each component correct:

* **poll store** — a poll is many statements with `success = false` until the
  last: readers must never see half of one, whatever fails; a commit whose
  answer is lost is reported as an error for rows that are there.
* **retention** — batches are listed in one statement and deleted in another,
  and another pruner may come between; chunk drops remove child rows before
  their poll; cutoffs are strict; an early end of the loop leaves expired rows.
  Nothing younger than its period may go, everything older must in the end, and
  always the oldest first, because the newest successful poll is what readers
  present as current.
* **collector** — nobody may send on the closed channel or block on a full one;
  a round accounts for every lighthouse; a shutdown must not be recorded as an
  outage of the lighthouses it interrupted; a tick and a cancellation race.
* **SSH runner** — deadlines race answers; an abandoned `session.Run` goroutine
  must end; phases without a deadline depend on the peer.
* **host keys** — concurrent learners, a file and a copy of it in memory, torn
  lines, crashes: one key per host, and what was accepted stays known.
* **service discovery** — one target per address, from the newest successful
  poll of each lighthouse; the answer must not go back in time.
* **views** — `mnemo_lighthouse_disagreement` is computed from another view, so
  the order of refreshes matters; they choose rows in other ways than the
  service discovery and must not contradict it; two processes refresh them at
  the same time.
* **lifecycle and HTTP server** — migrations, collector, pruner and requests
  share one pool, whose `Close` waits for all of them: not ready before the
  migrations are done, nothing runs on a schema that is not there, a probe is
  answered even by a process whose database is not, and a signal gets the
  process out of wherever it is.
* **migrations** — processes with different binaries start together, each set
  is locked on its own, a dead one keeps the lock for a while: dependencies
  first, and ready only with everything the binary was built with.

`PROJECT.json` lists every hazard at its line with the properties that cover
it.

## Modules

```
PollSchema ── PollHistory (what readers are promised)
     │           ├── ServiceDiscovery ─┬ MCServiceDiscovery     Discovery
     │           │                     └ ServiceDiscoveryProofs
     │           └── GrafanaViews ─┬ MCGrafanaViews             Views
     │                             └ GrafanaViewsProofs
     │                 (SD == INSTANCE ServiceDiscovery)
     └─────── PollStore   (transactions, pruners; PH == INSTANCE PollHistory)
                 ├── MCPollStore        StoreOverlap, StoreTimescale
                 └── PollStoreProofs
CollectorLoop (what the process relies on of the collector)
     ├─────── PollRound ─┬─ MCPollRound RoundLoop, RoundLive, RoundStuckPeer
     │          │        └─ PollRoundProofs
     │          (Loop == INSTANCE CollectorLoop)
     └─────── Lifecycle ─┬─ MCLifecycle Lifecycle
                         └─ LifecycleProofs
Migrations ─┬─ MCMigrations             Migrations
            └─ MigrationsProofs
KnownHosts ─┬─ MCKnownHosts             KnownHosts, KnownHostsReload, KnownHostsTorn
            └─ KnownHostsProofs
SetLemmas (least elements, finite images: for ServiceDiscoveryProofs, GrafanaViewsProofs)
```

### PollSchema, PollHistory

`PollSchema` has the rows of `001_schema.sql` and the two retention periods. A
row of `poll_runs` also carries, as an auxiliary field, the `PollResult` it was
saved from, which no code reads: it lets a property compare what is in the
tables with what was handed to `SavePollResult`. All rows of one poll in one
normalized table are one record (`EntryRow`), because one statement sequence
inserts them and one cascade or chunk drop removes them together: they share
`observed_at`. Payload rows have a time of their own, that of their command.

`PollHistory` is the abstract specification: a poll appears in one step with
all its rows, not before it started and not after its period; a poll, a
payload, the rows of a table disappear only after their period, polls oldest
first. It knows nothing of transactions, batches, chunks or processes.

### PollStore

`tx[i]` is the `SavePollResult` call of process `i`, `prune[i]` its `Prune`
call. One SQL statement is one step: this is the granularity at which other
sessions interleave. The rows an open transaction has inserted are private
until `Commit` publishes them (READ COMMITTED).

| code | actions |
|---|---|
| `SavePollResult` | `CreatePollRun`, `InsertRawCommandPayload`, `InsertHostmapEntries`, `InsertLighthouseAddrmap`, `InsertRelaySnapshot`, `CompletePollRun`, `Commit` |
| its error returns and deferred rollback | `Rollback`, `CommitAnswerLost` |
| `Pruner.Run`, `Prune` | `PruneStart`, `PruneFail`, and `AtPeriod`, the step from the payload part to the period part |
| `DropChunks` | `DropRawChunks`, `DropChunks` |
| `DeleteExpiredRawCommandPayloads` | `ListRawPayloads`, `DeleteRawPayloads`: its subquery, and the delete that skips rows another session has deleted |
| `DeleteExpiredPollRuns` | `ListExpiredPollRunIDs`, `DeletePollRuns` with the cascade |
| process death | `Crash`: the server rolls back, deleted batches stay deleted |
| time | `Tick` |

`Tick` carries the one assumption about time: a save ends within `SaveLag` of
the start of its poll, and `SaveLag` is no longer than the retention periods.
The code has no timeout on a save, so this is an assumption about the database,
not a fact of the code: polls take seconds and periods are hours. Without it a
save could commit a poll that is already expired, also behind a `Prune` that
reports success, which `PruneComplete` therefore does not speak of.

### PollRound

`main` is the program counter of `Run` and `runRound`, `poll[l]` the goroutine
of a lighthouse together with the SSH connection of its current command. The
peer may answer, fail or do nothing in every phase. Timers are booleans that may
become true whenever they are armed. `orphans` counts, for each lighthouse, the
goroutines of `session.Run` whose command was given up, by the state of the
client they run on: `GiveUp` takes `ctx.Done` and closes the client, and
`OrphanEnds` needs room in `done` (`DoneCapacity`) for an outcome that nobody
receives. Commands are counted, not named: a poll
runs all of them whatever became of the earlier ones. `SavePollResult` and
`RefreshGrafanaViews` are calls that return nil or an error (`SaveOk`,
`SaveFails`, `SaveInterrupted`, `RefreshOk`, `RefreshFails`). After the
cancellation a call returns an error, and a signal during a save makes it
return the cancellation whether or not the server has committed.
`exit` is what `run` in `main.go` makes of the error of `Run`: `errors.Is`
finds a cancellation anywhere among joined errors.

### CollectorLoop

The abstract specification of `Collector.Run`: rounds that wait for their polls
(`PollsEnd`, the end of `wg.Wait`) and then account for every
lighthouse, by a stored result or by an error, unless a signal cuts them short;
`Run` returns after its only round with `--once`, otherwise only when the
context is cancelled; and which exit statuses its result may have. `PollRound`
implements it (`ImplementsLoop`) under the mapping `Loop`, in which the phases
are those of `main`, and `accounted` is the set of lighthouses that have a stored row or an error of this round.
`Lifecycle` uses it in the place of the collector.

### KnownHosts

The callback of mode `accept-new`. `Check` is the lookup under the mutex,
`AppendLine` is `appendKnownHost`, `Reload` is `knownhosts.New`, `Assign` the
assignment and the return. `file` holds the complete lines, `tail` says whether
the file ends in a newline, in a line without one, or in a line that does not
parse; a failed write leaves any prefix of its line. `failures` counts failed
opens, writes, loads and deaths of the process, each up to `MaxFailures`. `Crash`
and `Start` keep the file and lose the memory. One process owns the file: the
deployment keeps it on a volume of the pod (`tests/e2e/manifests`). Mode `strict` is the same check without learning
and mode `insecure` is no check; neither has state.

### ServiceDiscovery

The endpoint `/prometheus-sd`, over the steps of `PollHistory` instead of those
of the store: the refinement proved in `PollStoreProofs` says that a reader sees
nothing else. `SavePollResult` is `Record` with what the poll has seen,
`HistoryStep` the other steps of the history; polls may be recorded in another
order than they were started in. `Serve` is a request. Its only read of shared
state is one query, so it is one step.

`latest_poll`, `Joined`, `PeersOf`, `RanksBefore` and `FirstOfEachPeer` are the
clauses of `ListPresentHostmapPeers`, and the operator of that name is the set of
row sequences its `ORDER BY` allows. `prometheusTargetGroups` and
`FirstPerTarget` are the two loops of the Go function with their map
`seenTargets`. Texts are numbers in their collation order. Groups keep the labels
that tell where a target comes from. An address of a configured lighthouse that
`net.SplitHostPort` refuses, which the configuration does not produce short of a
stray bracket in a host, would be answered with status 500, like a query that
fails; a request that is answered so changes nothing. `answer` holds the groups of a request,
each at its place in the order in which the loops meet peers and lighthouses, so that
a group that is left out leaves its place empty. It is kept
until the next step of the history; `shown` is the newest poll of each lighthouse
that was answered.

A lighthouse leaves the answer only when retention deletes its last successful
poll, whether it still is configured or not: `Lighthouses` are those in the
database, `Targets` those of the configuration.

### GrafanaViews

The five `CREATE MATERIALIZED VIEW` statements are operators of the same names
over the tables; clauses they share with the service discovery (the join, the
key of a peer, the ranking) are taken from `ServiceDiscovery`, because the SQL
is the same. `seen` is what the hostmap and the addrmap of a poll said; which of
its rows still are in the tables is up to the history, whose retention steps
are `Prune`. Learned addresses are compared as a whole, as `learned_addrs::text`
is. Every peer has a fingerprint or an address, so the third alternative of
`peer_key`, the tunnel indexes, does not occur; and no two polls of a lighthouse
start in the same microsecond, as `row_number()` would then choose at will.

`RefreshGrafanaViews` is the call of a round that has saved something; each of
its statements is two steps, `Exec`, at which PostgreSQL takes the snapshot, and
`Refreshed`, at which the rows are replaced, because another process may hold
the lock of the view in between. `asOf` says of the rows of a view how many
changes of the history they know, and `by` who wrote them. The disagreement
view reads the rows another view has at the time. `RefreshFails` is an error,
of which only the answer may be lost, or the death of the process.

With two processes the older of two snapshots may be written last: the views
can be older than a `RefreshGrafanaViews` call that has returned nil. Nothing in
the repository promises otherwise and the next round repairs it, so
`RefreshedIsFresh` excludes views that the other process has written meanwhile.
A round that saves nothing refreshes nothing either (`due`): the views stay as old
as the last saved poll, whatever the pruner deletes meanwhile.

### Lifecycle

`run` of `main.go` from the HTTP server to the end of its deferred calls. `main`
is its program counter; `conn` says of everyone who uses the pool (migrations,
collector, pruner, each request) whether it waits for a connection or holds one;
`closed` is `pool.Close`, which `PoolClosed` waits in until nobody holds a
connection: that is what pgxpool says of it, and no property is about it alone. A statement ends because the database answers it, fails it, or its
context is done; the database may also never answer. The collector is
`CollectorLoop`, whose steps now need connections.

| code | actions |
|---|---|
| `run` | `StartUp` (server, then migrations or not), `MigrateOk`, `MigrateFails`, `SshOk`, `SshFails`, `CollectorReturned`, `PoolClosed` |
| signal | `Signal`; a second one is swallowed, since `stop` is deferred to the end |
| `collector.Run` | `CollectorPolls`, `CollectorBegins`, `CollectorFinishes`, `CollectorMoves`, `CollectorStops` |
| `Pruner.Run` | `PrunerBegins`, `PrunerFinishes`, `PrunerReturns` |
| `httpserver.Start` | `Listen`, `Shutdown`, `Readyz`, `PrometheusSD`, `Answer`, `TimesOut`, `ClientGone` |

Whether the goroutines of a round come to an end (`CollectorPolls`) is not in the
hands of the code, as `round_stuck_peer` shows. Here it is `PeerFairness`, an
assumption about peers like the one of that name in `PollRound`. A server
that cannot listen (`server` is `failed`) is only logged (`server.go:54`): the
process goes on without endpoints, and only its probe will tell.

### Migrations

`migrate.Run` in several processes on one database. `Embedded[p]` says how many
migrations of each set the binary of `p` has, `version` what the version tables
hold, `todo` which sets the call has still to run. tern is external: it holds
one advisory lock for one set, commits each migration with its version, and
refuses a version the binary does not know. `Fails` is an error that makes
`run` return and the process exit, after which it is started again; `Crash` is
a death that the server has not noticed yet, so that its lock stays and its
last commit may still take effect; `SessionEnds` frees the lock.

## Runs

Each cfg gives values to the constants and replaces nothing. Symmetry is used
only in `round_loop`, which has no liveness property.

| run | shows |
|---|---|
| `store_overlap` | Two processes on one database, two saves between them, both pruning, batches of one row, one failure anywhere (statement, commit answer, crash). `UnexpiredRunsIntact`, `AckedRunsKept`, and `ExpiredRunsDeleted`: two pruners take rows from each other's batches and stop early because of it, and yet every expired poll is deleted in the end. |
| `store_timescale` | One process with chunks of two ticks and payloads that expire before their polls. The inductive invariant `IInv` of the proofs, with types and `NoOrphans` among its parts; `PruneComplete`: a `Prune` that returns nil has left nothing older than its cutoffs; `PresentPollNeverGoesBack`: deletion is oldest first, also across batches; `ImplementsHistory`: the refinement. |
| `discovery` | Three polls of two lighthouses, one of them not configured any more, committed in any order, successful or not, expiring and deleted. `OneTargetPerAddress`; `AnswersNeverGoBack` over a sequence of requests; `OnlyPresentPeersListed` and `PresentPeersListed`: the answer is what the newest successful polls say, no more and no less. |
| `views` | Three polls of two lighthouses in any order, successful or not, while retention deletes polls and drops chunks; one process refreshes, statement by statement, and may fail halfway. `PresentPeersInView`: what Grafana shows of a peer agrees with what Prometheus is told; `DisagreementExact`: the disagreement view shows the contradictions among last words and nothing else, stated without `row_number`, `GROUP BY` and the intermediate view; `RefreshedIsFresh`: a refresh that returns nil has left no view behind (two refreshing processes: `GrafanaViewsProofs`). |
| `round_loop` | Two lighthouses, two commands, two rounds or one with `--once`, a signal anywhere: `ChannelSafe`, `ShutdownIsNoOutage`, `NoPollLost`; and the refinement `ImplementsLoop`, which also says that with `--once` the exit status hides no error unless a signal came in. |
| `round_live` | If peers answer or hang up: rounds end, the poll timeout holds, a signal ends the run. `OrphansEnd` needs nothing of peers: an abandoned goroutine ends because `GiveUp` has closed its client and `done` has room. |
| `round_stuck_peer` | The same timeout without that assumption: violated, see below. |
| `known_hosts` | Three goroutines, two of them for one address, two keys, two failures of each kind: failed opens, failed and torn writes, failed loads, crashes. `OneKeyUnlessLoadFails`: one key per host until a readable file fails to load; `AcceptedIsKnown`; `ReadableFileLearns`: failed opens, failed loads and crashes do not stop hosts from being learned, as long as no line is torn. |
| `known_hosts_reload`, `known_hosts_torn` | Violated, see below. |
| `lifecycle` | Migrations, collector with or without `--once`, pruner, two requests, two connections, a signal anywhere, a database that may never answer. `ReadyzTruthful`: 200 means a migrated schema and a database that has answered this very request; `WorksOnMigratedSchema`; `ExitZeroMeansDone`: what exit status 0 of `--once` says of migrations, polls and refresh together; `ReadyzAnswers`: the probe is answered although the database is silent; `RunReturnEndsProcess`: once `run` returns the process exits, although `pool.Close` waits for requests that the root context does not end; `SignalEndsProcess`: a signal gets the process out of every phase, the silent database, the ticker that fires at the same time and the pruner's statement included, provided that the lighthouses let `wg.Wait` return. |
| `migrations` | Two new processes with TimescaleDB and an old one without: `ReadyMeansMigrated`, `DependenciesFirst`, and `NewestReady`: however they fail, die with the lock or are overtaken, the processes of the newest binary become ready for good. |

### Bounds, and why they are enough

* `BatchSize = 1` with `MaxRuns = 2`: a full batch that is the last one, an
  empty batch, two batches in a row, and two pruners in the same batch all
  happen. `MaxTime` lets a poll become expired and be pruned while another one is
  open; the periods are one or two ticks, so that a poll of exactly the
  period's age occurs. `ChunkInterval = 2` puts the cutoff inside a chunk and at
  its edge.
* `discovery`: three polls are needed for an older poll committed between two
  requests that show another lighthouse too. The three hostmaps have a peer
  without an address, peers without a certificate, a certificate at two addresses,
  two certificates at one address, and a peer that is a configured lighthouse; with
  two lighthouses every pair of them meets in one answer. With `MaxTime = 2` and
  a period of one tick the first polls expire.
* `Commands` has one member in the store runs: payloads differ only in their
  times. The proofs hold for any set.
* `MaxFailures = 1` in the store, 2 of each of the four kinds for host keys: each
  failure leaves a state that the next call starts from, and two loads that fail
  in a row leave memory two lines behind the file; the proofs do not depend on it.
* `store_overlap` has `MaxTime = 2`, so only polls of the first tick expire: the
  order of deletion does not show. `store_timescale` goes to `MaxTime = 4`, where
  two expired polls of different ages meet; that the order also holds between
  two pruners is the theorem `PresentStaysPresent`.
* Two lighthouses and two commands give every order of two results, of a
  command that succeeds after one that failed, and of both goroutines in
  different phases. Two rounds let leftovers of one meet the next.
* `views`: with three polls a lighthouse contradicts itself, another one, and
  then no more; the sightings have one peer in two tunnels, a peer without a
  certificate at the address of one with, an address reported by two others, and
  the same from a poll one of whose commands failed. `Bucket = 2` with `MaxTime = 2`
  gives polls in the same five minutes and in different ones; with a period of
  one tick the first ones expire. Two refreshers do not fit into the run. What
  they do to each other is only a matter of how old rows are, and that is proved.
* `lifecycle`: two requests and the three goroutines of the process make five
  users of two connections, so that each may have to wait for any two others.
  One lighthouse is enough: how results of several are drained is in `PollRound`.
  `once` is a variable chosen at the start, so that one run has both modes.
* `migrations`: the old binary lacks one core and one view migration, so it may
  be overtaken before, between and after its sets. Three failures let each
  process die once, or one die in every set.
* `MaxRounds` also ends the loop: in the last round the ticker may fire but no
  round begins. Everything else goes on, so runs do not stop there. `round_live` has
  one round, so no tick competes with the cancellation there; in `lifecycle` rounds
  are not bounded, and `SignalEndsProcess` covers that race.

Deadlock is checked in every run. Where the system rests, a step says so:
`Exited`, `Serving`, `BetweenRounds`.

### Fairness

* `PollStore`: weak fairness of a pruner's next step. Run calls `Prune` on every
  tick of its ticker and statements end. Saves need none.
* `PollRound`, `LocalFairness`: goroutines that can run do, armed timers fire,
  `DialContext` and the database return. A select that is offered a branch
  again and again takes it in the end (Go chooses at random). An abandoned `session.Run`
  returns because its client is closed, as `x/crypto/ssh` has it; on an open client
  it may wait for ever (`OrphanEnds`). Nothing is assumed of peers. `PeerFairness` adds that a peer answers or hangs up in
  the two phases without a deadline, the handshake and the opening of the session.
* `KnownHosts`: a lighthouse is polled again and again and a dead process is
  restarted. Failures are bounded, so that they are over at some time.
* `Lifecycle`, `LocalFairness`: `run` goes on; a call of the pool returns once
  its context is done, or the pool is closed while it still waits for a
  connection; the two seconds of `/readyz` pass; a select takes `ctx.Done` in the
  end; a round whose polls have ended and that has nothing left to save returns.
  Nothing is assumed of
  the database: that is what makes `ReadyzAnswers` say something. `ClientFairness`
  adds that HTTP clients hang up in the end. `RunReturnEndsProcess` and
  `SignalEndsProcess` need it:
  `/prometheus-sd` runs under the context of the request, which neither the
  signal nor `server.Shutdown` ends, and `pool.Close` waits for its connection.
  `PeerFairness` adds that the polls of a round end. Nothing in the code sees to
  that, not after a signal either: `wg.Wait` waits for `ssh.NewClientConn`, which has
  neither a context nor a deadline (`round_stuck_peer`). `SignalEndsProcess` is
  stated under it, and without it does not hold.
* `Migrations`: processes that exit are started again, statements end, PostgreSQL
  notices dead sessions and queues those who wait for an advisory lock (strong
  fairness of `Lock`).

### What the code does otherwise than its documents say

* `round_stuck_peer`: `ssh.NewClientConn` (`client.go:72`) gets a connection
  without a deadline and takes no context. A lighthouse that accepts the
  TCP connection and then says nothing keeps its poll, and with it `wg.Wait` and
  every later round, for ever. `config.go:23` calls `--poll-timeout` the
  timeout "for one lighthouse polling run".
* `known_hosts_reload`: when the load after a successful append fails, the
  memory stays as it was, the host counts as unknown again, and a changed key is
  appended and accepted. From then on both keys are. `README.md:54-55` says that
  changed keys fail.
* `known_hosts_torn`: a line written in part is never repaired. Every later load
  fails, so new hosts are refused for ever, and a restarted process exits.

## Proofs

Checked by tlapm with the SMT and Zenon backends and LS4 for the temporal
steps. The assumptions on constants are named in the modules, and
TLC evaluates them in every run of a module that has them:

* `PeriodAssumption`: `validateRetention` refuses negative periods.
* `StoreAssumption`: sizes are positive, and a save ends within the retention
  periods (see `Tick` above).
* `KnownHostsAssumption`, `RoundAssumption`, `LifecycleAssumption`,
  `MigrationsAssumption`: types; there are finitely many lighthouses and requests, a
  poll has a command, the pool has a connection, and the names that stand for
  "nobody" are not those of anybody.
* `ServiceDiscoveryAssumption`: types, and that no fingerprint is the text of an
  address. A fingerprint is a hex digest; the query itself relies on it when it
  partitions by `COALESCE(fingerprint, address)`.
* `GrafanaViewsAssumption`: types, and that no poll has two rows of one address and
  reporter. The reporters of an entry are the keys of a map
  (`insertLighthouseAddrmap`), but the entries are a JSON list
  (`ParseLighthouseAddrmap`): that it names an address once is a property of Nebula's
  output, which this code does not check.

`PollStoreProofs`. `Invariance` proves `Spec => []IInv`, one lemma per action.
The visible promises (`UnexpiredRunsIntact`, `AckedRunsKept`, `NoOrphans`) are
not inductive by themselves: that a commit publishes a whole poll depends on
what its transaction holds (`OpenTx`: after each table, exactly the rows of the
tables done so far, under an identifier nothing else carries), and that a
delete removes only expired polls depends on what the pruner chose earlier
(`PrunerOK`: its identifiers are below the sequence and expired with respect to
its start time, which is not in the future, and none of the polls that stay
started before one of those chosen). `IInv` adds both, and that identifiers are
keys (`RunsOK`). `TypeCorrect`, `NeverHalfAPoll`,
`AckedIsDurable` and `ForeignKeysHold` follow. `StoreImplementsHistory` proves
`Spec => PH!HistorySpec` over the same invariant: every step of the store is a
step of the history or leaves the tables alone. `Commit` and
`CommitAnswerLost` are `Record`, `DeletePollRuns` is `ForgetRuns`, the chunk
drops and payload deletes are `ForgetEntries` and `ForgetPayloads`.
`PresentStaysPresent` (`PresentPollNeverGoesBack`) then needs nothing of the
store: every step of the history keeps the newest poll of a lighthouse or a
newer one (`HistoryKeepsNewest`). `OnlyPrunerCompletes` (`PruneComplete`) needs
what the earlier phases of a `Prune` have left, in `DrainInv`: the batch about to be
deleted is full or is all that was expired (`PayloadsDrain`, `RunsDrain`), once the
payloads are done none of them is expired (`PayloadsDrained`), and a command starts
after its poll, so that no commit between two statements brings anything older than
a cutoff. It holds for a pruner without competitors: two of them end early
because of each other, which `ExpiredRunsDeleted` allows for.

`KnownHostsProofs`. `Invariance` proves `[]IInv` for any set of failures:
`FromFile` and `Learning` say that memory, accepted lines and the line being
learned come from the file. `AcceptedStaysKnown` follows. `KeysPinned` proves
`OneKeyUnlessLoadFails`: as long as no load of a readable file has failed, the
file names a host once (`OneLinePerHost`), because whoever appends knows the
whole file (`UpToDate`). That the condition is needed is what `known_hosts_reload`
shows.

`PollRoundProofs`. `Invariance` proves `[]IInv` for any lighthouses, commands and
rounds. `ChannelOK` is the counting argument behind `ChannelSafe`: the results in the
channel are of different lighthouses, none of which still has a goroutine or has
been drained, so that whoever has a result to send finds room for it. `PhaseOK`
says what may be left of a round where `Run` is, `CutOK` that only a signal
cuts polls short, `NobodyLost` that every lighthouse is being polled, in the channel,
or accounted for. From there `EveryPollAccounted` (`NoPollLost`), `NoFalseOutage`, and
`RoundImplementsLoop`: a result taken from the channel is one step of
`CollectorLoop`, as is the end of `wg.Wait`; everything the goroutines do is none.

`LifecycleProofs`. `SchemaOK` says who may hold or wait for a connection before the
migrations are done, `RequestOK` that a probe is worked on only by a ready process,
`OutcomeOK` which ends of the collector lead to status 0. `MigrationsFirst`,
`ZeroMeansDone` and the action property of `/readyz`
(`ReadyzTellsTheTruth`) follow, for any requests and any size of the pool. What they
rely on of the collector is `CollectorLoop`, which `RoundImplementsLoop` proves of
`PollRound`.

`MigrationsProofs`. `ProgressOK` says that the sets a process has left behind are there
down to the last migration its binary has; versions only grow. `ReadyIsMigrated` and
the action property `DependenciesComeFirst` follow for any processes and binaries.

`ServiceDiscoveryProofs`. `HistoryOK` says that polls are keys and that the entries of
one go only when it has expired, `ShownOK` that what was answered of a lighthouse is
still there, or replaced by something newer, or expired with nothing left. That is
why an answer never goes back in time (`NeverBackInTime`). `ScrapedOnce`,
`NothingElseListed` and `NobodyLeftOut` are about the query and the two loops.
`FirstPerTarget` says which groups remain instead of how the loop finds them, so no
induction is needed: that each target has a first group, and each peer a first row,
is `LeastNatural` (`SetLemmas`), the least of a set of naturals.

`GrafanaViewsProofs`, for any number of processes, any history and any failures.
`RefreshReturnsFresh` proves `RefreshedIsFresh`: `FreshInv` says where each call is in
`Views` (`CallAt`), that its statement has a snapshot taken since the call began, and so
have the views before it, unless another process has written them since
(`OthersUnmoved`). The last view gets the age of the addrmap view
(`ReplacedRows`), which is why the order of `Views` matters (`ViewsOrder`). The
other two properties are about rows: `ViewsOK` says that a view as new as the history
has the answer of its query now, `StatementsOK` the same of a snapshot that
is still to be written. `PrometheusAgreesWithGrafana` then compares two queries that
rank before they filter and filter before they rank, and `DisagreementsShown` one
with `row_number` and `GROUP BY` with a statement that has neither.

The inductive invariants were checked by TLC on the instances of the runs before
they were proved; `IInv` of `PollStore` is part of `store_timescale`.

Only model-checked: what must happen in the end under fairness, which TLAPS does not
reach. These are `ExpiredRunsDeleted`, `RoundsEnd`, `PollTimeoutHolds`, `CancelEndsRun`,
`OrphansEnd`, `ReadableFileLearns`, `ReadyzAnswers`, `RunReturnEndsProcess`,
`SignalEndsProcess` and `NewestReady`. Every other property of a passing run is a
theorem.

## Not modelled

* Formatting, parsing and key handling of the SSH runner, the JSON parser, flag
  parsing, metrics and telemetry: no control depends on their state.
* What PostgreSQL, TimescaleDB, `x/crypto/ssh` and `tern` do inside.
* `/healthz` and `/metrics`: they read no state of the process. Counters of
  `internal/metrics` only grow and no code reads them.
* Columns that are only carried along, in the tables, the views and the labels.
* What comes before the HTTP server in `run` (flags, logging, telemetry,
  parsing the database URL): an error there ends the process before it
  has any state.

## Plan

Done: all modules of the tree above, and a theorem for every invariant, action
property and refinement that a run checks. Next, in this order:

1. `ServiceDiscovery` and `GrafanaViews` over a store whose steps are those of
   `PollStore`, as theorems: their histories are steps of `PollHistory` by definition,
   and `StoreImplementsHistory` gives the rest; what is missing is the map of `hostmap` and
   `seen` to the columns that `PollSchema` leaves out.
2. The safety halves of the liveness properties: what each step of a `Prune`, of a
   shutdown and of a migration brings closer, as invariants and action properties.
3. Configuration: `--poll-interval` is not validated (`time.NewTicker` panics for zero
   or less), which no property covers yet.
