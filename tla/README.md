# A TLA+ model of venus-os-observability

The program listens to the `ItemsChanged` signals of Venus OS services on D-Bus,
finds out which service each unique connection name belongs to, and exports the
readings as OpenTelemetry samples and Prometheus gauges. Beside it the repository
holds a relay of Grafana alerts and, the larger part of its code, the tooling that
builds, publishes and promotes its releases. This directory holds TLA+ models of these
parts, TLC configurations that check them on small instances, and TLAPS proofs, for every
instance, of all safety properties that the passing runs check.

Run TLC with `tlc -config X.cfg M` and the proofs with `tlapm M.tla`.
Paths below are relative to the repository; `dbus_owners.py`, `dbus_listener.py`,
`metrics.py` and `__main__.py` are under `src/venus_observability/`, `relay.py` is under
`alert-mqtt-bridge/`, and the other Python files named here are under `scripts/`.

## Inventory

| Component | State | Operations | Interacts with |
|---|---|---|---|
| `ServiceOwnerTracker` (dbus_owners.py) | `services`, `owners`, `pending`, `pending_items`, `_requests`, `_refreshing`, `_changed`, `_last_refresh`, `_closed`, `_epoch` | `start`, `submit`, `_name_owner_changed`, replies and errors of `ListNames` and `GetNameOwner`, `_tick`, `stop` | the daemon by asynchronous calls; the listener by the callbacks `deliver`, `invalidate`, `select_service` |
| `DBusSignalListener`, subscriptions (dbus_listener.py) | `_global_subscription`, `_subscriptions`, `_match_rules`, `_filter_registered` | `subscribe_global`, `subscribe`, `_message_filter`, `_select_service`, `_process_values`, `_remove_subscriptions` | calls the tracker and both exporters |
| `DBusSignalListener`, threads | `_main_loop`, `_loop_thread`, `_stop_requested`, a lock | `start`, `run`, `stop`, `_run_loop`, `_stop_loop` | GLib; any thread of the program |
| `VictronMetrics` and the direct gauges (metrics.py) | `_samples`, `_active_gauges`, gauge children, `_prometheus_publishers`, energy counters | `update_from_dbus`, `_set_gauge`, `invalidate_service`, `update_prometheus_from_dbus`, `observe` | written on the GLib thread, read by the collection thread |
| `ObservabilityService`, `setup_telemetry`, `_PrometheusHTTPReader` (`__main__.py`) | two providers, the listener, the HTTP server | `start`, `stop`, `lifespan`, signals | owns all of the above |
| Correlation (correlation.py) | one `ContextVar`, spans | extract, inject, context manager | used by the listener and by MQTT helpers |
| OTLP transport (otlp.py) | none | environment variables to an exporter | used by `setup_telemetry` |
| Alert relay (alert-mqtt-bridge/relay.py) | retained MQTT snapshot | webhook threads: validate, coalesce, notify, digest, snapshot | Grafana, MQTT, SMTP, Telegram |
| Version preparation (prepare_version.py) | a topic branch and its pull request | choose a base version, push, open | GitHub |
| Version ledger (release_state.py) | one JSON file on its own branch: counter, publication floor, plans by run | read, reserve, verify, consume | GitHub, by compare-and-swap |
| Release pipeline (release_versioned.py, release_control.py) | the plan a run works with | prepare, gate, supersede, reuse, promote, tag, draft, upload, publish | GitHub through `gh`; Actions starts, cancels and reruns it |
| Registry publication (publish_verified.py, verified_images.py) | none | copy images, resolve references | stable releases, a container registry |
| Native assembly (assemble_native_container.py, merge_oci_archives.py, release_provenance.py) | open archives, staging files | verify inputs, merge, detach, bind, publish | files of two native builds; release verifier of version_plan.py |
| Builders and policy checks (other scripts, workflows) | none | compare a tree with a policy, write archives | CI |
| Installer (update.sh, setup) | files, supervisors, `/data/rc.local` | install, migrate, link, restart | daemontools |

What is hard in it, and what makes each part correct:

- **Tracker.** Owner signals, replies to lookups that were computed earlier, errors,
  timeouts and the timer interleave on the GLib loop; delivery waits for the owner in
  a bounded, expiring queue. Correct means: a name is never attributed to a connection that
  did not hold it; a name that changes hands is invalidated exactly then; a batch is
  delivered once, in order, under a name of its sender; the queue's counts are exact;
  a lookup always ends and a waiting batch always leaves.
- **Subscriptions.** They choose which of several names of one connection a batch is
  published under, at the time it is delivered.
- **Exporters.** Two books of who published a series, with different rules for
  unavailable values and series shared by services whose names end alike. Correct means:
  no reading outlives its publisher, none is removed by another one.
- **Threads.** GLib ignores `quit()` before `run()`; a handler may block or may call
  `stop()` itself; several threads may stop at once. Correct means: one cleanup, never
  beside a live worker unless the deadline has passed; `stop()` returns; the worker ends.
- **Process lifecycle.** Each of some ten acquisitions may fail, and a signal may raise
  `SystemExit` before, after and inside every release. Correct means: what was acquired is
  released, the providers after the worker that records into them, and the process ends.
- **Relay.** Concurrent webhook threads with partial effects, retried by Grafana. Correct
  means: the answer tells what was done; a request Grafana still waits for does not put an
  older snapshot in the place of a newer one; nothing is repeated for ever because a channel is down.
- **Ledger and pipeline.** Runs overlap, are rerun from the start or from the failed job,
  and lose the answers of requests that took effect. Correct means: a number or tag is
  reserved once and spent once, in order; what is public is complete, backed by a
  reservation and tagged at its source; publication never downgrades.
- **Assembly.** Inputs and output names are files others may change. Correct means: what
  has the output's name passes the release verifier and its evidence is about it; who succeeds has
  the whole set of files, who fails leaves only what it could not remove, and files of two are not
  mixed by publishing; a rollback removes no file but the one it found to be its own.
- **Installer.** Interrupted shell commands. Not modelled.

`PROJECT.json` lists the hazards of the code at their lines with the properties about
each, and the components with what is left out.

## Modules

| Module | Models | Extends |
|---|---|---|
| `Subscriptions` | the listener's subscriptions, match rules and choice of a name | |
| `OwnerTracker` | the tracker, its two callbacks, the daemon, the wire and the clock | `Subscriptions` |
| `SignalPath` | the two exporters, driven by the tracker's callbacks | `OwnerTracker` |
| `ListenerLifecycle` | callers of `start`/`run`/`stop`, the worker and the GLib loop | |
| `ServiceLifecycle` | `setup_telemetry`, `ObservabilityService`, signals; the main thread is a caller of the listener | `ListenerLifecycle` |
| `AlertRelay` | webhook threads, Grafana, the MQTT connection | |
| `GitHubClient` | what a `gh` process reports, and what the client makes of it | |
| `VersionChoice` | the choice of a base version, as operators | |
| `ReleaseLedger` | the ledger, its decisions and its compare-and-swap | |
| `ReleasePipeline` | workflow runs from trigger to publication | the three above |
| `ReleaseNumbers` | abstract: what is promised about build numbers | |
| `RegistryPublication` | image copies and references of stable releases | `ReleasePipeline` |
| `OciArchive` | archives and their checks, as operators | |
| `NativeAssembly` | assemblers, their inputs and output names | `OciArchive` |
| `MCOwnerTracker`, `MCSignalPath`, `MCAlertRelay`, `MCRelease`, `MCNativeAssembly` | values of constants for TLC | |
| `OwnerTrackerProofs`, `OwnerBeliefProofs` | theorems about the tracker | `OwnerTracker` |
| `SignalPathProofs` | theorems about the exporters | `SignalPath`, the two above |
| `LifecycleProofs` | theorems about the threads and the process | `ServiceLifecycle` |
| `AlertRelayProofs` | theorems about the relay | `AlertRelay` |
| `ReleaseProofs` | theorems about the ledger and the pipeline | `ReleasePipeline` |
| `PublicationProofs` | theorems about what becomes public | `RegistryPublication`, `ReleaseProofs` |
| `NativeAssemblyProofs` | theorems about the assembly | `NativeAssembly` |

`OwnerTracker` and `SignalPath` compose three parts of the program in the way the code
does: the tracker's handler computes `calls'`, the deliveries and invalidations it makes,
and `PathNext` conjoins `ExportOtel(calls')` and `ExportProm(calls')`, because the
callbacks run inside the handler, on the same thread, before it returns.
`ServiceLifecycle` adds the main thread's own state to `ListenerLifecycle` and calls its
`Start` and `Stop` steps; `RegistryPublication` runs beside `ReleasePipeline` and reads its
releases and tags.

### How the model corresponds to the code

- **One action is one GLib handler.** All handlers run to completion on the one worker
  thread, so nothing interleaves inside one. `Receive` dispatches a message of the wire to
  `OnItems` (`_message_filter`, `submit`), `OnChanged` (`_name_owner_changed`), `OnListed`,
  `OnFound` or `OnFailed` (the closures of `_call`). `Tick` is `_tick`, `Timeout` is
  libdbus giving up on a call, `Stop` is `_remove_subscriptions`.
- **The wire** is the sequence of messages the daemon has sent to this connection and the
  loop has not dispatched. The daemon answers a call in one step with what it knows then
  (`Answer`) and appends a `NameOwnerChanged` at each `Rename`. With
  `RepliesInOrder` dispatch follows the wire; without it a reply may overtake or trail
  signals, which is weaker than libdbus promises and shows what the
  `_changed` set is worth on its own.
- **`pending`** is a set of batches ordered by `id`, their order of arrival; the deque is
  never reordered. `Evict`, `Fresh` and `Ready` are the three ways a batch is taken out.
- **`services` and `owners`** map absent keys to `NoConn` and `{}`.
- **`_requests`** is `listing` and `asked`. `stop()` empties it and advances `_epoch`;
  as nothing restarts a tracker, `closed` stands for both.
- **Time** is relative. Ages, `sinceRefresh` and `waited` stop counting at the threshold
  the code compares them with, so there is no bound on time. `Advance` does not pass a call's
  deadline.
- **Names** are positive numbers: beyond equality the code takes `min()` and `sorted()` of
  names only. The first component of a name, `com.victronenergy.`, is taken for granted.
- **Payloads** are functions from paths to `"number"`, `"unavailable"` or `"no value"`; the
  number itself does not matter to any property. A path with its labels stands for one
  gauge, a series is a serial label and a path. A reading is the batch it came from and
  the connection that sent it.
- **`call_async` raising** (`CallsMayRaise`): the connection is down, so all calls of a
  loop after the first that raises raise too (`AskFor`).
- **Listener threads.** A section under `_lifecycle_lock` is an action. The loop is `none`,
  `made`, `running`, `quitting` or `done`; `Quit` only acts on a running one. `MaxPolls`
  stands for the hundred polls of `STOP_TIMEOUT_SECONDS / STOP_POLL_SECONDS`.
  `_remove_subscriptions` is `Cleanup` there, a step of its own after the wait, and it is
  `OwnerTracker.Stop` in the other model.
- **`ServiceLifecycle`.** `at` is the main thread's position, `stack` the `ExitStack` in force,
  `fields` the service's attributes, `acquired` what is open. A failure or a signal takes
  `at` to the clause that catches it (`Handler`). `Closed` says what a shutdown closes with
  it. A signal inside a release cuts that release off and the stack goes on, as `ExitStack`
  does; `excused` remembers what was cut off.
- **`AlertRelay`.** A step is what a thread does up to its next network call. Alerts are
  records with the fields that coalescing and message building look at. Notifications are
  handed to the MQTT client without waiting (QoS 0), a retained message is lost while the
  client is offline. Grafana posts what is current of a group, one request per group at a
  time while it waits, and repeats after a 5xx or when the connection is closed. It may give up on
  a request, whose thread goes on (`abandoned`). A delivery that fails is logged (`Deliver`); a reply
  that a client library cannot read is not one of the errors that are caught (`UnreadableReply`): it is
  answered 500 or ends the thread without an answer, at whatever channel it comes.
- **`GitHubClient`.** An `Attempt` is what one `gh` process leaves behind; `Possible` is what
  GitHub and the transport can produce; `Reads` and `Creates` are the answers a caller can get.
  All other writes have one of three fates: confirmed, unconfirmed, refused.
- **`ReleasePipeline`.** A step is the code between two points at which the repository can
  change. A run has a stage `pc`, its `job`, the `plan` it carries and the ledger it has
  `seen`; `Fail` may end it anywhere, `Rerun` starts it anew, `RerunFailed` keeps its package.
  `slots` is 1 (the concurrency group serialises runs) or 2, which is more than Actions allows and
  shows which properties the ledger gives by itself. The blob SHA of the compare-and-swap is the
  content read, as equal contents have equal blobs. `EmptyLedger` is the absent file. There is at most
  one topic branch at a time, which the two bases of the run would imply anyway.
- **`RegistryPublication`.** One step per `skopeo copy`, with the same three fates.
- **`OciArchive` and `NativeAssembly`.** An archive is a set of manifests and the digests
  whose blobs are absent; a digest stands for its bytes. `NativeArchive` is `Archive.__init__`,
  `VerifiedArchive` the release's verifier: two separate programs that have to agree. A file that is
  replaced leaves the open one alone; one that is written to is noticed by `unchanged`. The rollback
  goes name by name: a look at the file that has the name (`LookAtName`), then its removal
  (`RemoveName`), each of which may fail and is then passed over (`stuck`), and `Kill` may come between
  any two of them. Inline there is one removal without a look (`Discard`).

### Left out on purpose

Logging, tracing spans and the latency histogram; the drop counter and its rate-limited
warning; senders that are not unique names (a bus always stamps one); an exception inside
`_process_values` (each value is converted by code that does not raise for D-Bus types); the
collection thread's reads in the middle of a batch; a D-Bus rule that a failing `subscribe_global`
leaves on the bus.

`ServiceLifecycle`: a signal between an acquisition and the next statement, which registers it;
what a shutdown that raises half-way leaves open (a call counts as the release).

`AlertRelay`: texts, values and times; the health endpoint; TLS settings.

`ReleasePipeline`: signatures and attestations of files, release notes, repository settings and
permissions, time, and everything that only compares files with a policy, which appears as a
guard or as a step that may fail. Files are numbers.

`NativeAssembly`: layers and diff IDs, tar syntax, limits of size and number, and annotations other
than an attestation's reference. Outside of what is modelled the merger and the release verifier do
differ: the verifier limits a graph to 1024 manifests, and looks at `artifactType` in a subject's
descriptor.

### Not modelled

- **Correlation** and **OTLP transport**: identifiers and headers are encoded and decoded, options
  are computed from the environment. There is one `ContextVar` and no other state; a model would
  repeat the text processing.
- **Installer**: its hazards are those of shell commands that are interrupted, on a file system and
  supervisors that the repository does not describe.
- **Metric routing**: the table from paths to gauges is data, and the energy counters are
  arithmetic on one value.
- **Builders, fuzzing, workflow contracts, runner preflight, change scope, receipts**: sequential
  programs without state between calls.

## Runs

`Conn` is symmetric wherever a run has no liveness property. Two connections and one or
two names are enough for what the properties tell apart: a name moves from one connection to
another and back, or one connection holds two names. Two or three messages on the wire let
two changes and an answer be in flight at once. Delays are scaled so that every order of
expiry, retry and timeout occurs; `retry_timing` uses the real seconds.

| Run | Instance | Checks | Shows |
|---|---|---|---|
| `owners_ordered` | 2 names, 2 connections, wire of 3, calls may raise | `TypeOK`, `InverseMaps`, `BelievedIsTrue`, `InvalidatedWhenLost` | with the daemon's order, what the tracker believes was true when the daemon sent what has been read |
| `owners_reordered` | same, replies in any order | `NeverStuckRefreshing`, `SettledBelief`, `StoppedIsInert` | the `_changed` set alone makes a late reply harmless once the signals are read |
| `queue` | 1 name, queue of 2 batches and 3 items, payloads of 1, 2 and 4 items, 3 batches, fairness | `QueueAccounted`, `OnePlaceEach`, `LeavesForAReason`, `QueueDrains`, `RefreshEnds` | both limits, the oversized batch, eviction of several; no batch and no refresh stays for ever |
| `retry_timing` | real delays | `RetriedWhileFresh` | **violated**, see below |
| `signal_path` | 2 services that share a serial label, subscribed to by name before the first batch, 2 gauges of which one is selected, items with and without values | `SamplesAreOwned`, `NoSupersededReading`, `ExportersAgree`, `LostOnlyByItsPublisher`, `NothingWaitsForAKnownName`, `DeliveredUnderOwnName`, `NewestReadingWins` | what the exporters show follows the owners; a batch waits only while its sender has no eligible name; replays never overwrite newer readings |
| `alias_stale` | one connection with two names | `UnavailableRemoves` | **violated** |
| `late_subscription` | subscriptions at any time | `NewestReadingWins` | **violated** |
| `lifecycle` | the main thread, another caller and the worker; 2 signals; fairness | `ReleasedAtExit`, `CleanupIsExclusive`, `StopReturns`, `StopEndsWorker`, `RunEnds`, `ProvidersOutliveWorker`, `ServiceEnds` | a failure or a signal at every step leaves nothing open; one cleanup, not beside a live worker; the deadline works from every thread; repeated `quit()` covers the start of the loop; the process ends even if a handler does not |
| `relay` | 2 webhook threads, 2 groups, batches with a shared data source, a message that cannot be built and an invalid alert; fairness | `AnswerTellsEffects`, `NoOlderSnapshot`, `GroupsSettle` | an answer tells what was done; a request Grafana still waits for leaves the snapshot no older than it found it, beside requests that were given up; a dead channel does not make Grafana repeat a group, once it waits for answers and replies can be read |
| `best_effort` | the same with 1 group | `BestEffort` | **violated** |
| `release` | 3 runs, 2 commits, 2 bases, 2 workflow contents, 2 files, 2 images; 3 attempts alone or 2 overlapping | `NumbersUnique`, `PublishedIsBacked`, `LatestIsComplete`, `LedgerDurable`, `RefinesNumbers`, `NoDowngrade`, `FinalIsClosed` | the ledger's compare-and-swap and the guards before each write are enough against lost answers, reruns and overlaps |
| `assembly` | 2 assemblers of one set of names, 6 x 4 packages, 1 interference, inline and detached | `OutputVerifies`, `EvidenceIsTrue`, `SetIsWhole`, `OthersKeepTheirNames` | what the merger accepts the release verifier accepts; evidence survives the second opening of the inputs; a rollback that fails or is cut short mixes no sets by publishing and takes no name it did not find to be its own |

The counters that would make a model infinite are bounded by constants, which bound only the
environment: `MaxWire` (messages in flight), `MaxBatches` (batches emitted), `MaxSignals`
(signals: one that interrupts and one during the cleanup it started), `Editions` (changes of an
alert group), `Budget` (attempts of all runs together; three alone reach
candidate, promotion and one rerun or one newer package, two overlapping reach every conflict of two
writers), `Requests` (channels dispatched by hand), `MaxChanges` (interferences with files: one is enough
to break each mutant). `MaxPolls` is 1: `Join` distinguishes only polls that are left and none, and
`JoinAfterOneQuit` is caught with one. `NumberLimit` is small so that the limit on build numbers is met.

Deadlock is checked in every run except three. In `lifecycle` the process exits, in `release` the
attempts are spent and in `assembly` every assembler ends. Elsewhere something can always happen:
time advances, or the MQTT connection comes and goes.

`RefinesNumbers` is a refinement: `ReleasePipeline` implements `ReleaseNumbers!Promise` under the
mapping from the ledger's plans to numbers, its floor, and the numbers of public releases. The
promise knows no GitHub: a run gets one number above all before it, a number is spent once, in
increasing order, and only spent numbers reach the public.

### Disagreements with the documentation

- `retry_timing`. `dbus_owners.py:161` says that the retry comes "while queued batches
  are still fresh". A call has five seconds to time out and the retry waits five more, so a
  refresh whose first call took a second, and whose second one timed out, is retried
  after the ten seconds that a batch may wait.
- `alias_stale`. README.md:52-56 says that an unavailable value removes the previous sample and
  that no path publishes a stale reading. A connection that acquires a lexically smaller
  second name is published under that one from then on; the series of the first name stays at
  its last value and the unavailable value does not reach it.
- `late_subscription`. README.md:195 says that waiting signals are replayed in arrival order
  once the service is known. A subscription made later makes the service eligible but
  replays nothing, so the next batch overtakes those that wait, and they are replayed over it.
- `best_effort`. relay.py:77 and 153 call the channels "Best-effort.". A reply that `http.client`
  cannot read (a malformed status line, a body cut short) raises `HTTPException`, which neither line 165
  nor line 381 catches: the thread ends without an answer, the remaining chats and the snapshot are
  skipped, and Grafana repeats the group, whose notifications and email are sent again each time. A
  redirect of Telegram's to no URL and a mail server's challenge that is not base64 raise `ValueError`
  past the channels and are answered 500.

### What the runs show besides

- `AlertRelay!Buildable`: the summary of a batch of one alert becomes the subject of the email, and a
  subject of two lines raises outside of the `try` of `send_email`. The webhook is answered 500 at
  every repetition, Telegram is not tried and the snapshot is not published. `GroupsSettle` excludes
  these batches (`Sendable`) and `AnswerTellsEffects` says what a 500 leaves done.
- `NoOlderSnapshot` is about requests that Grafana has not given up on. When it has given up on one and
  posts the next edition, the thread of the first may publish last (relay.py:336): late subscribers
  then find older states until the group changes or is repeated, although the comment at line 325
  calls the retained message the "snapshot of current alert states".
- `AnswerTellsEffects` says nothing of a request that ends without an answer.
- `SetIsWhole` has three exceptions, which are real: a detached rollback that cannot remove a file leaves
  it (line 211 suppresses the error); one that is killed leaves what it had not come to; and as soon as it
  has removed the output's name another assembler can link its own output beside a sidecar or evidence
  that is still to be withdrawn, for good if the first one is killed there.
- `OthersKeepTheirNames` lets a rollback remove another program's file in one case, which is real:
  between `samestat` (assemble_native_container.py:212) and `unlink` (213) that program can rename its
  file over the name, and it is that file which is removed. The docstring at line 193 says "without
  overwriting or deleting foreign files".
- `ReleasedAtExit` has its excuses for real windows of `__main__.py`: a signal after `start()` has
  returned and before `lifespan()` enters its `try`, between the return of `setup_telemetry` and the
  assignment, and before `stop()` has filled its stack.
- `CreateBranch`: the first reservation makes the ledger's branch before it writes the file. If that
  write fails, every later run finds a branch without a file and refuses to continue, by design.
- `NoDowngrade` and `FinalIsClosed` hold while runs do not overlap (`slots = 1`); the
  others hold with overlaps as well.
- `NewestReadingWins` holds for one D-Bus interface, and its theorem says so. With explicit
  subscriptions to two interfaces, for two names that share a serial label, a batch of the one may wait
  for its name while a newer one of the other is delivered, and is replayed over it when the connection
  acquires that name. The program itself subscribes to one interface only.
- Inline assembly removes what has the output's name when a later step fails, and does not look
  whose it is; only detached publication promises that foreign files survive.

### Fairness

`OwnerTracker!Fairness`: weak fairness of `Tick` (a GLib timer of one second), of the
dispatch of what has arrived, of a call's timeout (libdbus arms it with every
call), and of the clock. Nothing is assumed of the daemon (`Answer`), of services or of the
owner of the listener.

`ListenerLifecycle!Fairness`: the steps of a thread inside `stop()` and `run()` are weakly fair
(threads are scheduled), those of the worker outside of handlers strongly fair: while GLib
keeps dispatching, its `run()` looks at its flag between iterations, and an
iteration is finite. Nothing makes a handler return: `StopReturns` holds without that, and
`StopEndsWorker` and `RunEnds` state it as their hypothesis `HandlersReturn`, strongly, because a
handler may call `stop()` a number of times first. `ServiceSpec` adds that the main thread
continues: its steps end or raise, and each wait it makes has a deadline.

`AlertRelay!Fairness`: threads run and each of their calls has a timeout (the sockets of SMTP, HTTP and
the request all have one); Grafana repeats what was not delivered, strongly, as it competes with
other groups for a thread. The channels and the MQTT connection may fail for ever. `GroupsSettle` has
two hypotheses, both of the form "from some point on": Grafana does not give up (`Patience`; each call
has a timeout, so a long enough patience exists) and replies can be read (`RepliesAreReadable`; without
it `BestEffort` is violated).

The release and assembly models state no liveness: a run may always fail, by design.

## Proofs

Every safety invariant and every action property of the passing runs is a theorem, for any
values of the constants that meet the named `ASSUME`s; so is the refinement of `ReleaseNumbers`. What
is assumed of constants is that sets of names, runs and commits are numbers, that marks such as
`NoConn`, `NoPlan` or `Foreign` are not elements of the sets they stand beside, that limits are natural
numbers and the set of runs finite, and that what is read from outside has the shape a parser leaves it
(`PayloadsHoldItems`, `PackagesAssumption`). None of them bounds a set or a counter. Hypotheses
beyond these are part of the theorem: `RepliesInOrder`, `~SubscribeLate`, one interface;
`NoDowngrade` and `FinalIsClosed` have `slots = 1` in their statements, and `NoOlderSnapshot` speaks of
requests that are not `abandoned`.

In each module the invariant comes first, as a conjunction of named parts, then lemmas about the
operators, then one lemma per step and part, then the theorems.

**Tracker** (`OwnerTrackerProofs`, `OwnerBeliefProofs`). `TypeOK` is inductive. The others rest on it:

- `InverseMaps` and `DeliveredUnderOwnName` need one another: what a replay delivers is chosen among
  `owners[c]`, which are names of `c` in `services` only if the maps are inverse. `InvalidatedWhenLost`
  follows from both.
- `NeverStuckRefreshing` and `StoppedIsInert` are parts of `RequestsInv` and `LifeInv`, which add that
  each reply on the wire answers one outstanding request, that `ListNames` is outstanding alone, and
  that nothing happens before the first subscription.
- `SettledBelief` needs to know that the last change of a name on the wire leads to the daemon's owner
  and that a reply that still counts agrees with it, unless a change follows (`LastIsCurrent`,
  `FoundIsCurrent`). This does not use the order of replies.
- `BelievedIsTrue` does. `HeldAt(w, h, i, n, c)` says that `c` held `n` when the message at place `i`
  of the wire was sent: the next change of `n` from there on has `c` as its old owner, or there is none
  and the daemon has `c`. All messages are `Truthful` in this sense at their own place, and what the
  tracker believes is held at the first place.
- `NothingWaitsForAKnownName` is inductive with the types as long as nobody subscribes late.
- `OnePlaceEach` is strengthened to `Placed`: all of the wire is younger than all of the queue and of
  the deliveries, and the wire is sorted.
- `QueueAccounted` and `LeavesForAReason` are about sums over sets. The recursive function behind
  `MapThenSumSet` cannot be reasoned about by the library's induction theorems, which take an operator.
  The lemmas `AddsExists`, `AddsUnique`, `ItemsOneLess` and `ItemsLeft` do the induction by a least
  counterexample instead (`LeastProperties`, well-founded minimum), and give what is needed: the sum
  over a set is a number, and taking an element away takes away its size.

**Exporters** (`SignalPathProofs`). `PathIsTracker`: the path's steps are the tracker's, so all of the
above holds there. `NoSupersededReading` and `SamplesAreOwned` are inductive together: a handler either
leaves the owner of a series' publisher alone, or invalidates that publisher in the same step, which is
`InvalidatedWhenLost`, or overwrites the series with a delivery, whose owner is then the one in
`services` by `DeliveredUnderOwnName`. `ExportersAgree` follows from a relation `Alike` of the two books:
they name the same publisher wherever the OpenTelemetry one names any. `LostOnlyByItsPublisher` follows
from the choice of the newest write. `NewestReadingWins` needs `Behind`: what a series shows is older than
all that waits of its sender and all that is on the wire. A delivery is of one of these (`Deliveries`),
and behind it nothing of its sender waits, by `NothingWaitsForAKnownName`.

**Threads and process** (`LifecycleProofs`). `ListenerInv`: whoever stops has made the request, one
thread at most owns the cleanup, and one that waits for no worker stopped the listener before any was
started. `ServiceInv` adds the process: the stack and the fields at each position (`Phase`), every open
resource has an owner on the stack or in the fields, directly or through the provider that took it, or
an excuse (`Backed`), and so have the worker and the subscriptions (`Watched`). `ReleasedAtExit`,
`ProvidersOutliveWorker` and `CleanupIsExclusive` (for the listener alone and under the main thread's
interrupts) follow.

**Relay** (`AlertRelayProofs`). `Progress` says what a request has had for effects at each stage,
`Serves` that of the requests of a group Grafana waits for the newest (`Newest`): a thread that was not
given up on has no newer one beside it and finds no newer snapshot. `Checks`, the table of refusals, is unfolded, as its order decides the answer.

**Ledger and pipeline** (`ReleaseProofs`). `LedgerInv` says what a run knows from the ledger it has
read (`Knows`): at `allot` its plan has the next number of *that* ledger, so the compare-and-swap makes it
new in the present one; from `tag` on the plan is reserved and at or below the floor. `PublicationInv` says
what stands behind each tag and release (`ReleaseOK`, `Publishing`, `OneEach`). `NumbersUnique`,
`LedgerDurable` and `PublishedIsBacked` follow, and `NumbersAreRefined` maps each step to `Allocate`,
`Spend`, `Announce` of the promise or a stutter.

**What becomes public** (`PublicationProofs`). While runs do not overlap, `SerialInv`: the run that is
about to publish is alone, has the newest number, and the final version of its base is not there. The
registry only reads the pipeline (`SystemIsPipeline`), and `latest` is copied only after all versions are
(`Copied`), whichever copy fails.

**Assembly** (`NativeAssemblyProofs`). `Progress` says what an assembler knows of its inputs at each
step, `Faithful` that a file is what its process made. Of the processes that do not withdraw
(`Stays`), one at most holds any name: the one that got the output's (`Kept`, `Exclusive`). `Cleared` says
that a rollback leaves behind only what is `stuck`, and `Pending` that between its look at a name and the
removal nobody else can get that name, but for other programs, nor relies on it; without `Pending` a
removal could take the output of a process that stays. `SetIsWhole` and `OthersKeepTheirNames` follow.
`OutputVerifies` compares two operators, the merger's check of its
inputs and the verifier's check of the result.

Only model-checked: liveness (`QueueDrains`, `RefreshEnds`, `StopReturns`, `StopEndsWorker`, `RunEnds`,
`ServiceEnds`, `GroupsSettle`), as the prover reasons about neither fairness nor `ENABLED`. The four
disagreements above are counterexamples. What `VersionChoice` returns is not stated by itself;
of `GitHubClient` two lemmas of `ReleaseProofs` say that an answer "absent" or "created" is never wrong.

## Plan

What remains:

1. `VersionChoice`: the chosen base is not older than the current one, is not taken, and is not below a
   taken one unless it was asked for.
2. Prometheus: `NewestReadingWins` is stated of the OpenTelemetry samples; the children need a variant,
   as they keep their publisher through unavailable values.
3. The safety halves of the liveness properties: what a waiting batch and a stopping thread have
   enabled, as invariants.
