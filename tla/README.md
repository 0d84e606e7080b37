# Avahi Manager in TLA+

Avahi Manager is a web console for one host's `avahi-daemon`. An unprivileged
web process (`avahi-manager serve`) talks to the browser and keeps accounts,
sessions, audit and a copy of the managed baseline in SQLite; a root helper
(`avahi-manager helper`) is the only writer of `/etc/avahi`, and asks systemd
to reload or restart the daemon. These modules model the parts of it that are
hard to test: what happens between two steps of a transaction when a process
dies, a call fails, or somebody else edits the same files; what the web process
still knows when an answer is lost; which changes, log lines and services reach
an open browser; who gets in, and what is written down about it.

## 1. Inventory

| Part (source) | State it keeps | Operations | What is hard | What makes it correct |
| --- | --- | --- | --- | --- |
| Configuration store (`internal/config/apply.go`, `baseline.go`, `store.go`) | `/etc/avahi`, snapshot directories, `baseline.json`, `pending.json`, writer lock | Apply, Restore, Snapshot, AcceptDisk, Baseline, DeleteSnapshot, Recover, prune | death at any step, I/O errors with and without effect, external edits, rollback that fails | disk and baseline change together or not at all; the journal can always be acted upon; the baseline is never lost; answers are true |
| Helper (`internal/helper/server.go`, `protocol.go`, `client.go`) | one request mutex; the store | RPCs, startup recovery, shutdown | lifecycle requests against transactions, a restart with a journal | nothing is served before recovery; no stop inside a transaction |
| systemd and Avahi control (`internal/systemd/manager.go`, `internal/avahi/client.go`) | none (systemd's jobs) | start, stop, restart, reload, enable, disable, health | socket activation, jobs that outlive their deadline | the daemon runs what is on disk; stop really stops |
| Watcher (`internal/config/watch.go`) | fsnotify watches, one timer | debounce, re-attach, notify | lost or late events, replaced directories | every change is announced in the end |
| Event streams (`internal/api/events.go`, `routes.go` discoveryEvents) | subscriber channels of capacity one, 16 stream slots | subscribe, notify, write, unsubscribe | coalescing, a blocked handler, a slow browser | the last state reaches every open stream; a stream ends when its request does |
| API mutations (`internal/api/routes.go`, `server.go`, `internal/database/baseline.go`) | server mutex, baseline copy in SQLite | mutate, reconcile, read, bootstrap | lost answers, timeouts shorter than the helper's work, reads outside the mutex | the copy follows the helper's baseline; drift is never accepted by itself |
| Discovery (`internal/avahi/browser.go`) | service map, generations, job and result queues, subscribers | browse, resolve, upsert, remove, reset, notify | late results, full queues, reconnects | a removed service stays removed; subscribers end with the current state |
| Access (`internal/auth/auth.go`, `internal/api/server.go` audit and security) | attempts per address, two verification slots, sessions and audit rows in SQLite | allow, verify, insert, expire, logout, audit, check | concurrent attempts at the limit, every way out of a login, death between action and record | the attempt limit and the session cap hold; slots come back; nothing is done unrecorded; a logout is final |
| Log reader and streams (`internal/journal/reader.go`, `internal/api/logs.go`) | per request: a journalctl process, a pipe, a goroutine, a channel of 100, one of the 16 slots | page, follow, scan, emit, cancel, wait, end | a reader blocked on a full channel, an exit code that means two things, entries and end arriving together | lines in order and without a gap; no process outlives its request; a failed log is not an empty one |
| Database (`internal/database/sqlite.go`, `baseline.go`) | audit, sessions, managed files, drift, settings, jobs | statements and transactions | death between two transactions | each is one step of the component that issues it |
| Console (`frontend/src/ConsoleApp.tsx`, `useResource.ts`) | configuration shown, generation, dirty forms, operation flag | refresh, events, perform, sign out | a late response after a newer event | nothing of another session is shown; unsaved input survives |
| File formats (`internal/config/daemon.go`, `hosts.go`, `service.go`) | none | parse, validate, print | sequential | unit tests |
| Host inspection (`internal/network`, `internal/detect`) | none | probe | stateless | - |
| Entry points (`cmd/avahi-manager`) | none | flags, start-up order, shutdown | reconciliation before listening, whose failure is only logged | part of `Reconcile` |
| Packaging (`packaging/`) | none | units, install script | a helper that exits is restarted | part of `ConfigStore` |

How they interact: the browser calls the API; the API takes its own mutex, calls
the helper over a Unix socket and then copies the helper's baseline into SQLite;
the helper takes the request mutex, then the store's mutex; the store writes
files and asks systemd for a job through D-Bus; the watcher sees the files change
and notifies every event stream, which reads the configuration through the
helper again; Avahi's D-Bus signals drive discovery, which has streams of its own;
a log stream reads a journalctl process. All streams share one table of slots.

## 2. The modules

| Module | What it is |
| --- | --- |
| `AtomicConfig` | What Safe Apply promises, with no journal, snapshot or process in sight: one stable configuration, one accepted baseline, a change that commits or is undone. |
| `ConfigStore` | The store itself: one action per step between which a crash or an edit can fall. Refines `AtomicConfig`. |
| `MCConfigStore` | The instance TLC checks. |
| `ConfigStoreProofs` | The inductive invariant `StoreInv` and the theorems that follow from it alone. |
| `AtomicityProofs` | What is on the disk at each step (`DiskInv`), what an answer means (`AnswerInv`), the refinement of `AtomicConfig`, and retention. |
| `ManagedAvahi` | `ConfigStore` composed with the daemon it configures: both units, systemd's jobs, lifecycle requests, lookups. |
| `MCManagedAvahi` | Its instance, with contents the daemon does not start with. |
| `ManagedProofs` | The composition keeps the store's invariants; mutual exclusion, stop, and what the daemon has read. |
| `ConfigEvents` | How a change on disk reaches the open browsers: watcher, subscriber channels, stream handlers, and the mutations that notify too. |
| `MCConfigEvents` | Its instance. |
| `ConfigEventsProofs` | No change is lost, for every number of streams. |
| `Discovery` | The cache of announced services: browse loop, resolver workers, queues, reconnects, subscribers. |
| `MCDiscovery` | Its instance. |
| `DiscoveryProofs` | Late results, slow streams, missed services and limits, for every set of services. |
| `Reconcile` | The web process's copy of the baseline against the helper's: mutations, lost answers, abandoned calls, deaths of either process. |
| `MCReconcile` | Its instance. |
| `ReconcileProofs` | What the copy may hold, for every number of requests, versions and faults. |
| `Access` | Logins, sessions, logout, and the audit trail around every request. |
| `MCAccess` | Its instance. |
| `AccessProofs` | Limits, slots and the audit trail, for every number of requests and every limit. |
| `LogStream` | Log pages and log streams: handler, reader, journalctl, pipe and channel. |
| `MCLogStream` | Its instance. |
| `LogStreamProofs` | Order, honesty and no orphans, for every number of streams and every capacity. |

`ManagedAvahi` EXTENDS `ConfigStore` and adds to its actions. `Reconcile` sees the
store as the promise `AtomicConfig` makes, with the one detail that matters to a
reader, that the baseline cannot be read while a journal exists; that the store
keeps this promise is the refinement. `ConfigEvents` sees the store only as
somebody who changes files, `Access` an action only as something that happens or
not, and `Discovery` and `LogStream` share nothing with them but the stream
slots: no state of theirs feeds back into the store, and a product would multiply
the states without adding a step either of them could notice.

### ConfigStore

`disk` is the managed part of `/etc/avahi`, a function from paths to contents; a
content stands for data, mode and owner together, because the code compares the
three together. A revision digests an image, so it is modelled by the image.
`dirs` and `saved` are the snapshot directories: a directory is `"torn"` from
`Mkdir` until `manifest.json` is written, and from the first file `RemoveAll`
deletes until the directory is gone, because `loadSnapshot` fails on it then.
`baseline` and `pending` are `baseline.json` and `pending.json`.

The writer lock, the store's mutex and the helper's request mutex admit one
operation at a time, so there is one program counter `pc` and one record `op` of
the running operation's locals. `pc` moves in the order of the code:

    apply    mkdir, fill, recheck, journal, stage, swap, control, health,
             mkdir, fill, point, clear, prune, unlink
    recover  rollback, stage, swap, control, health, point, clear
    others   mkdir, fill, point and/or prune, unlink

`replace` is `Stage` (every file written to a temporary name and synced; the disk
does not change), one `Swap` per file in the code's order (writes by path, then
removals) and `Sync`. An I/O step has a failing twin (`...Fails`), with and
without its effect where the code's order of calls allows both: `atomicFile`
fails before its rename or after it. `Failed` is what the code does with an
error at that point: answer it before the journal is written, roll back after,
and stop during a rollback. A rollback that fails ends the helper when it is the
start-up's (`Serve` returns the error), and leaves it serving, with the journal
in place, when it is a request's.

`Crash` drops the locals and keeps the files; systemd restarts the helper, whose
`Start` recovers first. `Edit` is anything else that writes the directory, at any
moment; `touched` remembers which files were edited since the operation's last
read of the disk and is only read by the properties.

Abstracted: an image is read in one step (the code reads file after file); the
two size limits and the file formats are one predicate, `ValidateImage`; the
durability of a rename before its directory sync is not modelled (a crash is the
death of the process, not of the machine); requests that are refused change
nothing and are no actions.

### ManagedAvahi

`service` is the state of avahi-daemon.service (`inactive`, `activating`,
`active`), `socket` whether avahi-daemon.socket is active, so that a lookup
starts the service, and `loaded` the image the daemon last read: all of
`/etc/avahi` when it starts, only the service files when it reloads. A job
reported as failed may have done nothing, may have finished (only the deadline
passed) or, for a restart, may have left the daemon stopped.

The lifecycle requests run step by step, `ctl` being their program counter, and
hold the helper's mutex for all of it: `StartSocket`, `ServiceJob` and
`HealthWait` for start, restart and reload; `StopService`, `StopSocket`, `Look`
and `StopAgain` for stop, whose second and third jobs exist because a lookup can
start the service between the first two. `Activate` and `Activated` are that
lookup, at any moment the socket is on. `Outage` is systemctl on either unit, or
a crash of the daemon. `stopped` remembers what the last stop achieved (the
socket is off, and with no error anywhere the daemon is down) and is forgotten
when the helper or an administrator does anything else.

`StopHolds` has one exception, and it is the code's (`manager.go:112-114`): a
service that is still starting when stop looks, or whose state cannot be read
then, is not "active", so no second stop is issued (`overlooked`); the socket is
off all the same.

Abstracted: nobody else writes the files here, as edits are `ConfigStore`'s and
its runs'; and accepting a directory as the baseline does not touch the daemon,
so what it runs may then differ from the disk for reasons the helper has no part
in. Enable and disable change only what a boot starts, and no boot is modelled.

### ConfigEvents

The directory is a `version` that every change increments, and the two
directories that exist (`present`). The watcher (`wpc`) is `config.Watch`: after
its start and after every tick it attaches to `/etc/avahi`, then to `services`,
then announces. `queued` says whether an event of ours waits in the kernel; the
watcher takes what waits and sets the debounce timer again. The parent directory
is always watched, so a replaced `/etc/avahi` is always seen; a change in a
directory without a watch is not.

`pc[s]` is a handler: `hello` between its registration and the token it sends
itself, `slot` before `stream` takes one, `select` in its loop, `lock` and `read`
inside `value()` under the server's mutex, `write`, `leave` before its deferred
functions. `full` is the set of channels that hold a token; `notifyConfig` fills
all of them at once because it holds `configMu`. `held` and `shown` are versions:
the state read and the one last delivered. `standing` is the client and its
session; a token only ends an expired session's stream, a heartbeat also a
revoked one's, as in the code.

Abstracted: a state that could not be read is sent as an error payload and
counts as delivered; a heartbeat that finds nothing wrong changes nothing and is
no action; the debounce has no duration. A directory that changes more often
than every 150 ms, for ever, is never announced; the bounded changes of a run
come to an end. The watcher's end with the process is left out, as are a watch
that cannot be added and a kernel queue that overflows with files of others.

### Discovery

`announced` is what Avahi sees. `signals` are the D-Bus signals of the
connection not handled yet, in order; Avahi reports a type when its first service
appears and, from the moment a browser exists for a type, its services.
`generations` is the code's map with 0 for a missing key, and `services` the
cache, each entry with the generation it came from. `NewItem` shows the service
as pending before it finds the queue of jobs full, as the code does; any error
(`Stop`) ends the browse, throws its channels, types and generations away, and
the cache is emptied only when the workers are gone (`BrowseEnded`).

A stream's `channel` holds nothing, the `current` state or a `stale` one; every
change of the cache makes all older states stale, and `Notify` replaces what
waits, in one critical section. Sessions, slots and heartbeats of these streams
are the same code as in `ConfigEvents` and not repeated.

Abstracted: what the resolver answers is success or failure; times are left out.
D-Bus order and the resolver echoing the identity it was asked for are taken
from how the code uses them.

### Reconcile

A baseline is a version, its snapshot ID, drawn once and never again; the
directory holds a content, which stands for its revision. The helper is `disk`,
`baseline`, the `journal` of an open transaction and `run`, who waits for it and
how far it is: `Begin`, `Point`, then `Finish`, `Undo` or, when the rollback fails
and the helper goes on serving, `Stick`. One request at a time is inside its
mutex (`Free`).

The web process is one program counter per handler and the server's mutex `mu`.
A mutation waits for the helper (`call`), whatever came of that reads the
baseline back (`read`) and saves it (`save`); GET /config and GET /status
reconcile only when nothing was ever copied (`Setting`), then fetch, `Observe` the
difference and name the baseline they compared with. GET /status does all of it
without the mutex, as `routes.go:157` does. A hosts change reads before it locks.
`Boot` is the start-up, which holds the mutex, reconciles and may fail, after
which the process serves all the same.

What goes wrong: the client gives up at any wait (`GiveUp`: browser gone, 110
seconds, 10 seconds), and the call it abandoned may still begin later (`orphans`)
or go on if it had begun; the helper dies (`HelperRestarts`; recovery comes before
the first request it serves, so it is part of the step); the web process dies
(`Restart`); any database statement fails; another tool edits the directory.

`bypassed` remembers that GET /status has saved a baseline. The properties that
exclude it are exactly those its lock-free save can break (section 5).

Abstracted: SQLite's single connection makes a transaction a step. The tables
that are written but never read by a decision (`config_snapshots`,
`externally_modified`, `managed_revision`, `operation_jobs`) are left out. A
request arrives when it gets the mutex: waiting for it is arriving later.

### Access

A request happens once: `Arrive`, `Start` (the first audit row), `Check` (host,
origin, cookie, CSRF token, session), then a login, a logout or an action,
`Record` (the second row) and `Answer`. The token a login draws is called after
the request that drew it. The response waits in the buffer until its record is
written; the two 503s of `audit` are the outcomes `unavailable` and `incomplete`.

A login goes through `Allow`, which counts the attempt in the same critical
section as the check and before any password is looked at, `TakeSlot`, `Verify`,
`Commit` (one transaction: expired rows go, all but the newest go, the new one
comes) and `Clear`. Each of them has the way out the code has, and the slot comes
back on all of them. `counted` ties the counts to the requests they count, and
`guessed` remembers whose password was verified. Attempts and sessions expire at
any time; a crash empties what is in memory and keeps the database.

Abstracted: hashing says yes or no; whatever fails before its effect is one
failure.

### LogStream

A line is its number in what journalctl prints. Per request there is the handler
(`pc`), the reader (`reader`: a goroutine for a stream, a call for a page),
journalctl (`proc`), the pipe (`printed`, `scanned`), the channel of capacity
`Capacity` (`queue`), the reader's `result`, and what the browser was `sent` and
`told`. `Over` is the context of `exec.CommandContext`: browser gone, canceled, or
the reader giving up on a line it does not understand, is too long, or exceeds a
page. `Wait` returns only when journalctl has ended.

A stream's `select` takes an entry, the end, a heartbeat or the request's context,
whichever is ready: `SeeDone` may be chosen while entries wait, and these are not
sent, as in the code, so `InOrder` speaks of a prefix. A handler that leaves
cancels first and then waits for its reader (`leave`, `Left`), still in its slot.
`others` is the slots the streams of changes and of services hold.

Abstracted: what a line says is whether `Parse` takes it; a page's limit of bytes
is one of lines; heartbeats that find nothing wrong are no action.

## 3. What is checked

| Run | Instance | What it shows |
| --- | --- | --- |
| `StoreSafety` | 2 files, 2 contents, 4 snapshots, retention 2; any two of an I/O error, two crashes and an edit; contents symmetric; 2.8 million states | Types; recovery and the baseline always have their snapshots; retention keeps what it promises; write-ahead; true answers; the refinement of `AtomicConfig`. |
| `StoreOverwrite` | 2 snapshots, 1 edit and no failure | Expected violation: the documentation's promise that a save never overwrites another tool's edit. |
| `StoreRetention` | 5 snapshots, 1 crash | Expected violation: the retention test's assertion, after a crash inside `snapshot`. |
| `Managed` | 2 snapshots, 1 I/O error, 1 crash, 1 outage; one content of `avahi-daemon.conf` the daemon does not start with; 1.1 million states | Reload or restart as `ChangeAction` chooses is enough; lifecycle requests do not interrupt a transaction; a stop holds against lookups; a helper restarted with a journal recovers and serves if the configuration to go back to is runnable. |
| `EventsSharing` | 2 streams, 1 slot, 2 changes, 1 save; streams symmetric | No change is lost between watcher, channels and handlers, and slots hold. |
| `EventsDelivery` | 1 stream, 3 changes, 1 save, 1 watcher error | The watcher attaches in time; an open stream is shown the last change; a stream ends when its client or session does. |
| `EventsStart` | 1 stream, 1 change, 1 save | Expected violation: the test's "initial stream state". |
| `DiscoveryCache` | 4 services of 2 types, 2 workers, queue 2, results 1, 1 type, 2 services; 3 changes, 1 failure; 0.7 million states | Nothing old is shown, nothing is missed, streams end up to date, and the cache converges. |
| `Reconcile` | 2 requests besides the start-up, 2 contents, 2 versions, 1 abandoned call, 1 trouble (edit, death of the helper, death of the web process); requests and contents symmetric; 2.1 million states | The copy is one committed baseline, whatever is lost; drift is never denied without reason; a mutation answered with 200 is in the copy, and the copy does not go back, unless GET /status wrote beside it. |
| `ReconcileStatus` | The same without troubles | Expected violation: `mutate`'s promise, without that exception. |
| `Access` | 3 requests, 2 addresses, attempt limit 2, table limit 1, 2 slots, 1 session, 1 crash; requests and addresses symmetric; 0.4 million states | Attempt limit and slots under concurrency, the session cap, the audit trail, and logout. |
| `LogStreams` | 1 request, 2 slots, channel of 2, pages of 2, 4 lines | Order, no orphans, honest ends; requests end and lines arrive. |

Every property is one a bug of the code could break; PROJECT.json names for each
a variant of a definition (`...Unpinned`, `...Unlocked` and so on, kept next to
the definition they vary) with which TLC does find it violated.

The bounds. Two files are enough for a half-done `replace`, and one of them
needs a restart and the other a reload. Two contents and absence distinguish
before, after and a third party's edit. A save draws two snapshots, so four are
two saves, or a save on top of an accepted baseline, which is what a rollback has
to bring back, and a backup: the second one meets the first's baseline, the
retention limit of two, and the deletion or restore of an older snapshot; the
code's limit of 20 differs only in number. Two crashes let the second one fall
into the recovery from the first, and one I/O error meets every step, those of a
rollback included; `AnyTwo` asks for two misfortunes of any kind in any order. The
contents are interchangeable in `MCConfigStore` and `MCReconcile`, where nothing
tells them apart, so symmetry is sound there; it is not used in `MCManagedAvahi`,
where one of them does not start, nor in any run that checks liveness. The clock
runs forwards in the runs; the theorems, but for the one on backups, hold for any
clock.

In `Managed` one save, its snapshots, and a lifecycle request before, after or
waiting for it are all there is to interleave, as the mutex lets one in at a
time; one outage and any number of lookups fall between their steps.

Three changes are what a directory that is removed, comes back and is written to
takes; two streams with one slot contend for the slot, for the mutex, and for a
notification. In `DiscoveryCache` the limits are so small that each is reached:
three of the services have one type, so that a third one exceeds the limit of
services, and the fourth one the limit of types; a service that goes and comes
back before a worker has taken its job fills the queue.

In `Reconcile` two handlers and the start-up are enough for one to overtake
another between its read and its save, which two versions tell apart; the
abandoned call of a third is an orphan. In `Access` three requests from one
address exceed the limit of two, log in, log out and come late; two addresses
exceed the table, and two logins the cap of one session. One log request meets
the slots through `others`; four lines fill the channel of two, one in the
reader's hand, one in the pipe.

Deadlock is checked in the runs of the store, of the daemon and of discovery,
where somebody can always take a step. It is not in those of `ConfigEvents`:
when the bounded changes are used up and every handler is stuck in its first
send (section 5), nothing is left to happen. It is not in those of `Reconcile`,
`Access` and `LogStream` either, where the bounded requests come to an end. (That
no request of `Reconcile` waits for ever is half proved, half argued: nobody waits
for the mutex while he holds it, and a request has nine steps at most, section 4;
that each of them is taken rests on the deadline of every wait for the helper or
for the database, which is `GiveUp`.)

Fairness (`ManagedFairSpec`). The helper's own code keeps running and systemd
restarts it (`Restart=on-failure`): weak fairness of the store's steps and of
`Start`. I/O errors, crashes and outages are bounded. `Healthy` and `Control`
are strongly fair: recovery repeats for as long as the journal exists, and a
daemon asked again and again to restart with a configuration it can run is
assumed to do so at last. Nothing is assumed of requests, edits or lifecycle
commands. Without "a configuration it can run" the property fails and the code
really loops: the helper rewrites the files, fails, exits and is restarted.

In `ConfigEvents` goroutines that can run do, timers and tickers fire, and calls
and writes return (weak fairness of the watcher, of each handler's steps and of
a save under way); the mutex is strongly fair, because Go's `sync.Mutex` hands
itself to a waiter that has starved. Nobody is assumed to change, save, connect
or leave. In `Discovery` the loop takes what is ready, workers return within
their deadline, and `Run` connects again; a connection that is never accepted
again is excluded by the bound on failures. `Converges` asks that the network
comes to rest within the limits, which is when the code can show it.

In `LogStream` (`FairSpec`) the reader and the handlers run, the ten seconds of a
page and the heartbeat come, and the kernel ends a process that was killed. Of
journalctl and of the browser nothing is assumed: `LinesArrive` starts from a line
that was printed, and a `journalctl -f` that prints nothing keeps its stream open
as long as the browser stays.

## 4. What is proved

Every invariant and every action property of the passing runs is a theorem, for
every value of the constants; their only assumptions are the ASSUMEs of the
modules (finitely many files, one of them `avahi-daemon.conf`; finitely many
services, types and resolver workers, of which the code starts eight; absence is not a
content; path order is a total order by `Rank`; bounds are numbers; names of
absence are no names of anything) and what a statement says before `/\ Spec`.

| Module | Theorem | Statement |
| --- | --- | --- |
| `ConfigStoreProofs` | `StoreInvariant` | `Spec => []StoreInv` |
| | `StoreTypes` | `Spec => []TypeOK` |
| | `RecoveryAlwaysPossible` | `Spec => []JournalRecoverable` |
| | `BaselineAlwaysLoads` | `Spec => []BaselineLoadable` |
| `AtomicityProofs` | `DiskInvariant`, `WriteAheadHolds` | `Spec => []DiskInv`, `Spec => []WriteAhead` |
| | `AnswersAreTrue` | `Spec => []AnsweredIsBaseline` |
| | `AtomicityHolds` | `Spec => Atomicity`, the refinement of `AtomicConfig` |
| | `RetentionHolds` | `Keep >= 1 /\ Spec => []Retention` |
| | `BackupIsKept` | `ClockAndRoom /\ Spec => []BackupExists` |
| | `OperationsEnd` | every step of a running operation lowers a rank, or is somebody else's |
| `ManagedProofs` | `StoreIsImplemented`, `AtomicityHoldsHere` | `ManagedSpec => Spec`, `ManagedSpec => Atomicity` |
| | `MutexHolds` | `ManagedSpec => []ManagedTypeOK` |
| | `TransactionsAreNotInterrupted` | `ManagedSpec => []StopNeverInterrupts` |
| | `StopsHold` | `ManagedSpec => []StopHolds` |
| | `DaemonRunsTheDisk` | `ManagedSpec => []RunsWhatIsOnDisk` |
| `ConfigEventsProofs` | `EventsTypes` | `Spec => []TypeOK`, slots included |
| | `WatcherNeverDeaf`, `NoChangeIsLost` | `Spec => []NoDeafDirectory`, `Spec => []NoLostChange` |
| | `ChangesSettle` | watcher and handlers lower a rank between two changes; at rest a stream shows what is on disk |
| | `StuckForGood` | `Spec => \A s : [](Stuck(s) => []Stuck(s))` |
| `DiscoveryProofs` | `LateResultsAreHarmless` | `Spec => []ShownIsLatest` |
| | `SlowStreamsCatchUp` | `Spec => []StreamsUpToDate` |
| | `NothingIsMissed` | `Spec => []NothingMissed` |
| | `LimitsHold` | `Spec => []TypeOK`, limits included |
| | `PendingIsAnswered` | `Spec => []NothingForgotten` |
| | `QuietBrowseMirrors` | `Spec => [](Quiet => Mirrored)` |
| | `BrowseDrains` | loop and workers lower a rank while Avahi is silent |
| `ReconcileProofs` | `Invariant`, `TypesHold` | `Spec => []ReconcileInv`, `Spec => []TypeOK`, mutual exclusion and the mutex's return included |
| | `CopyIsAccepted` | `Spec => []CopyWasAccepted` |
| | `DriftIsHonest` | `Spec => []HonestDrift` |
| | `AnsweredMutationIsCopied`, `CopyNeverGoesBack` | `Spec => []AnsweredIsCopied`, `Spec => NeverGoesBack` |
| | `RequestsAreBounded` | a request ends after nine steps |
| `AccessProofs` | `Invariant`, `TypesHold` | `Spec => []AccessInv`, `Spec => []TypeOK`, both tables' limits included |
| | `GuessesAreLimited`, `SlotsAreReturned` | `Spec => []GuessLimit`, `Spec => []SlotsReturned` |
| | `EverythingIsRecorded`, `AnswersAreRecorded` | `Spec => []NothingUnrecorded`, `Spec => []AnsweredIsRecorded` |
| | `LogoutHolds` | `Spec => []LogoutIsFinal` |
| `LogStreamProofs` | `Invariant`, `TypesHold` | `Spec => []LogInv`, `Spec => []TypeOK`, slots and capacity included |
| | `LinesStayInOrder` | `Spec => []InOrder` |
| | `NothingOutlivesItsRequest` | `Spec => []NoOrphans` |
| | `EndsAreHonest` | `Spec => []HonestEnd` |
| | `RequestsAreBounded` | handler and reader lower a rank between two lines of journalctl |

**The store.** `JournalRecoverable` and `BaselineLoadable` are not inductive:
whether a step keeps them depends on which operation is at which step. `Shape`
says that (at `"swap"` an apply or a rollback, with a journal; at `"prune"`
nothing with a journal, ...), `Handles` says what the operation's snapshot ID
stands for (at `"point"` a complete snapshot of the new image; at `"unlink"` a
torn directory, hence neither the baseline nor the journal's), and `FreshIds`
that undrawn IDs name nothing, so a new snapshot never overwrites one in use.
Together with the types these are `StoreInv`, which every step preserves. Deleting
and pruning need `Shape`'s "no journal while pruning"; without it retention
could remove the snapshot a journal names.

`DiskInv` adds what the files hold: during a forward `replace` the journal's
snapshot is the image before, during a rollback the image to restore, and outside
`touched` and the files still to do the disk is already the target. From there
each step of the store is a step of `AtomicConfig` under the mapping at the end
of `ConfigStore`: while a journal exists the stable configuration is the image it
points to and the accepted baseline is the one it names; removing the journal is
the commit or the undo; writing it is the beginning. The proof looks at that
view alone: a lemma for each group of actions says what a step does to the disk,
the journal and the baseline, and no case of the refinement needs the rest.

Retention counts: a pass removes snapshots one at a time and stops at the limit,
never touching the baseline's or the journal's. A limit of zero would not leave
room for the baseline, hence `Keep >= 1`. That a backup outlives its own pass
needs more (`ClockAndRoom`): room for two, and a clock on which the newest
snapshot is the youngest, as the pass removes the oldest by its recorded time. A
clock set back between two snapshots breaks it in the code too.

That an operation ends (`OperationsEnd`) is a rank: `Place` counts the steps of
`pc`'s order still ahead, at most 20, and `Rest` the files a `replace` has to
write or the snapshots, two each, a pruning has to remove. Each step of the
operation lowers the pair or leaves the store alone; a failed I/O step, a rollback
and a refusal are shorter ways, not detours. The loop of recoveries of section 3
goes through the end of the process, and each turn of it is bounded.

**The daemon.** Every step of the composition is a step of the store or leaves its
variables alone (`StepOfStore`), so `StoreInv` and `DiskInv` hold in it without a
new proof, and the composition implements the store (`StoreIsImplemented`) and
with it `AtomicConfig`. A lifecycle request is running only when `pc = "idle"`, which is the
helper's mutex. `StopInv` says that from its
look on a stop finds the socket off, so that no lookup can start the service, and
that no stop is the last word while a request runs. `RunsInv` says
what a daemon that is up may have read: during a forward `replace` the image
before, or a mixture of it and what is on the disk, for a lookup may start it
between two swaps; after the job of the change, what is on the disk, because `ChangeAction`
asks for a restart whenever a file differs that a reload does not read; and after
a rollback the disk again, since that always restarts.

**Events.** The three invariants are inductive together, and only together: that
an edit in an unwatched directory is noticed (`ChangeIsNoticed`) is
`NoDeafDirectory`, and a notification reaches everybody who is owed one because
registration comes before the first step that owes anything. They hold for every
set of streams and every bound.

`ChangesSettle` is what `ChangeReachesStreams` says without fairness: what is left
to do for a stream (`Ahead`: events, the timer, the watcher's steps, the token, the
handler's steps) is only put off by another change, an overflow of the kernel's queue
or a save's notification,
every step of the watcher and of the stream's delivery lowers it, and when it is
nothing, the stream shows the version on disk. `StuckForGood` is the finding of
`EventsStart` for every instance: a handler whose channel is full before its own
send stays there whatever its client, its session or anybody else does.

**Discovery.** `ShownIsLatest` needs that requests keep a generation that is not 0
through both queues and the workers' hands, so that a result for a service that is
gone is never taken for one that is known, and that there are no generations
outside an open browse (`LoopInv`). The limits play no part in it. `NothingMissed`
looks at the last signal of each service that still waits (`Outcome`): a signal
behind it of another service changes nothing, and handling the first one moves
what it says from the signals to the cache (`BrowseInv`).

`Converges` has a part that needs no fairness, and it is proved. A pending entry
has its request, with the entry's generation, in a queue or with a worker
(`PendingIsAnswered`); `ShownIsLatest` is what keeps a result that is thrown away
from being that one. So when signals, queues and workers are empty, nothing is
pending, and by `NothingMissed` the cache is what Avahi announces
(`QuietBrowseMirrors`). And a browse gets there: in the order of `Ahead` (types
without a browser, signals, jobs, busy workers, results) each step of the loop and
of the workers leaves less (`BrowseDrains`); a new type may bring any number of
signals, but there are only so many types. What is left to TLC is that the loop
and the workers run, and that a browse that was given up starts again.

**The copy.** `HelperInv` says that what the helper would answer or go back to is
the newest version that was ever committed, so a baseline that was read is never
undone later. `PlaceInv` is who is inside the mutex; `CopyInv` that what handlers
hold was accepted; `FreshInv` that inside the mutex nobody holds a version older
than the copy. The last one fails for whoever is outside, which is why GET /status
is excepted there and nowhere else.

`TypeOK` also says that the holder of the mutex is at a step from which only its
own deferred unlock is ahead (`Returning`): it is not over, and does not wait for
the mutex. And `RequestsAreBounded`: every step of a request, and the helper's
answer to it, is one of at most nine, in whatever order answers, deadlines and
errors come. The eighth and ninth are the hosts change, which reads before it
locks.

**Access.** The counts are cardinalities: an address's attempts are the requests
let through and not forgotten, the slots taken the requests that verify (`Counts`).
`Placed` ties a request's step to the audit log. `Final` says that a cookie whose
logout succeeded is no row's, and that no login brings it back, as a token is
drawn once.

**Logs.** `Lines` follows a line on its way: what was sent, what waits in the
channel and what the reader holds are, in this order, the lines taken out of the
pipe. `Life` says which steps of handler, reader and journalctl go together:
journalctl runs only while its reader has not returned, and the handler is over
only when it has. `Honest` traces a good answer back to a complete scan.
`RequestsAreBounded` is `RequestsEnd` and `LinesArrive` without fairness: the rest
of a request (handler, cancellation, journalctl's start and end, lines in the pipe,
the reader's step, entries that wait) grows only by another line, every step of
handler and reader lowers it, and a stream that has caught up has sent every line.

Only model-checked: liveness (`RecoversToRunnable`, `ChangeReachesStreams`,
`StreamEnds`, `Converges`, `RequestsEnd`, `LinesArrive`), which rests on fairness
and so on ENABLED, which the prover does not know. The ranks show that the steps
are bounded, not that they are taken. And all of this is about the
modules: that these are the code is shown by reading the two side by side, for
which PROJECT.json gives the lines of every definition.

## 5. What the checks found

* A save overwrites an edit made after its second read (`StoreOverwrite`), which
  the user guide says does not happen. The edit is not even in the snapshot
  taken before the change.
* A helper that dies inside `snapshot` or `RemoveAll` leaves a directory that
  cannot be loaded; `snapshots()` fails on it from then on, so the list page and
  every retention pass fail until somebody removes it (`StoreRetention`).
* A browser that asks for configuration events at the moment of a save or of an
  edit may get a stream that never starts: `configEvents` registers its channel
  and then blocks on its own first send into it (`EventsStart`). The handler
  stays, with its subscription, until the process ends (`StuckForGood`).
* GET /status reconciles without the server's mutex when nothing was copied
  before, which is the case when the start-up's reconciliation failed. It can
  read the helper's baseline, be overtaken by a save that commits, reconciles and
  answers 200, and then write the older baseline over the newer one
  (`ReconcileStatus`). Until the next reconciliation the console reports drift
  that is none. What the copy holds was accepted even then.
* Not findings, but consequences the model makes visible: a commit whose journal
  removal fails is undone at the next start; a journal whose write failed after
  the rename blocks all requests until a restart; recovery to a configuration
  the daemon does not start with never ends; a stop that meets a service just
  starting reports success and leaves it to start, with the socket off.

## 6. Not modelled

* The web console. It is React code in a browser; its requests and streams are
  the environment of `Reconcile`, `Access`, `ConfigEvents` and `LogStream`. One
  hazard of its own has no property: a GET /config that began before a save and
  answers after the event announcing it may leave the older revision on screen
  (`ConsoleApp.tsx:152`). The next save with that revision is refused as a conflict.
* The file formats: sequential parsers and printers, covered by unit tests. The
  store sees only whether an image validates.
* Host inspection: stateless probes. Routes that only forward a read.
* Enable and disable of the units, which change what a boot starts, and the boot.
* Opening and migrating the database, which happens before anything is served;
  `jobs` and accepted files, whose functions only tests call; the copy of the
  snapshot list, which is written and never read.
* Decoding of requests and peer credentials of the helper's socket: a request
  that is refused there changes nothing. Flags, directories and shutdown wiring
  of the entry points. Of the packaging, all but `Restart=on-failure`.
* A watch that cannot be added (`watch.go:28`, only logged: later changes in that
  directory are not announced until the next attachment), a kernel queue that
  overflows with events of other files, and an event stream's state that cannot
  be read (`events.go:39`: an error is sent, and the next token or change brings
  the next attempt). The first and the last are hazards without a property: the
  code promises nothing there that a model could compare it with.
