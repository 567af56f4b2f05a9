# Verification of rofi-agent-plus

rofi-agent-plus is a Rofi picker of coding-agent sessions: it lists the native
sessions of several hosts, and opens one in a Kitty window that runs the
provider's own client, on this machine or over ssh. This directory holds TLA+
models of the program, TLC configurations that check them on small instances,
and proofs checked by TLAPS. Paths such as `registry.py:391` are relative to
`rofi_agent_plus/` in the repository.

## 1. Inventory

| Component | State it keeps | Operations | Talks to |
|---|---|---|---|
| Launch registry (`registry.py`) | per target a directory: `<instance>.json`, `retired/<request>.json`, `retired/<instance>.instance`, `.fault`, `.lock` | `reserve`, `find_request`, `records`, `update`, `reconcile` | picker, viewer (each its own process, all under the target's flock) |
| Native actions (`actions.py`) | none beyond the launch it is making | `open_target`, `focus_instance`, `_dispatch` | registry, desktop, host transport, Kitty |
| Viewer (`viewer.py`) | a launch record and a child process | `run_viewer` | registry, the native client, the user |
| Desktop evidence (`desktop.py`) | none | window list, focus, process identities, Kitty layout | Niri, Kitty, `/proc` |
| Picker (`rofi.py`, `view_preferences.py`, `window_titles.py`) | the `ROFI_DATA` token carried from one callback to the next; a preferences file | render, select, filter, refresh | all of the above, usage, cache |
| Startup refresh (`startup_refresh.py`, `launcher.py`, `app.py`) | a lease (flock), a ticket, a pipe | start a worker, wait for it, finish | cache, transport, Rofi |
| Catalog cache (`cache.py`, `model.py`) | one JSON file of host entries | read, merge host results, publish | transport, picker |
| Fleet transport (`transport.py`, `host_mesh.py`, `process.py`, `wire.py`) | a route choice per host for one run | host calls, route fall-back, fleet read | ssh, Host Mesh CLI, host endpoint |
| Host endpoint (`host.py`, `engine.py`, `providers/`, `config.py`) | a capability cache | inventory, validate entry, execute | provider files and CLIs |
| Usage (`usage.py`) | one JSON file of opening counts | record, rank | picker |

Hard behaviour, and where it is:

* **Interleaving.** Every Rofi callback and every viewer is a process of its
  own. Callbacks of one menu, of several menus and viewers meet in the launch
  registry; callbacks and refresh workers meet in the catalog file. Each file
  operation is under a lock, but decisions span several of them:
  `reconcile` reads under the lock, observes the desktop for up to seconds
  without it, and writes what it concluded.
* **Crashes.** The registry changes several files per operation. Rofi kills a
  callback, the user closes a window, a worker is stopped by its alarm.
* **Side effects that cannot be undone.** Spawning Kitty, starting a client and
  executing over ssh are not transactions: after any of them an error must not
  be taken for "nothing happened".
* **Replays.** A callback carries a request identifier and may be delivered
  again; the same request must always mean the same launch.
* **Late answers.** Acknowledgements, host answers and verdicts may arrive
  after what they are about has changed.

What makes each component correct:

* registry: a request names one launch for good; a launch made can be found at
  every instant; a retired launch stays retired with its outcome; unreadable
  files stop what they concern and nothing else; the record limit never turns
  into a lock-out; running windows are numbered apart;
* actions and viewer: ordinary Opens of a target never run two clients side by
  side; a request spawns at most one terminal; nothing is started for a retired
  launch; an exited client does not look alive for ever;
* startup refresh: one worker at a time, each resolves its own ticket, the
  ticket tells the truth, and a menu that waits is always released;
* catalog: what it calls complete is what a host had at one moment; no host is
  lost because another failed; a merge never makes a file its reader refuses;
  it agrees with the mesh in the end. The code does not order answers by age: a
  late one may replace a newer one until the next refresh;
* transport: each host is answered for once, a helper is started once, "not
  reached" is true, a read ends and leaves nothing running;
* picker: Enter opens what its row offers and nothing else, however the rows have
  changed by then; the row that is highlighted is the one the picker means; the
  order of the rows stands still while a dialog is open;
* usage: an opening counts once, however often its callback is repeated.

`PROJECT.json` lists the components, the hazards at their lines with the
properties that cover them, and which definition models which lines.

## 2. Modules

| Module | What it is |
|---|---|
| `LaunchLedger` | abstract specification: what the registry of one target promises |
| `Registry` | the record files of one target, each file write a step, with crashes and damaged files |
| `Launch` | picker callbacks, viewers, terminals and clients over the ledger |
| `RefreshTicket` | abstract specification: what menus may rely on in the ticket of the startup refresh |
| `StartupRefresh` | launchers, lease, ticket, workers, alarm and waiting menus |
| `Catalog` | the saved catalog and the refreshes that merge into it |
| `Fleet` | one read of all hosts by a pool of threads |
| `Usage` | the history of openings and the ranking taken from it |
| `Picker` | one dialog: its rows, selection, keys and what they open and count |
| `MCRegistry`, `MCLaunch`, `MCStartupRefresh`, `MCCatalog`, `MCFleet`, `MCPicker` | instances for TLC (model values, symmetry) |
| `LedgerProofs` | proofs about `LaunchLedger` |
| `RegistryProofs` | the inductive invariant of `Registry` and what follows from it |
| `RegistryRefinement` | proof that `Registry` implements `LaunchLedger` |
| `LaunchProofs` | the inductive invariant of `Launch`, its safety properties, and that it keeps the ledger |
| `StartupRefreshProofs` | the same for `StartupRefresh` and its ticket |
| `CatalogProofs`, `FleetProofs`, `PickerProofs` | proofs of the safety properties of `Catalog`, `Fleet`, and `Picker` with `Usage` |

### LaunchLedger

One variable, `ledger`, with an entry per instance: its request, its window
number, its state, the process identities ("terminal", "wrapper", "client")
acknowledged so far. `Reserve` creates an entry, `Update` merges evidence and
changes the state of an entry that is not retired, `Seal` and `Lose` are the two
ways a file may become unreadable from outside.

### Registry

`active`, `tomb` and `index` are the three kinds of files, `fault` the marker
and `quarantined` the records set aside; `badActive`, `badTomb` and `badIndex`
say which files cannot be read. `job` is the call that holds the flock. The
lock is exclusive, so there is at most one; a call refused because the lock
stays busy touches nothing and is left out. A call reads its tombstone first
(`BeginReplay`), is refused by the marker or the limit (`BeginRefused`), or
scans the active files one by one (`_records`: `Quarantine`, `MarkFault`,
`ScanTombed`, `ScanConflict`, `ScanActive`), finishing on its way the
retirements that crashes interrupted (`WriteTomb`, `EnsureIndex`, `Unlink`), and
then acts (`Reserve...`, `Update...`, `Return...`). Before any of these steps the
process may die or a file operation may raise: `Abandon` leaves the files as
they are. One file is atomic, as `atomic_json` makes it. `Damage` makes a file
unreadable between calls, at most `MaxDamage` times. `made` is a history
variable: which request each identifier was created for. `reply` is what the
last call returned or raised, and only properties read it.

The scan takes the files in any order. The code sorts them by name, and names
are random identifiers, so every order can occur.

### Launch

`picker[p]` is a callback: it takes copies of the records (`Start`), judges each
copy against the processes and windows as they are now (`Judge`), writes a
verdict that differs from its copy (`Apply`), and then renders, focuses, refuses
or goes on to reserve (`Choose`, `Settle`, `GoReserve`, `ReserveNew`,
`ReserveJoins`, `Rejoin`), persist its intent, spawn Kitty and acknowledge it
(`PersistDispatch`, `SpawnKitty`, `AckTerminal`, `DispatchFails`). The viewer
reads its record, acknowledges itself, starts and acknowledges the client,
waits for it and reports how it ended. Clients exit and terminals end whenever
they like (external). A registry call is one atomic step on the ledger, which
the refinement of `Registry` justifies. The window list is the compositor's: it
may not hold yet a window that is there and may hold still one that is gone, so
`Verdicts` takes both. `misjudged` is a history variable: launches that a
reconcile retired although nothing of them was known to have ended; so is `spawned`:
how often Kitty was spawned for each request, which counts a second terminal of one and
the same record too.

`OneClientPerTarget` and `RetiredStartsNothing` except the launches in
`misjudged`; `launch_spawn_gap` shows that there are such launches. The
exception is exact: it names only launches whose record a stale verdict
retired, and the mutants of both properties break them without it.

### StartupRefresh and RefreshTicket

An opening of the picker is a launcher: it loads the catalog (`Load`), tries the
lease without waiting (`TakeLease`, `Join`), writes a ticket (`WriteTicket`),
renders the first frame itself (`ReadFrame`, `ShowFrame`), starts the detached
worker and closes its own descriptor (`StartWorker`, `Handover`, or
`WorkerFails`, `Report`). `holders[l]` are the processes that hold the
descriptor launcher `l` opened: the lock is free when all are closed, which is
how flock works for descriptors inherited through fork. The worker arms its alarm
(`Boot`), publishes host results, reads the fleet, commits and resolves the
ticket (`Publish`, `FleetRead`, `Commit`, `Finish`, ...). `Alarm` may strike at
each of these places with what the code does with the `TimeoutError` there; in
`FleetRead` the handler around `future.result()` takes it for the failure of one host
and the wait goes on (`transport.py:491`), or the handler of the fleet's own timeout takes
it (`:498`): either way the worker stays where it is, and publishes.
`Terminate` is the signal that cancels the probes, `Kill` one that ends a
process, and `Signals` says which may come from outside. A menu redraws on its
timeout or on Alt+R (`Poll`, `AltR`, `Wait`, `Redraw`).

`by` in the ticket is a history variable: the file does not name its owner.
`RefreshTicket` knows no lock, process or alarm: a ticket is resolved for the
reservation it belongs to, and complete only after that one's commit.

### Catalog

`catalog` is the file, one entry per host with the targets of each provider;
`refresher[r]` the view of the mesh one refresh has read, the answers it has
received and not merged yet, and the hosts it has merged. `Publish` is
`publish_host`, one read-merge-parse-replace under the lock, and `FinishFleet`
marks the hosts outside the view removed. `Merged` and what it is made of
translate `_merge_host`; choices that depend on the order of names or times (which
targets or removed hosts make room) are left open. `Readable` is the reader that
every write passes: a catalog it refuses is not written and the refresh ends
(`Refused`). An answer is what `build_inventory` can report of `world[h]`, the
installed providers and declared homes at one moment (`Listed`, `Statuses`,
`Reads`), or an error. `past` is a history variable: what `world[h]` has ever been.

### Fleet

`main` is `read_fleet` in the caller's thread: batches of finished hosts as
`as_completed` yields them (`Take`, `Publish`), the deadline and its handler
(`DeadlinePasses`, `CancelOne`, `Expire`), and the exit of the pool, which waits
for its threads (`Leave`). `thread[h]` is `_read_host` for one host: its deadline
(`Begin`), then route after route (`NextRoute`). A probe may never reach the host
(`Unreached`), start the helper (`Reach`), lose the marker that says so
(`LosesMarker`), answer, break, be refused or be cut off. `Alarm` is the
caller's `TimeoutError` at any place, `AlarmInResult` the one that strikes inside
`future.result()` and becomes the failure of the host at hand, `Signal` a cancellation
of all probes.
`helped` is a history variable: helper starts whose marker was not lost. Only the
lost marker lets the code start a helper twice; it cannot tell, and the property
is about everything it can.

`Fleet` is one read; `Catalog` takes its outcome, one answer per host of the view
in any order, and `StartupRefresh` its duration and its ways to end. A run of all
three together is out of TLC's reach.

### Usage

`history` is `usage.json`: for every target the receipts of the week (a request
token and a time) and the last use. The file is read, changed and replaced under
one lock, so `Record` is one step; the time it goes by is read before the lock is
asked for, so it is a parameter and may be older than the clock. `issuedAt` is
when a token was armed, which the dialog's state carries along with it. `Countable`, `Kept`,
`Receipt` and `Fits` are the checks of `record` in their order. `Statistics` is
what a dialog ranks by. The wall clock may be set back. `counted` and
`newest` are history variables: which tokens were ever counted and the latest
time a record went by.

### Picker

`dialog` is what Rofi shows and hands back: the frame's rows, the selected key,
what Enter does and the request token it carries, the ranking frozen with the
first frame. Every key runs a callback that builds its rows anew (`Rows`: `RowSet`
in the order `Precedes`, by the frozen ranking, then host by host and in the fixed order
of a host's targets) and draws them (`Drawn`). The order of hosts is not frozen: it is
that of the catalog each callback reads (`hostOrder`), in which hosts stand as they
answered until a refresh sorts them by the Mesh; a host that is unknown there or was
removed comes after the others, by the first of its targets that has a window
(`HostBefore`, `StoredAs`). `CatalogChanges` puts the hosts in any other order, and adds
or removes some. Rofi looks a new selection up in the list of the frame before, so
`_render` may need a second frame after a short timer (`Corrects`, `restore`; it is
needed too when the user is on another row by then, `moved`); `cursor`
is the row Rofi highlights. `Tab`, `Refresh` (Alt+R), `Timer`, `Escape` and
`Enter` are the keys; `Enter` looks its row up among the rows of now and goes on to
`FocusRow`, `OpenFound`, `OpenNew` or `Refused`, then `Count` or `Redraw`. A
callback that was accepted may be delivered again (`EnterAgain`). Around the
dialog other pickers open windows, launches come up, become doubtful and end, the
catalog changes, other dialogs count, the clock moves (`OtherOpens`,
`Evolves`, `CatalogChanges`, `OtherCounts`, `ClockChanges`). `overtaken` is a
history variable: a correction that ended although the texts of the rows had changed
again, which the code accepts; `order`, the host order a frame was drawn with, is another.
Opening is one step here, which `Launch` takes
apart; the row an earlier dialog remembered is any row.

## 3. Runs

| Run | Instance | Shows |
|---|---|---|
| `registry_files` | 3 instances, 3 requests, limit 2, 1 damaged file | types; every launch can be found, one launch per request, unreadable tombstones are isolated, "none" is told truthfully, no first Open joins a retired launch, running windows are numbered apart, the files never outnumber the limit, outcomes are final, the files implement the ledger |
| `registry_quarantine` | 2 requests | **violated**: finding 1 |
| `launch_race` | 2 callbacks, 2 requests, 2 instances | types; one client per target for ordinary Opens; Kitty is spawned once for a request |
| `launch_modes` | 1 callback at a time, 2 requests of which one is in New window mode, 2 instances, focus and render callbacks, updates and observations fail | an ordinary Open reserves nothing while a client runs |
| `launch_fair` | 1 instance, 2 callbacks judging at once, updates fail, fairness | nothing is started for a retired launch; an exited client is retired in the end |
| `launch_spawn_gap` | 1 instance, 2 reconciles | **violated**: finding 2 |
| `startup_refresh` | 2 openings, all signals, fairness | types; one worker; it resolves its own ticket; the last redraw is current; the files and processes implement the ticket; again and again the lease is free and no menu waits |
| `startup_refresh_late` | as above, no fairness | **violated**: finding 3 |
| `catalog` | 1 host, 2 users, 3 homes, 2 refreshes, 1 change | a complete list is a snapshot; merges are readable; partial answers keep targets |
| `catalog_fair` | 2 hosts, 2 refreshes, 2 changes of the mesh, 1 failure, fairness | types; merges are readable; the catalog agrees with the mesh in the end |
| `fleet` | 3 hosts on 2 threads, 2 routes, fairness | types; each host told once, helped once; "unreachable" is true; nothing runs on; the read ends |
| `picker` | 2 targets on 2 hosts, 2 launches of one of them, a dialog with 2 tokens and another with 1 | types; the highlighted row is the meant one; Enter opens what its row offers; frames keep the order of targets but for ties between moved hosts; an opening is counted once |

Bounds.

* Registry: three identifiers for three requests allow a replacement launch after
  a retirement, a second one after a quarantine, and a conflict of two records
  over one tombstone; with a limit of two a full target retires and refills. One
  damaged file, of any kind, is enough, as every property speaks of one file at a
  time. The states callers write are narrowed to one active and one retired
  (`CallStates`), and the evidence roles to one: the files treat the others alike.
* Launch: two callbacks are a race, and each is replaced by a new one as soon as
  it ends; two instances let a wrong second launch appear. `launch_fair` takes one
  instance because its properties speak of one launch. Where two callbacks judging
  at once do not add a case, `MaxReaders` is 1: a callback judges alone, but its
  copies can still be overtaken by the dispatch and the viewer of others. `MaxEnds`
  bounds the clients and terminals that have ended. One is enough where the property
  is about a launch that is gone beside one that is not (`launch_race`, `launch_modes`);
  two let both processes of a launch end, in either order (`launch_fair`). The theorems
  of `LaunchProofs` hold for any.
* Startup refresh: two openings are enough for a lease that is taken and one that
  is joined, for a ticket that is replaced and a worker that is overtaken. A
  refresh takes one tick, the clock stops at two, so that the second opening can
  reserve after the first one's deadline. A menu only reads; the properties speak
  of one menu, and only the second opening's stays open (`Watched`).
* Catalog: the properties of lists speak of one host, those of membership of
  several hosts and no provider, so the runs are split so. One change of a host
  between two refreshes makes answers of different age; three homes tell a mixture
  of two lists from each of them. A failure of a whole refresh (`MaxAborts`) matters
  to membership only. The limits of targets and hosts do not bind in these runs; the theorems hold for any limit.
* Fleet: three hosts on two threads make a queue; `Routes` gives one host two routes to fall back over; two ticks let a host start late
  and be bounded by the fleet's deadline; a read is one, and ends.
* Picker: two targets can change places, two launches of one of them make its rows
  ambiguous, and the second target keeps the row of a target that was never opened.
  Each is on a host of its own, so that the order of hosts matters; that two removed
  hosts change places with their windows needs windows of both, which only the proof has.
  Two tokens are one before and one after Tab. A week is one tick and the clock has two,
  so that a token expires; the one change from outside may be of the catalog, of
  the history or of the clock. Launches of others and their states are not bounded.

Fairness. It is fairness of steps the operating system schedules and of time
itself, weak where nothing else is said, and nothing is assumed of ssh, of hosts, of clients or of a signal that
would help.

* `Launch`: weak fairness of a callback's steps and of the end of its process;
  strong fairness of `Judge` and `Apply`, as callbacks may be killed but not all of
  them in the middle of a reconcile. Callbacks keep being made because a user who
  waits for the row to change keeps opening the picker; without any callback
  nothing in the program looks at the record, so this cannot be weakened.
* `StartupRefresh`: the clock, the launcher, the worker and the menu go on; a
  worker's wait is bounded by its alarm, which the clock rings.
* `Catalog`: refreshes keep being made and go on; answers come or fail in a bounded
  time, which is what `Fleet` shows.
* `Fleet`: the caller's thread, the clock and the threads' own steps; not
  `Unreached`, `Reach`, `Answered` or `Breaks`, which are the network's.

Deadlock is not checked where the system really stops: openings are finitely
many in `startup_refresh`, a read returns in `fleet`, and a dialog ends in `picker`,
where no fairness is assumed either: the user may leave it open.

### Findings

1. **A crash between the quarantine's two writes** (`registry.py:263`). An
   unreadable record is renamed, and the marker that stops the target is written
   after it. When the process dies or the second write fails, the target has
   neither: the next first Open reserves a replacement. The comment at
   `registry.py:260` says that must not happen.
2. **A verdict older than the dispatch** (`registry.py:565`). A reconcile
   that copied a launch as `reserved` judges it `exited` once its owner is gone,
   though in between the owner wrote `dispatching`, spawned Kitty and ended. The
   verdict overwrites the dispatched launch, which the comment at
   `registry.py:568` says must not be retired for want of evidence.
3. **A worker past its deadline publishes** (`transport.py:498`). The alarm
   raises `TimeoutError`; if it strikes while `read_fleet` waits, the handler of
   the fleet's own deadline takes it, publishes a result for every host that is
   left, and the worker goes on to commit. If it strikes inside `future.result()`,
   `except Exception` (`transport.py:491`) makes it the failure of one host and the
   deadline is lost altogether. `tests/test_startup_refresh.py:131` says
   a worker past its deadline "cannot publish"; the refresh in the test sleeps
   instead of reading a fleet.

Observations that no run claims:

* A machine whose mesh identity changes: the entry of the former identity stays
  local (`cache.py:360`), so the reader refuses a catalog with two local hosts,
  nothing is written, and every later refresh fails the same way. The identity
  changes when the Mesh command appears or disappears (`host_mesh.py:289`). No line
  of the repository says what should happen. More hosts than the limit are refused the
  same way. `RefusalsHaveACause` below shows that there is no third cause.
* A configuration that cannot be read is reported without a provider (`host.py:146`),
  so the coverage stays complete and the declared homes are withdrawn, although
  `docs/reference/architecture.md:82` keeps last-known targets under partial
  discovery.
* Writing one probed capability dates every entry of the cache anew
  (`providers/common.py:118`), so with probes of other executables in between a
  verdict outlives the 300 seconds that `docs/reference/architecture.md:191` gives it.
* Between the validation of a reference and its execution the executable is resolved
  again (`host.py:579`); one that was replaced meanwhile is run unvalidated.
* An opening that finds the lease taken joins even if the holder only looks at it
  (`startup_refresh.py:198`), and a callback that waits for one worker may wait for
  the next (`startup_refresh.py:126`).
* A request whose window has closed is refused with the advice to refresh and
  select again (`actions.py:146`), but Alt+R keeps the request token, so the same
  row is refused until Tab arms a new one.
* When the highlighted row is gone and so is its target, `rofi.py:995` moves the
  selection to the first row, which may be another environment's.
* The ranking is frozen with the first frame, the order of hosts that breaks its ties is
  not (`rofi.py:307`): after Alt+R, or when the startup refresh ends, targets of two hosts
  with equal uses may change places. `docs/guides/usage.md:21` calls that order the fixed
  one of the Host Mesh, which it is once a refresh is complete; until then new hosts stand
  as they answered (`cache.py:605`). `docs/guides/usage.md:30` freezes the ranking against
  uses and time; `RankingIsFrozen` states exactly this exception.
* An opening may be counted twice after the clock was set back and its receipt
  dropped meanwhile (`usage.py:146`); `CountedOnce` states exactly this exception.
* Entries of `usage.json` are never removed, and the time of a record is read before
  its lock.
* Hosts that left the mesh count against the host limit of the catalog until a
  refresh finishes (`cache.py:103`).

## 4. Proofs

Assumptions: those of the modules only (`LedgerAssumption`, `RegistryAssumption`,
`NoFileAssumption`, `CatalogAssumption`, `TargetAssumption`, `FleetAssumption`,
`LaunchAssumption`, `RefreshAssumption`, `UsageAssumption`, `PickerAssumption`):
limits and bounds are numbers, identifiers finitely many where they are counted,
and the reserved values are not identifiers (in `Picker` the key of a row without a
window is a number, since rows are compared by it). The theorems hold for any number of
instances, requests, hosts, refreshes, threads and routes, any limit, any number
of damaged files, pickers, openings and tokens, any signals and faults, and with a
crash before every step.

* `LedgerProofs`: requests and running numbers stay unique (`LedgerInvariant`);
  a retired entry is not changed by `Merged` (`LedgerOutcome`).
* `RegistryProofs`: `Invariant`, by induction over the actions. The
  properties are not inductive by themselves: whether a launch can be found in
  the middle of a retirement depends on what the call is about to do. `Inv` adds
  to the type invariant `FilesInv` (a file is where its record says, a tombstone
  is the launch its request was made for, an index leads back), `DamageInv`
  (only files that exist are unreadable), and `JobInv`, what the call in progress
  knows: the files it has scanned and has not changed since (`ListInv`), the
  verdict it reached on each (`VerdictInv`), and that the index is written before
  the unlink and the tombstone before both (`RetireInv`). What the replies say
  follows from `Inv` and two more inductive
  facts (`TombOwner`, `ReplyInv`); and that the files never outnumber the limit:
  a reservation counts the files it listed, and a finished scan has listed all
  that exist. How far the violated `QuarantineBlocksLaunches` is violated is proved
  too: once `.fault` exists no record changes again (`FaultCloses`), and if no call
  ends between the rename and the marker the property holds (`OnlyTheGapLaunches`).
* `RegistryRefinement`: `FilesImplementLedger`. The refinement mapping
  `Entries` lets the tombstone decide as soon as it exists and the active file
  until then, so the commit point of a retirement is `WriteTomb`; the index, the
  unlink, the scan's repairs and every crash map to no step at all. `WindowNumbers`
  and `FinalOutcome` are then the ledger's theorems, instantiated.
* `CatalogProofs`: `TypeCorrect`, `CompleteLists` (`CompleteIsASnapshot`), `KeepsTargets`
  (`PartialKeepsTargets`) and `RefusalsHaveACause`. A list in the file comes from an answer on
  its way, so the invariant says of both that they are `Sound`: targets of the
  entry's user, no more than the limit, and what is called complete was so at some
  moment in `past`. `KeepsTargets` follows what a union
  of lists keeps up to the limit, from the entry of one provider to the whole
  catalog; that finishing a fleet drops no host takes one more inductive fact
  (`ReadableInv`: what was written could be read, so it holds no more hosts than the limit
  and no local host but the first). The runs check `MergesAreReadable` where this
  machine keeps one identity and the hosts fit the limit; outside of that the code does
  refuse merges, so the theorem is about when. `RefusedForCause` allows a refusal only if
  the current hosts with one that answered are too many (`Overfull`), or if the entry of
  this machine and the local entry at the head of the file are not one
  (`Misplaced`), and assumes nothing of identities and sizes.
* `FleetProofs`: `TypeCorrect`, `EveryHostOnce` (`ToldOnce`), `OneHelper`
  (`HelpedOnce`), `HonestUnreachable` (`UnreachableIsTrue`) and `PoolIsLeft`
  (`NothingRunsOn`). `MainInv` ties what was published to where `read_fleet` is,
  `ThreadInv` what a thread has started to what it will return, and `PoolInv` that
  the pool is left only when every thread has ended.
* `LaunchProofs`: `KeepsTheLedger` shows that `Launch` changes records only as
  `LaunchLedger` allows, so the ledger's theorems hold of it. `Inv` joins the
  pieces that none of the properties holds without: a callback's copies were true
  once (`CopyInv`), a verdict has a ground that does not go away (`VerdictInv`: a
  dead process stays dead), a reservation has one owner, who alone spawns
  (`OwnerInv`), a terminal was spawned for a request exactly if its launch shows one
  (`SpawnInv`), a record claims no evidence that did not happen (`ProcessInv`),
  and a retired launch is `Over`, which is stable, unless it is in `misjudged`
  (`RetiredInv`). From these: `OneTerminal`, `OneClient`, `OpensFindClients` and
  `NothingAfterRetirement`, for any number of pickers judging at once, where the
  runs take one or two. `OwnedLaunchesAreSafe` bounds the violated
  `DispatchedIsNotPresumedDead`: only a launch whose picker has ended is presumed dead
  without evidence.
* `StartupRefreshProofs`: at most one opening's descriptor is open (`LeaseInv`),
  whoever holds it finds its own ticket (`TicketInv`), how far a worker is tells what
  is committed (`CommitInv`), and what a menu last read was true (`MenuInv`). From
  these: `NeverTwoWorkers`, `AlwaysResolvesItsOwn`, `RedrawsAreCurrent`, and the
  refinement `KeepsTheTicket`, through which `TicketTellsTheTruth`, proved of the
  abstract ticket alone, holds of the refresh (`CompleteIsTrue`). The invariant
  `Fired` says where a worker can be after its alarm: it never declares its refresh
  complete (`NothingCompletedLate`), so what the violated `CannotPublishLate` lets
  through is results of hosts and the commit of the fleet, never a false ticket.
* `PickerProofs`: `HistoryCountsOnce` is proved of `Usage` alone, from the invariant
  that a counted token has a receipt or is too old to be counted again; every step
  of `Picker` is a step of `Usage` or leaves it alone (`ImplementsUsage`), which carries it over
  (`CountsOnce`). `OpensWhatWasMeant` needs `PickerInv` (the pressed row is the selected
  one until the callback ends), `Highlighted` besides what every drawn frame says of
  its selected key (`FrameInv`) and that the rows are a sequence with that key in it.
  That rows can be sorted would be an induction over the rows; `SortedIsSorted` counts
  instead: the number of rows before a row is an injection of the rows into as many
  places, so every place is taken; for that `Precedes` has to be a strict order of the rows,
  the unknown and removed hosts included. With it `TypeCorrect` (a target's uses are finitely
  many, `EventsFinite`) and `RankingStaysFrozen`: every frame is ordered by the one
  ranking that `RankInv` ties to the dialog (`Ranked`), which changes only while no
  frame is drawn.

Every safety property of the passing runs, invariant or action property, is the
statement of one of these theorems, except `MergesAreReadable`, which needs the bounds
of its runs and in whose place `RefusalsHaveACause` is proved. Only model-checked is
liveness (`ExitedClientIsRetired`, `LeaseIsReleased`, `MenuIsReleased`,
`MembershipSettles`, `ReadEnds`), which the prover does not reach. The three violated
properties are of course not provable; what is proved is what still holds beside each:
`FaultCloses` and `OnlyTheGapLaunches`, `OwnedLaunchesAreSafe`, `NothingCompletedLate`.
`OnlyTheGapLaunches` takes a restricted next-state relation (`Marks`), which names what
the code would have to guarantee.

## 5. Not modelled, and the plan

What the plan has left, in its order:

1. `Host`: the capability cache of the host endpoint (`providers/common.py`) and
   the validation of a native entry against facts that change meanwhile
   (`host.py:579`). Both hazards are listed without a property.
2. Route selection of `host_mesh.py` and `pin_entry` as pure operators, checked
   against reference definitions.
3. In `Picker`: the diagnostics beside the row of an empty list, and that a correction
   of the selection ends, which is argued only (each restart needs a change of
   positions from outside).

Left out for good: formatting of rows and errors, argument validation, byte limits
beside the limits of entries, a usage snapshot that cannot be written (the rows then
stand in their fixed order until a later callback can write it, `usage.py:204`), the inside of the preference file (any row may be the one
remembered), the vendored contract, scripts and tests, and the inside of Niri, Kitty,
ssh and the provider CLIs, which are represented by what they may answer.
