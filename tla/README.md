# Oxidex in TLA+

This directory holds a TLA+ model of Oxidex: a per-user daemon (`oxidexd`) that
keeps file-name indexes of block devices, searches them, and keeps them fresh
with the help of a privileged scanner daemon (`oxidex-scannerd`), and a desktop
window that shows what it finds. The modules are translated from the Rust
sources under `src/crates/`; `PROJECT.json` names, for every definition, the
lines it stands for.

Paths below are relative to `src/crates/`; "daemon" is
`oxidex-daemon/src/main.rs`, "scannerd" is `oxidex-scannerd/src/main.rs`,
"window" is `oxidex/src/main.rs`, "core" is `oxidex-core/src/`.

## 1. Inventory

| Component | State | Operations | Interacts with |
|---|---|---|---|
| Index store (core `snapshot.rs`, daemon `DaemonState`) | per device: `.kidx`, `.kidx.tmp`, `.state.json`; `indexes`, `index_states` in memory | `save_index`, `save_index_state`, `load_*`, `delete_index` | scan workers, live flush, forget, start-up |
| Scan job queue (daemon 603-921) | `jobs` under the state mutex, one cancel flag per job, one thread per job | `start_scan_job`, `cancel_scan_job`, `wait_for_scan_slot`, `finish_daemon_job_success`, `finish_daemon_job_failed`, `index.forget` | store, scanner session, configuration |
| Scanner session (daemon 1934-2096, scannerd 237-595) | one connection per scan; scannerd's job table per connection | start, poll for the result, cancel, progress events | job queue, raw scanners |
| Live watch manager (daemon 1028-1932, scannerd 631-900) | watch connection, active watches, pending batches, dirty set, `watch_summaries` | reconcile, drain, apply batch, flush, mark errors | store, scannerd, devices |
| Watch coalescing (daemon 1632-1741) | none (pure) | `coalesce_watch_events`, `collapse_rename_chains` | live watch manager |
| Search index (core `index.rs`) | records, string pools, trigram table, internal paths | build, apply live events | store, watch manager, search |
| Query language and search (core `index.rs`) | none (pure) | parse, candidates, clauses, score, merge, sort | requests, window |
| Rules (core `rules.rs`) | none (pure) | compile, `filter_index` | scans, live events |
| Periodic rescan (daemon 923-1026) | none of its own | pick candidates, start jobs | job queue |
| Desktop window (window, `DaemonGuiApp`) | query, scope, filters, order, rows, selection, open windows | type, search, select, open, scan, forget, refresh | `oxidexd` by requests |
| Configuration (core `config.rs`, daemon 2098-2240) | `config`, file | load, set, validate, save | everything |
| IPC framing (core `ipc.rs`) | none | `write_frame`, `read_frame` | all sockets |
| Scanner daemon (scannerd) | job table and watches per connection | see scanner session and watch manager | |
| Raw scanners, scan stream, device discovery, doctor, client library, CLI, standalone window | - | read-only, presentation, or a copy of what the daemon does | |

All of `DaemonState` lives behind one mutex, but the work that takes long - the
scan, `save_index`, `save_index_state` - runs outside it. That is where the
difficult behaviour is: between two critical sections a thread holds data that
a cancel request, a forget request, another worker, the watch manager or a
crash may have made obsolete. The second source of difficulty is the way of a
change from a file to the table: the watcher tells of it after the fact, the
scanner daemon looks at the path later still, events are merged, records are
renumbered, and the window opens files by the number of a record. `PROJECT.json`
lists each such place as a hazard, at its line, with the property that would
catch it going wrong, or a note that says what keeps it out of the properties and
which configuration shows it.

What makes each component correct:

- **Index store**: the file under the snapshot name can always be loaded; a
  crash loses nothing that was served; disk and memory agree when nobody is at
  work; what is served is a state the device really had and never gets older.
- **Job queue**: the parallel-scan limit; ends are final and true; every job
  ends; a failing or cancelled job leaves the results alone.
- **Scanner session**: a scan ends with the result of its own job or an error;
  a cancel reaches the scanner; nobody waits for ever.
- **Watch manager**: a change that a watcher saw is served, or on its way, or
  the index is reported as stale; a scan loses no change but those made after
  its read and applied before its publish (which the code does lose); what is reported
  as watched is watched; what
  is changed in memory reaches the disk; nothing that was forgotten is written
  again; every request of the manager ends.
- **Coalescing and live index**: a coalesced batch means what the events mean;
  a batch leaves the index as a new scan would find the files.
- **Query language and search**: the rows are those that the query means, in the
  order that was asked for, as many as there is room for.
- **Window**: what is selected can be seen; what is opened is what was shown.

## 2. Modules

| Module | What it is |
|---|---|
| `IndexStore` | the files and the memory copies of the indexes; file operations as action fragments |
| `ScanJobs` | the job queue and its workers over the store |
| `IndexService` | the abstract specification of the store as its users see it |
| `ScannerSession` | one scan over one connection: worker, connection thread, scan thread |
| `LiveWatch` | the watch manager, the watch side of the scanner daemon and the stream between them, over the store |
| `Daemon` | `ScanJobs`, `LiveWatch` and the periodic rescan over one store and one configuration |
| `SearchIndex` | records, their paths, and the live updates that change them |
| `Rules` | exclude and include rules |
| `Coalesce` | what happens to a batch of events before it reaches the index |
| `LiveUpdates` | one watched device: files, watcher, scanner daemon, batch, index |
| `Text` | characters, case, bytes, looking for one text in another |
| `Query` | from the text in the search field to a request |
| `Search` | from a request to the hits of several indexes |
| `Meaning` | what a query means, without the steps of the program |
| `Desktop` | the window over two devices, one of them live: `LiveUpdates` and `Search` composed |
| `MCScanJobs`, `MCForget`, `MCLiveUpdates`, `MCDesktop` | instances for TLC; `MCForget` adds a history of forgotten devices |
| `IndexStoreProofs` | lemmas about the store's operations |
| `ScanJobsProofs` | theorems about `ScanJobs` and `MCForget` |
| `SessionProofs` | theorems about `ScannerSession` |
| `DaemonProofs` | theorems about `LiveWatch`, and about `Daemon`, which rest on them |
| `FoldProofs` | what a fold over a sequence computes, for any step |
| `LiveProofs` | theorems about `LiveUpdates` and the index under it |
| `SearchProofs` | theorems about `Search`: it finds and sorts what `Meaning` says |
| `DesktopProofs` | theorems about `Desktop`, which rest on those about `LiveUpdates` and `Search` |

There are three layers of composition. `ScanJobs` and `LiveWatch` each EXTEND
`IndexStore`; `Daemon` EXTENDS `LiveWatch` and INSTANCEs `ScanJobs` over the same
store variables and the same `config`. `SearchIndex`, `Rules`, `Coalesce` and
`LiveUpdates` EXTEND one another in the order in which an event passes them. `Desktop`
joins `LiveUpdates` with the search. The two halves meet in one abstraction:
`LiveWatch` sees a batch as a set of changes that is added to the index, `LiveUpdates`
shows what that step does to records.

### IndexStore

`snapshot[d]`, `snapshotTmp[d]` and `sidecar[d]` are the three files of a
device, `indexes[d]` and `indexStates[d]` the entries of `DaemonState`. An
index is abstracted to the set of file-system changes it reflects: that is
enough to tell an old index from a new one and a real one from an impossible
one. `Torn` is a file whose bytes `read_index` refuses.

`save_index` is three steps, because everything can happen between them:
`OpenTmp` (`File::create`: the file is now empty), `WriteTmp` (the `BufWriter`
has written its bytes) and `RenameTmp`. `saver[w]` is the open file of writer
`w`. An open file follows its inode, not its name: if another writer renames
the tmp file while `w` has it open, `w` goes on writing into what is now the
snapshot (`file = "snapshot"`), and if that is replaced in turn, into a file
without a name (`"unlinked"`). Two writers with the same file open may leave any
mixture of their bytes: `Written` lets the result be either index or `Torn`.
`save_index_state` also writes beside and renames; its files are small and read
back only after the daemon has the result in memory, so it is one step that
either succeeds or, because its error is ignored, changes nothing. `LoadSidecars` is
how they are read at the start: `normalize_watch_setup_sidecar` takes a recorded
desync for a watch that was never set up if the text of its error says "permission
denied". The text is not modelled; any of the sidecars that have the right state
(`SetupErrors`) may have it.

### ScanJobs

One action is one critical section of the state mutex, or one stretch of code
between two of them. `pc[j]` is the place of the worker of job `j`:

| `pc` | Code | Actions that leave it |
|---|---|---|
| `waiting` | `wait_for_scan_slot` 737-766 | `CancelledBeforeStart`, `AcquireSlot` |
| `starting` | 707-719, 1950-1956 | `BeginScan` (the device may have been disabled meanwhile) |
| `scanning` | `scan_with_scannerd`, index build | `ReadDevice` (stays), `ScanDone`, `ScanFails` |
| `built` | 783-790 | `CheckCancelled`, `BeginSave`, `CreateFails` |
| `saving` | `save_index` | `WriteSnapshot` (stays), `RenameSnapshot`, `SaveFails` |
| `saveState` | 794-801 | `SaveState` |
| `publish` | 803-828, under the lock | `PublishIndex` |
| `failing` | 844-857, not under the lock | `ClassifyFailure` |
| `failSave` | 858 | `SaveFailure` |
| `failPublish` | 860-872, under the lock | `PublishFailure` |

`StartScan`, `CancelScan`, `SetLimit`, `ReloadEnabled`, `Forget` and
`ForgetFails` are the requests; the periodic rescan starts its jobs through the
same function as a client. `Restart` is a crash at any moment followed by
`DaemonState::load`: threads, jobs and open files are gone, the disk stays.
`FileChange` is the rest of the world changing files.

Left out: progress percentages, messages, times, summaries, the `scanner_status`
report, and what belongs to `LiveWatch`. `max(1)` on the limit never applies,
because `validate_config` refuses zero. A message that contains "scan cancelled"
is only produced when the flag is set, so `ClassifyFailure` reads the flag alone.

### IndexService

For every device an index or none. It offers `Change` (the file system
changes), `Refresh` (some devices get an index that is real and at least as new
as the one they had) and `Forget`. `ScanJobs!ServiceSpec` says that `ScanJobs`
implements it with `served` mapped to `indexes`; every step of a worker except
`PublishIndex` is a stutter, `PublishIndex` and `Restart` are refreshes.

### ScannerSession

`ScanJobs` takes the exchange with the scanner daemon for one step that starts,
one that reads the device and one that ends. `ScannerSession` is that exchange.
`worker` is the place in `scan_with_scannerd`, `connection` the place in
`handle_client`, `scan` the place in `run_scan_job`; `requests` and `frames`
are the two directions of the socket. A frame carries the identifier and the
method it answers, and one of three verdicts: `ok`, `notReady` (the text the
worker goes on polling for) or `refused` (any other error).

- The two threads of the scanner daemon share the stream through a lock and
  write whole frames, so a frame is one element of `frames`. A full socket
  blocks a writer (`Room`); both writers then wait, one holding the writer lock.
- `finish_job_success` writes `scan_cancelled` with the job table locked
  (`TableLocked`): the connection thread cannot serve a request meanwhile.
- The worker reads events while it waits for its answer; it writes one request
  at a time. Its cancel request repeats the identifier of the last poll.
- A worker that leaves closes the socket: writes fail (`Gone`), and every write
  but the two that propagate their error ignores it.
- `Crash` kills the scanner daemon; the worker reads what was written and then
  the end of the stream.

`oxidexd` starts one scan per connection, so the job table has one entry; the
methods for watches and status are served by the same loop but never on this
connection.

### LiveWatch

`watch_manager_loop` is one thread that goes round and round; `at` is where it is:

| `at` | Code | Actions |
|---|---|---|
| `drain` | `ensure_scanner_watch_connection`, `drain_scanner_watch_frames` | `Connect`, `NoConnection`, `ReadFrame`, `DrainTimesOut`, `DrainFails` |
| `drained` | the 5 s between reconciliations | `SkipReconcile`, `Reconcile` |
| `stops`, `starts` | `reconcile_scanner_watches`, one device at a time | `StopWatch`, `StopWatchFails`, `StopsDone`; `KeepWatch`, `StartWatch`, `StartWatchFails`, `StartsDone` |
| `await` | `scanner_watch_request`: other frames are handled, and their batches applied, until the answer comes | `ReadWhileWaiting`, `StopAnswered`, `StartAnswered`, `StartRefused`, `WaitFails` |
| `apply` | `flush_pending_live_batches`, in a round or inside a request | `ApplyBatch`, `ApplyFails`; `BackToRequest` or `FlushRound` |
| `flush` | `flush_dirty_indexes`, one device at a time | `BeginFlush` (clone and create), `NothingToFlush`, `Sleep` |
| `saving`, `saved` | `save_index` without the lock, and what follows | `WriteFlush`, `RenameFlush`, `FlushFails`, `FlushDone` |

The stream `frames` holds events, errors, the report of an ended watch and the
answers. `link` says what has become of the peer: `closed` at a frame boundary,
which the manager takes for silence, or `broken` inside a frame, which is an
error. `skewed` is a stream whose reader has lost the beginning of a frame to a
time-out. `op` and `request` are the two sides of a request. `noted` is a history
variable: the changes that were made while a watcher watched.

A batch that cannot be applied, because the rules do not compile, is gone and marks
its index (`RefusePending`). That may happen in its turn (`ApplyFails`) and also when
a watch is stopped, before the request is sent (`StopWatch`, `StopWatchFails`). Only a
batch that changed something reports the device as dirty (`AppliedReport`).

A behaviour begins by choosing one of `Scenarios`, a set of the kinds of events that
may occur besides changes of files: overflow, error of the watcher, end of the scanner
daemon, a time-out inside a frame, a refused watch, unmounting, rules that do not
compile, file errors, denied permissions, a busy device, a restart, options, scans and
forget requests. The scan here is the one step `Rescan`; its own steps are in
`Daemon`. `Overlap = {"forget"}` lets a forget request meet a flush under way.

Left out: which directories of a device are watched and what happens when one of
them cannot be; times, counters and messages of the reports.

### Daemon

The job queue, the watch manager and the periodic rescan in one state. `Overlap`
says what may meet an active job of the same device: a second job, a forget, a
flush, changes that the watcher reports. The code keeps none of them apart, so
the complete system is `Overlap = {"scan", "forget", "flush", "change"}`. The
periodic rescan is `PollRescans`, which looks for candidates under one lock, and
`StartRescan`, which starts their jobs under later ones. A behaviour begins with
every device indexed in an earlier life of the daemon or not at all (`StoreLoaded`).

Two history variables say what a scan may lose. `since[j]` are the changes made since
the worker of `j` read its device, which its result cannot hold. If such a change is
applied before the worker publishes, it is in the index that the publish replaces and
nowhere else: these are `late[d]`. One that is still pending or in the stream is
applied to the new index later. `ChangesKept` says that of all that a watcher saw
nothing is missing in silence but `late[d]`: the code loses those (`v_rescan`),
and it must not lose more - what came before the read, what comes after the publish,
what is pending when a job starts, fails, is cancelled or ends, or when the watch is
given up and begun again in the middle of a scan.

### Rules, SearchIndex, Coalesce, LiveUpdates

A path is a sequence of names; `/` is the empty one. `SearchIndex` has the
records with the numbers of their parents and `internal_paths`, which the code
computes at the end of a batch while records are added, renumbered and removed
inside it: `index.paths` goes stale in the model exactly where it does in the
code. Walks along parents are recursive functions. A rule is the set of names or
paths that its glob matches.

`LiveUpdates` plays one device: files are created, changed, removed, renamed,
moved in and out; the watcher reports (`told`); the scanner daemon looks at the
path at that later moment (`EventOf`, `MetaNow`); events collect in a batch,
which is coalesced, filtered and applied (`ApplyBatch`). A scenario names what
may happen: `lag` (files change again before they were looked at), `batch`
(several events in one batch), `over` (a rename replaces a file), `mkdir`
(directories are made and removed), `dirs` (directories are renamed), `border`
(files come and go). The scan that an index begins with may come upon the files in
any order that names directories first. `Tame` says in which scenarios the index
must show the files (`ShowsTheFiles`); for each condition in it there is a
configuration that shows what goes wrong without it (below). In the window the
user can also have the device scanned again; the events that are under way when the
scan is published are applied to its result nevertheless. `ShowsUnscanned` is
`ShowsTheFiles` for users who do not, and `v_scan_late` shows why.

### Text, Query, Search, Meaning

A text is a sequence of characters, each with a code point, a lower-case form and
a width in bytes; whole words that only the query language knows (`ext:`,
`today`, `kb`) are one character of several bytes, so that trigrams of bytes are
what they are in the code. `Query` is the tokenizer, the filters and their
values, and the clauses; `Search` is the candidates from trigrams, the clauses
asked of a record, the score, the merge over devices, the sort and the cut.
`Meaning` says again what a query means, this time of the text and the names
alone, with no tokens, candidates or scores: it is what `Search` is compared
with. Some things can be asked that no documentation explains (`Undocumented`):
times compared with a date, ages other than "less than", and sizes below 0. Of
these `Meaning` says only that they are understood; for `size:<0` the bound
saturates in the code and the empty files are found.

Numbers are those of the program with smaller limits. The largest time is `MaxTime`
for `i64::MAX`, and `now - days * 86400` wraps around it (`Wrapped`), as it does in
a release build; a debug build panics there. `Meaning` leaves an age that
overflows open (`Undocumented`). A date is taken with the offset from UTC that
applies at the moment of the search, whatever the date, as `date_to_unix` does: that
is the constant `Offset`. Case is folded character by character (`Folded`);
`str::to_lowercase` looks at the neighbours of one letter, a final sigma, and makes
two characters of a few others, which the model has not.

### Desktop

`DaemonGuiApp` over two devices: one that `LiveUpdates` changes, and one that
stays as it is. The window types, erases, composes with an input method, chooses
a scope, filters and a sort order, selects, opens, closes windows with Escape,
scans and forgets in the index manager and refreshes; searches may fail. While an
input method composes a text in a field of the filter panel (`ComposeFilter`) the
filters are changed already and nothing is searched. Rows
keep what the daemon answered, and files are opened by device and record number.
`changed` is a history variable: the devices whose index or mount is not the one
from which the rows were made. Requests are one step: the window blocks on them.

## 3. Runs

Where the code lets two things happen at once that a user would do one after the
other, a constant says whether they may: `Overlap = {}` asks what holds for those
who do one thing at a time per device, the complete set asks what holds whatever
anybody does. Several properties need the first; the runs that expect a
violation, and the configurations beside them, show why.

| Run | Asks | Bounds |
|---|---|---|
| `jobs` | limit, job table, ends, what may change what is served, every job ends | 2 jobs, 1 device, 1 slot, 1 change, any overlap, file errors, restarts, fair workers |
| `careful_io` | loadable snapshots, results stay, abstract service | 2 jobs, 2 changes, limits 1 and 2, no overlap, file errors |
| `careful` | disk equals memory, outcome recorded, a forgotten device stays forgotten | 2 jobs, 1 change, limits 1 and 2, no overlap, no file errors |
| `session` | answers, cancellation, results of one scan; all threads end | a socket of 2 frames, 3 progress events, identifiers modulo 4, crashes, fair threads |
| `watch` | nothing noted is lost, clean is saved, watching is watched, snapshots never older, no revival | 1 device, 2 changes, a stream of 2 frames, three scenarios |
| `watch_liveness` | changes reach the disk, an incomplete watch ends, requests end | 1 change, one scenario, fair manager and scanner |
| `daemon` | changes kept, snapshots loadable, disk and memory in step | 1 job, 2 changes, a stream of 1 frame, four scenarios; files change, and changes are told and applied, at any point of a scan (`Overlap = {"change"}`) |
| `desktop` | the index shows the files, stays loadable, coalescing is safe; rows answer the query; selection and opening | scenarios in `MCDesktop`: seven of queries, seven of controls, four of changes under a search, nine of changes of files |
| `v_forget` | a forget during a job of the device | violated |
| `v_torn` | loadable snapshots with two jobs of one device | violated |
| `v_hangup` | a lost scanner daemon is reported | violated |
| `v_batch` | several events in one batch | violated |

Why the bounds are enough. Interference on a device is between two writers: the
properties relate one job with another, never three with each other; the limit is
proved for any number of jobs. `Jobs` bounds the jobs of one life of the daemon;
`Restart` gives the identifiers back, so a trace may contain any number of jobs.
Two changes distinguish "older", "newer" and "incomparable". In `careful` there
are no file errors because a `save_index_state` that fails is ignored by the
code, and disk and memory then differ on purpose.

Two frames are enough to have a full socket with an answer behind an event; three
progress events fill it more than once; identifiers modulo 4 have three values in
use, and a worker has at most one request under way, so that a repeated
identifier is repeated only after its answer was read. In `watch` two frames hold
an error or an answer behind an event. The devices of the manager share only its
thread and its connection; one device has every order of its own events, and the
theorems of section 5 hold for any number of devices, with interleaved rounds.

In `daemon` one job reads the device between the two changes or before or after
both, and each of the two may be applied before the publish or after it, so that one
change that is lost rightly stands beside one that must be kept. A second job of the
device is `v_torn`, a forget during a job `v_forget`, a flush `v_flush_scan`.

In `desktop` a query has up to five of the characters of its scenario, a tree
two levels and up to four changes. The scenarios are chosen along the branches of
the parser and the search: phrases and backslashes, negation, wildcards,
extensions, paths, types, sizes, times, letters of several bytes, tokens too
short for trigrams.

Deadlock is checked in every run of `ScanJobs`, `LiveWatch` and `Daemon` that is
expected to pass. `session` and `desktop` switch it off: a session ends, and a
window whose user and files have used up their bounds has nothing left to do.

### What the violations show

- `v_forget`: the index is forgotten and the request answered while the device has a
  job. In the trace that TLC finds the job is still queued at that moment; it may as
  well be past its cancel check. Nothing tells its worker, which saves its snapshot
  and publishes. The device the user removed is indexed again.
  `docs/user-guide.md:341` promises that the saved index is removed.
- `v_torn`: two jobs of the same device run (`start_scan_job` does not look for
  an active one, and only the periodic rescan does). The first has written its
  tmp file, the second creates it again, the first renames the empty file over
  the snapshot. A crash now loses the index, which `README.md:29` promises to
  reload.
- `v_hangup`: the scanner daemon ends at a frame boundary. `read_frame` reports
  that like a time-out, the manager sees silence, and as long as the wanted
  watches stay the same it sends nothing that could fail: the device goes on
  being reported as watched and fresh. `README.md:168` promises that a
  disconnected scanner marks the index stale.
- `v_batch`: a file is removed and another changed in one batch. The removal
  renumbers the records, `internal_paths` still has the old order, and the second
  event finds another record. `docs/user-guide.md:243` and `:245` promise that
  removed files go and metadata is refreshed.

### Further configurations

These are not part of the table above. Each one leads TLC to a behaviour in which
code and text part, at the source line named; run it with
`tlc -config X.cfg M`.

| Configuration | Module | What it shows |
|---|---|---|
| `v_unmount` | `LiveWatch` | daemon 1156: the watch of an unmounted device is stopped and its report removed; the index stays fresh (`docs/user-guide.md:247`) |
| `v_overflow` | `LiveWatch` | scannerd 822: a queue overflow reaches the callback as an event without a path, of which nothing is sent (`docs/user-guide.md:247`) |
| `v_busy` | `LiveWatch` | daemon 1425: draining ends only after 200 ms of silence; a device that is written to more often keeps batches from being applied (`README.md:168`) |
| `v_flush` | `LiveWatch` | daemon 1791: an index is cloned under the lock and saved without; a forget in between deletes files that the save brings back (`docs/user-guide.md:341`) |
| `v_skew` | `LiveWatch` | daemon 1432: a time-out inside a frame loses bytes; the events in them are lost in silence if the connection then ends for another reason (`README.md:168`) |
| `v_denied` | `LiveWatch` | daemon 1872: a desync is recorded with the error of the watcher; if the text of that error holds "permission denied", the next watch that cannot be set up, or a restart, takes the mark away, and the changes that were lost with the watch are lost in silence (`README.md:168`) |
| `v_rescan` | `Daemon` | daemon 811: a change applied after the scan read the device goes into the old index, which the scan's result replaces (`README.md:168`) |
| `v_flush_scan` | `Daemon` | daemon 1791: a flush renames its older clone after a scan has renamed its result (`README.md:29`) |
| `v_periodic` | `Daemon` | daemon 936: between the look for active jobs and the start of its own, the periodic rescan does not hold the lock (the test at daemon 2533) |
| `v_border` | `MCLiveUpdates` | scannerd 870: a file moved out of what is watched is told without metadata and dropped; its record stays (`docs/user-guide.md:243`) |
| `v_over` | `MCLiveUpdates` | core `index.rs` 825: a rename over a file leaves two records at one path (`docs/user-guide.md:244`) |
| `v_dir_lag` | `MCLiveUpdates` | scannerd 832: a file created in a directory that has been renamed since is never added (`docs/user-guide.md:242`) |
| `v_dir_again` | `MCLiveUpdates` | core `index.rs` 805: a directory is made, removed and made again; the creation of a file that is gone and back is told too early, and the file is put under the root (`docs/user-guide.md:242`) |
| `v_rules_one` | `MCLiveUpdates` | daemon 1597: a rule excludes a directory and not what is in it; what a scan leaves in its place, a live update puts under the root (`README.md:168`) |
| `v_rules` | `MCLiveUpdates` | daemon 1597: a directory renamed out of an excluded name is added without what it holds (`README.md:168`) |
| `v_include` | `MCLiveUpdates` | core `index.rs` 805: with include rules a new file may be put under the root (`README.md:168`) |
| `v_scan_late` | `MCDesktop` | daemon 803: a scan replaces the index and leaves pending events as they are; a rename that the scan has seen is applied again, and two records have one path (`docs/user-guide.md:244`) |
| `v_coalesce` | `MCLiveUpdates` | daemon 1673: a later event of the new name is merged in front of the rename that made it (the test at daemon 2512) |
| `v_unloadable` | `MCLiveUpdates` | core `index.rs` 805: after removals in the same batch a parent number may be out of bounds; the next flush writes a snapshot that `read_index` refuses (`README.md:29`) |

Some differences were met while modelling and have no configuration of their own.
A device unmounted and mounted again between two reconciliations stays reported
as watched. A row opens or selects by record number, so that after a live update
or a rescan it may open another file (`Desktop!AlwaysOpensShown` is the property
that does not hold), and a selection may move to another file. A query that
cannot be parsed leaves the old rows. Forgetting the device of the scope clears
the scope and does not search again. A list of indexes that is out of date hides
results behind "No indexes yet". A negated filter counts as an active one in the
summary of the filter panel. `size:<0` matches files of size 0. `mtime:>7d`
means newer than seven days. `path:"my dir"` and `-"phrase"` become plain
phrases, and a quoted text with `*` a wildcard. "Open Folder" on a directory
opens the directory itself.

## 4. Fairness

`ScanJobs!FairSpec` adds `WF_vars(Worker(j))` for every job: a worker is an
operating system thread that polls every 200 ms and takes the mutex for a moment
only, and the scanner daemon answers in the end. The last part is an assumption
on `oxidex-scannerd` and the kernel: the connection of a scan has no read
time-out, so a scanner that hangs makes a worker hang. Nothing is assumed of
clients, of the file system or of restarts. Weak fairness on the disjunction of
a worker's steps is enough because a waiting worker competes for a slot only
with workers that end: a slot that is free stays free or is taken by one of
finitely many jobs.

`ScannerSession!FairSpec` has weak fairness on each of the three threads and
none on cancel requests or crashes. That a scan ends is the bound
`MaxProgress`: a raw scan reads a finite device and either completes or fails.
The worker polls without a limit, so `SessionEnds` rests on the scan ending in
every case, with the table saying so.

`LiveWatch!FairSpec` has weak fairness on the manager and on the scanner daemon,
which are threads that are scheduled. What the manager does in a round depends on
clocks that the model leaves to chance: it reconciles when 5 s have passed,
applies a batch when its debounce has, flushes when `live_update_flush_seconds`
or `live_update_max_dirty_seconds` have. A clock that passes its mark stays past
it until the work is done, so these actions have strong fairness: a manager that
comes by again and again takes its turn. Nothing is assumed of files, devices,
options, requests, faults or restarts. `watch_liveness` leaves out hang-ups, lost
bytes, overflows and a busy device: with them the properties do not hold, which
is what `v_hangup`, `v_skew`, `v_overflow` and `v_busy` show.

`Daemon` and `Desktop` state safety only.

## 5. Proofs

`PROJECT.json` lists the theorems. They are proved in eight modules
(`IndexStoreProofs` has lemmas only), for all values of the constants that
satisfy the named assumptions: `StoreAssumption` (the marker values are not
indexes), `SidecarAssumption` (nor sidecars), `JobsAssumption` (a finite set of
jobs, positive limits), `SessionAssumption` and `WatchAssumption` (sizes are
positive, the flusher is a writer), `DaemonAssumption` (no job is the flusher),
`LiveUpdatesAssumption` (below), `IndexAssumption` (a bound on walks), and for the
search `TextAssumption`, `QueryAssumption`, `SearchAssumption` and
`DesktopAssumption` (letters have letters as their lower-case forms, and a blank, a
dot and a comma have no other case; what is typed and how names are written are
sequences of characters; files have sizes below `u64::MAX` and times; the second
device is a tree of files as well).

**ScanJobsProofs**: `TypeCorrect`, `JobTableCorrect`, `SlotBoundHolds`,
`SlotGrantHolds`, `TerminalFinalHolds`, `ServedOnlyByFinishedJobHolds`. All rest
on one inductive invariant, `IInv`: the types, `JobMatchesWorker`, and two facts
about unused jobs (`UnusedIsClean`: no cancel flag is raised before a job exists,
or the new job could be `Queued` with a raised flag) and used ones (`HasDevice`,
without which a worker would read the sidecar of no device). `JobMatchesWorker`
is stronger than the properties need at first sight: that a polling worker's job
is `Queued` or `Cancelled` has no meaning to a user, but without it a job that
has finished could be revived by `CancelledBeforeStart` in a state that no run
reaches and the induction must exclude. The limit is proved through a change of
view: the code counts jobs whose state is `Running`, the promise is about workers
at work, and `JobMatchesWorker` makes the two sets equal (`BusyIsRunning`). Only
`AcquireSlot` adds to the set (`BusyStep`), and it fits (`GrantFits`).
`SlotGrant` - a slot is taken within the limit of that moment - is proved and not
checked by a run.

The second part, with `Overlap = {}`, one active job per device, without which
the results are false (`v_torn`): `SnapshotLoadableHolds`, `ResultsStayHolds` and
`ImplementsService`, the refinement. The invariant, `StoreInv`, says who may touch
what: two active jobs have different devices (`Exclusive`); the open file of a
worker is the tmp file of its device while it saves and closed otherwise
(`SaverInv`); a worker holds an index from the read of the device to the publish
(`HeldInv`), and it is real and at least as new as the one on disk (`NewerInv`);
a served index is on disk too, in the same version or a newer one (`ServedInv`).
A restart is what makes `NewerInv` and `ServedInv` necessary: it replaces what is
served by what the snapshot holds, which must not be older.

The third part, with `IoErrors = FALSE` as well (a sidecar that cannot be written
is ignored by the code, and disk and memory then differ on purpose):
`SnapshotMatchesHolds`, `SidecarMatchesHolds`, `OutcomeHolds` and
`ForgottenHolds`. `RecordInv` adds to `StoreInv` that the files of a device are
the copies in memory except where a worker is between its write and its publish,
and that what such a worker carries is then what the file holds already.
`OutcomeHolds` is an action property: a worker arrives at its last step only with
a sidecar on disk that says how its job ends. `ForgottenInv` says why a forgotten
device stays so: it has no active job, and only a job of the device or a restart
brings an index back.

**SessionProofs**: `SessionTypes`, `AnswerHolds`, `CancelHolds`, `ResultHolds`,
`CancelledHolds`. `SessionInv` is the types with two halves. `TalkInv` says that
at most one thing is under way between worker and connection thread - a request,
an answer being made, or an answer in the stream - and that it is what the worker
waits for; the repeated identifier of the cancel request is harmless for that
reason and no other. `JobInv` relates the table, the scan thread and what the
worker believes: a started worker has a job, a finished one a result, a
cancelled one a raised flag.

**DaemonProofs** begins with the watch manager by itself. The first of three parts is
`WatchTypesHold`, and the two invariants that the others share, `WatchTypes` and
`MadeInv`: what is in the stream, pending, noted, indexed or on disk has happened.

The flush, with `"forget" \notin Overlap` (a forget meets no flush under way,
without which the results are false, `v_flush`): `CleanHolds`, `NeverOlder`,
`NothingRevived`. `FlushInv` says that the tmp file that the manager has open holds
its clone, which is still the index in memory, and that nobody else writes that
device; `Saved(d)` relates file and memory of a device from round to round: what is
not dirty is on disk, and what is on disk is not newer than what is served. The
lemmas ask of other writers only that they keep apart (`OthersApart`), so that they
serve in `Daemon` too.

The stream: `NotedHolds` and `WatchingHolds`. For the first, `KeptInv`: a change moves
from the stream to the pending batch and from there to the index; wherever it leaves
this path, the index is marked stale, and only a scan takes the mark away, after which
the index holds all that has happened - this last step is `MadeInv`. (`KeptInv` has a
parameter for what may be missing, nothing here.) `NotedIsKept` excludes denied
permissions, which take the mark away as well (`v_denied`), overflows and skewed
streams. For the second, `WatchedInv`: at most one answer is in the stream, it belongs
to the request the manager waits for (`OpInv`, `AnswerInv`), and it says "ok" to a
start only if the watcher runs; then what is reported (`ShownInv`) is what is active
(`ActiveInv`). With this all six properties of run `watch` are proved for any number
of devices and changes and any length of the stream.

Then the daemon: `ChangesKeptHolds`, `DaemonLoadable` and `DaemonServesSaved`, the
three properties of run `daemon`, for any number of jobs and devices and with
`Overlap \subseteq {"change"}`: a device that has a job is not scanned twice,
forgotten or flushed before the job ends, but its files change, and the manager
hears of it and applies it, at any moment. What each of the three others leads to
is what `v_torn`, `v_forget` and `v_flush_scan` show. A step of the daemon is one of
the manager or one of a worker (`LiveStep`). For the first, the lemmas about the
manager hold once `AloneInv` is known - a device belongs to at most one of a job and
the flush. For the second, `WriterInv` (the tmp file of a worker is its own),
`HeldInv` (what a worker holds, and when) and `FilesInv`: each device is `Saved`, or
a worker of it is between its rename and its publish, which is why `ServedIsSaved`
leaves out the devices that a worker is finishing. `TableInv` is the part of the
agreement of jobs and workers that this needs.

`ChangesKeptHolds` rests on `ReadInv`: what a watcher has seen of the device of a
worker that has read it is in what was read or in `since`. It holds when the device
is read, because only what has happened is noted (`MadeInv`), and a change that is
noted later is added to `since` in the same step (`OthersRead`). At the publish
`KeptInv(late)` follows from it, with what is on its way taken off (`WorkerWatch`);
a worker that fails leaves the index and marks it stale; and the steps of the manager
keep `KeptInv` for any set of changes that may be missing (`OthersKept`).

**FoldProofs**: `FoldAppend` and what follows from it. A batch is folded four times on
its way to the index, and what a fold computes for a sequence of any length needs an
induction. The library's induction theorems take an operator as a parameter and cannot
be cited here; the induction over *one set of numbers* (`NatSet`, from the
well-foundedness of `<`) can, with the set of the lengths for which the claim holds.
The step of the fold is the module's constant, so that each fold of the model is an
INSTANCE (`LiveProofs!Folds`). `FoldKeeps`: what every step keeps, the fold keeps.
`Iteration` says that a function on the numbers may be defined by its first value and
a step, which the walks along parents need.

**LiveProofs**: `UpdatesHold` and `ShowsHold`, and through **DesktopProofs**
`LoadableHolds`, `TellsHolds`, `CoalescingHolds` and `UnscannedHolds` of the window's
specification, in which searches and (but for the last) rescans go on beside the
changes. They hold for any names, versions, rules and scenarios: trees and batches of
any size. The invariants:

- `LiveInv`: the files are a tree; and as long as every event is a batch of its own,
  each record's parent is a record or the root and each record has a path
  (`IsIndex`). The hard part is what a removal does to the numbers
  (`KeptNumbers`, `CompactedAreRecords`).
- `TellsInv`: the batch and, behind it, the reports that nobody has looked at yet,
  carried out on the files as they were, give the files as they are. That the
  unread reports belong to it is what makes it inductive; looking at a report then
  changes nothing (`CallbackTells`), and a new change has to be shown to mean the
  same after all that came before it. A rename is reported three times, twice with
  nothing to find, and the meaning of a renamed directory is that of all that it
  holds (`RenameMeant`).
- `OnceInv`: what coalescing leaves of a batch without renames is one event for every
  path that has changed, and it says what is there now (`TellsOnce`). That this is
  enough is again an induction (`Reached`, `OnceIsEnough`): after the first `n` of
  the events, their paths are as they should be, and no path has got worse.
- `ShowInv`, for `ShowsTheFiles`: what the events that are left do to what the index
  shows.

The last is the longest argument, in four steps.

1. *Paths.* A list of paths fits the records if each record has the last name of its
   path and its parent is the record of the path's front (`ArePaths`).
   `build_path_for` finds the path that fits (`PathForIs`), by induction over its
   length, so that there is one fitting list only, the one that
   `rebuild_accelerators` makes (`RebuiltPaths`).
2. *One event.* An index shows some files if its paths fit, no two are the same, and
   paths and metadata are those of the files (`Shows`). `Link(rules, from, e, to)`
   says that the event takes every index that shows `from` to one that shows `to`.
   There is one lemma for every outcome in `apply_live_event_without_rebuild`: an
   event about nothing, new metadata, a record added, removed, moved with all below
   it, added in place of a move, removed in place of one (`LinkMetadata` to
   `LinkRenamed`). Removal is hard because of the new numbers (`CompactedShows`), a
   move because of the paths of what is below (`RelocateShows`). A scan shows the
   files (`ScannedShows`), `filter_index` what the rules allow of them
   (`FilterShows`), if they allow the directories of what they allow
   (`ClosedRules`), and what shows the same files lists the same (`ShownAlike`).
3. *Looked at in time* (no `lag`). The events that are left lead, one `Link` after
   the other, from what is shown to the files as they are (`ChainInv`). A change of
   the files adds a link at the end, applying an event takes one from the front.
4. *Looked at late* (`lag`, and only files change). Then no such chain exists: what
   an event tells is not what was there when it happened, and the files between two
   events were never there. Instead the events are true of each path by itself
   (`TrueOf`): nothing appears at a path twice without leaving in between; the last
   event with which something appears or leaves says whether it is there; the last
   that tells of it has the metadata that it has now; and if there is none, the index
   is right already. Reports that have not been looked at keep this when the files
   change, because they will tell what is there then (`TrueOfRetold`). A late event
   does to each path what it says (`LateEvent`), because the directories have stayed
   (`Rooted`, `OfFiles`).

What is to be shown is in reach of `build_path_for` because no path gets deeper than
`MaxDepth` (`WithinDepth`).

`LiveUpdatesAssumption` says that the files of a scenario are a finite tree with a
root (`IsTree`: every path but `/` lies in a directory), that names are names, that
the marker for "not there" is no metadata, and that no path has more than `MaxDepth`
names (4096 in the code, and no path of Linux is longer in bytes): what any file
system is.

**SearchProofs** compares the program's search with `Meaning`, for all texts.

- *Reading.* `tokenize_query` goes through a query once, with a state; the meaning
  looks at the whole query and asks of every place how it is read. `ReadAll` relates
  the two after every character: where the word began, what of it has been kept, and
  that the tokens are the words that gaps have ended (`ReadSoFar`). `TokensAre`
  follows, and `RequestsAre`: a query is refused if and only if it is not well
  formed.
- *Patterns.* `wildcard_matches` takes the first place of every part and never goes
  back. That nothing is lost is `WildEnds`: behind a star the text may go on
  anywhere after the first place of the part before it, so that the set of all ends
  that the meaning keeps (`Glob`) is always an interval that this place determines.
  The last part is looked for at the end (`WildcardIsGlob`).
- *Filters.* Each parser of a value yields one value or none (`SizesAre`,
  `DaysAgoAre`), a comparison or a range of values one interval, and the interval is
  what the filter means (`SizeFilter`, `TimeFilter`, `ExtensionFilter`). `WordMeans`
  puts them together: a word, taken apart by `parse_clause`, has clauses that hold of
  a record if and only if the word fits it; `RequestMeans` is that for the query.
- *Candidates.* What occurs in a name has no trigrams of bytes that the name has not
  (`TrigramsOccur`), however many bytes its characters have, and the parts of a
  pattern occur where the pattern matches (`WildcardParts`).
- *Order.* `InOrderOf` is a bijection onto the hits that goes with the keys
  (`Sorted`), because the lexicographic order is total on keys that differ.

**DesktopProofs** has first `SelectionHolds` and `OpenHolds`, for all files,
queries and scenarios, from `WindowInv`: the selection is a row, and the rows of a
device that has not changed show the paths of their records. `UnscannedHolds` needs
that only devices are scanned that the user has scanned (`ScanInv`).

Then `RowsHold` and `ExactHolds`, the two that speak of everything at once: files,
index, search, window. The inductive invariant is `TableInv`:

- whatever batches were applied, also those that leave an index `read_index` would
  refuse, every record has a name, a size and a path (`HasPaths`, `BatchHasPaths`),
  which is all that a search reads (`IndexSearchable`);
- what the controls hold was typed (`Panel`);
- and the rows are the answer for the controls as they are, or the last search ended
  otherwise, or something has changed since (`RowsMade`). The hard cases are the ones
  that change what was asked without asking again: a text that an input method shows
  and a forgotten device that was the scope.

From the invariant, `SearchFinds` says what one index yields, without a miss by the
trigrams; `MergeIs` that all hits of all devices are listed once and in order; the
keys differ, because they end with device and record (`HitKeys`), and go with the
order that the user chose (`KeysInOrder`, where a text that is the beginning of
another comes first thanks to its end mark); and the cut at the limit leaves out
only what comes later (`MadeAnswers`). A name has the best score exactly if it is
one of the words (`MatchScores`, `ExactIs`), and the score is the first number of
the key (`RelevanceFirst`), from which `ExactHolds`.

With this every invariant and every action property of the runs that pass is
proved. Only model-checked: liveness, out of the prover's reach.

## 6. Plan

Done: the store with the job queue, the scanner session, the watch manager, their
composition in `Daemon`, live updates with coalescing and rules, the search with
its meaning, and the window over both.

Left, in this order:

1. The snapshot format: `write_index`, `read_index` and `validate_index` as one
   inverse of the other, and what they refuse.
2. The configuration file and its two writers, the daemon and the standalone
   window.
3. The standalone window (`OxidexApp`), which keeps its own indexes.

## 7. Not modelled

- **Snapshot bytes**: whether bytes can be loaded is the one value `Torn`, and
  `StaysLoadable` for what live updates do to parent numbers.
- **Configuration file and its keys** other than the limit, the enabled devices,
  `watch_mounted` and `max_results`; the file is written in place by one request.
- **Standalone window**: it does in one thread, with its own indexes, what the
  daemon does, and shares `SearchIndex` and `Search`.
- **Settings, themes, fonts, translations, clipboard** of the window: presentation.
- **Client library and CLI** beyond "any request at any time": one blocking
  request per connection, then text.
- **Device discovery and doctor**: they read `/dev`, `/run/udev` and mount
  tables; the set of devices is a constant.
- **Raw scanners**: the parsing of NTFS, ext and Btrfs structures is data layout.
  What the daemon relies on is modelled: a scan reads the device at one moment or
  fails, and may come upon the files in any order.
- **Directories of a watch**: which ones are watched, and what happens when one
  cannot be.
- **`explain_search_query`** and the cached sort orders, which the results do not
  depend on.
- **Packaging, systemd units, the launcher extension**, and the vendored `egui`
  and `ext4` crates: not the program's own logic.
