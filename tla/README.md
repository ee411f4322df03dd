# tenuto: a verification development

tenuto is a terminal audio player written in Rust (crate `tenuto`, `src/src/`): local
files, podcast episodes over HTTP, and internet radio. This directory holds TLA+ models
of its concurrent core, the TLC configurations that check them, and TLAPS proofs about
them. Paths below are relative to `src/src/` unless they start with `src/`.

## 1. The system

The program is one process with a handful of threads (docs: `src/docs/architecture.md`
sections 4, 5, 7 and 9):

* the **runtime thread** runs the terminal UI, the session policy and the playlist, and
  owns an `EngineHandle` and a `WriterHandle`;
* the **decode worker** (`playback/engine.rs`) owns the source, the decoder and the audio
  device; it takes commands from a bounded queue and an interrupt word;
* the **output callback** (`playback/callback.rs`) is called by the audio backend on its
  realtime thread;
* a **fetch task** per open HTTP source fills the shared byte channel
  (`http/channel.rs`), from which the worker's decoder reads, blocking;
* the **state writer** (`persistence/writer.rs`, thread `tenuto-state`) writes snapshots;
* short-lived **workers**: browsing, artwork, spectrum analysis, feed refresh.

### Inventory

| Component | State it keeps | Operations | Interacts with | What is hard, and what makes it correct |
|---|---|---|---|---|
| State writer (`persistence/writer.rs`) | keep-latest slot, sequence numbers, `failing`, closing flag, acknowledgement | `submit`, the thread's wait/coalesce/write/retry, `shutdown`, `Drop` | runtime (producer), the state file | a failed write put back while a newer one arrives; shutdown racing its timeout. The newest snapshot is never lost; what is reported written is on disk; a filled slot is due in a bounded time |
| Playback engine (`playback/engine.rs`, `command.rs`, `state.rs`, `reconnect.rs`, `wait.rs`) | state, descriptor, capabilities, source, transport, pending intent, outage, current load; interrupt word; command queue | `submit`, interrupts, nine commands, the loop, `rebuild`, reconnection, the wait hook, shutdown | runtime, channel, outbox, callback | out-of-band retirement racing dispatch; cancellation in every blocking step; failures inside failures. One outcome per load; stops and shutdowns are heard; recovery is scheduled exactly when the session is recovering; no fetch or stream is left behind |
| Event outbox (`playback/outbox.rs`, `event.rs`) | pending events, channel, disconnection | `emit`, `flush`, `offer`, `take_remaining` | worker, hook, application | reserved slots, cap and displacement, reentrant emission. Order is kept; only ordinary events are lost; the backlog is bounded and clears |
| Callback, handshake, timeline (`playback/callback.rs`, `handshake.rs`, `link.rs`, `timeline.rs`) | control and ack words, PCM and span rings, held-back span, generation, epoch, timeline | `fill`; `start_running`, `release`, `park`, `freeze_and_capture`, `discard`, `install`; `accept`, `played_frames` | worker, hook, device, spectrum registry | a fill in flight across a handshake; a full span ring; timeouts. A parked callback is still and accounted for; no stale audio; a position never ahead of what was heard |
| Source channel (`http/channel.rs`) | buffer, generation, outcome, retired, frozen, stall budget | `begin`, `push`, `finish`, `read`, `retire`, `freeze`, `thaw` | fetch task, decoder, hook, front end | a read spanning a generation change, a retirement or a freeze. Bytes and outcomes belong to the reader's generation; a retired read returns |
| HTTP source and service (`http/source.rs`, `service.rs`, `response.rs`) | offset, length, validators, latched outcome | `open`, `read`, `seek`, `Drop`; request, redirect, range checks | channel, engine | a range answered with another representation; a latched failure. A position maps to the bytes of one representation |
| Session policy (`session.rs`, `resume.rs`) | registered loads, adopted load, revision, completion, pending forced checkpoint | `register_load`, `retract_load`, `observe`, `tick`, `remove_entry`, `shutdown_snapshot`, `reconcile_shutdown` | engine events, runtime, writer | late events of a superseded revision, declined loads, estimated positions. A checkpoint names the media it was measured on; completion and advance happen once |
| Player runtime (`application/runtime.rs`, `transport.rs`, `view.rs`, `app.rs`) | session, playlist, engine handle, pending admissions | `pump`, `handle`, `submit_load`, `observe_event`, `vacate`, `shutdown` | everything above | a command refused by a full queue; removal of the playing entry; the order of shutdown |
| Playlists and queue (`playlist/`) | named playlists, order, cursor, never-reused identifiers | add, remove, move, rename, next/previous | runtime, queue codec | identifiers after removal and restart; cursor after edits |
| Durable files (`persistence/atomic.rs`, `json_file.rs`, `store.rs`, `model.rs`, `queue_codec.rs`) | a file, its writable flag, quarantine names; remembered positions, stored queue, allocators | `replace_bytes`, `load`, `save`, `quarantine`; `record`, `evict_one`, encode and decode of the queue | writer, session, other players | crash between write, fsync and rename; a malformed file that cannot be moved; a damaged queue. What cannot be used is kept; an identifier never names two entries |
| Library (`library.rs`, `subscription/`, `station/`, `application/feed_ops.rs`, `commands.rs`) | subscriptions, stations, one cache per feed, the subscription lock | subscribe, refresh, unsubscribe, station add, probe and remove | network, two files, other processes | a two-file commit under crashes and concurrent processes. No committed change is lost; a subscription has its cache; a report is true |
| Seek bursts (`application/seek.rs`) | burst target, hold, awaited answers | press, tick, flush, answered | runtime, engine | the display held at a target whose answer never comes |
| Covers and metadata (`application/cover.rs`, `enrich.rs`, `artwork/worker.rs`) | wanted cover, cover ahead, one slot; metadata backlog and generation | want, ahead, poll; request, cancel, apply | runtime, playlists | a result for an entry that was left; entries forgotten by a cancellation |
| Browsing (`tui/browser.rs`, `application/browse.rs`) | tab, place, rows, marks, prompts; the worker's queue | keys, requests, `apply` | library, file system | an answer for a view that was left |
| MPRIS bridge (`application/mpris/`) | the latest snapshot, what was published, cover file, request queue | `pump`, `publish_snapshot`, `apply_at`, `set_volume` | runtime, desktop | snapshots overwritten unread; a desktop left showing another state |
| Process lifecycle (`lifecycle/`, `tui/mod.rs`) | stages, marks of what was changed about the terminal, panic and signal flags | `run`, `start_and_loop`, `run_loop`, `teardown`, the panic hook, the listener | every thread | a hook that restores while the main thread enters, draws or restores. The terminal is given back; the exit status is true |
| Spectrum, decoding and resampling, feed parsing, drawing | see `PROJECT.json` | | | numeric or text code, little state of their own |

### Interaction in one paragraph

The runtime submits a command; a seek, pause, stop or shutdown also *reaches out of band*
into the source channel, because the worker may be blocked in a read and would not look
at its queue. A blocked read calls the *wait hook* on the worker's thread every slice; the
hook may park or release the callback, publish progress and flush events, but holds no
decoder. Handlers emit events to the outbox, the application drains them, the session
policy turns them into snapshots, and the writer puts the newest snapshot on disk.

## 2. Modules

| Module | Models | Source |
|---|---|---|
| `KeepLatest` | the abstract promise of the writer: a register that moves only forward, to values that were handed over | `persistence/writer.rs` (its module documentation) |
| `StateWriter` | the writer in full: two-step `submit`, the thread, failing writes, shutdown with timeout, `Drop` | `persistence/writer.rs` |
| `PlaybackEngine` | the worker, its commands, the front end, the hook, the interrupt and freeze level; composes the engine with the part of the channel it shares | `playback/engine.rs`, `wait.rs`, `reconnect.rs`, `http/channel.rs` |
| `OrderedEvents` | the abstract promise of the outbox: events are delivered in the order of emission, and none that is owed is lost | `playback/outbox.rs` (its documentation) |
| `EventOutbox` | the outbox under the worker's loop, the hook and an application that may vanish | `playback/outbox.rs`, `engine.rs` (loop) |
| `OutputHandshake` | callback, device, handshakes, timeline, and the worker and hook that drive them | `playback/callback.rs`, `handshake.rs`, `link.rs`, `timeline.rs`, `engine.rs`, `wait.rs` |
| `DurableFile` | one versioned file: load, rejection and quarantine, atomic replacement step by step, power cuts | `persistence/atomic.rs`, `json_file.rs`, `store.rs` |
| `StateFile` | one session over `state.json`: `StateWriter` with `DurableFile` as its sink, the profile lock, the end of the session, crashes, a second player | `application/profile.rs`, `app.rs`, `persistence/` |
| `Playlists` | the playlist set as a value: lookup, removal, clearing, deletion with its successor, the cursor | `playlist/set.rs`, `playlist/queue.rs` |
| `PlaylistStore` | every edit of the set with its allocators, what is stored, recovery from a damaged document, remembered positions with their eviction; extends `Playlists` | `playlist/`, `persistence/queue_codec.rs`, `model.rs` |
| `Session` | the session policy as a value: load registrations, ownership, adoption, every media event, samples, the checkpoint writes | `session.rs`, `persistence/model.rs` |
| `PlayerRuntime` | the front end's loop over `Session` and `Playlists`, the command queue and interrupt, and an engine reduced to its events and progress | `application/runtime.rs`, `transport.rs`, `resume.rs`, `app.rs`, `playback/engine.rs` |
| `SeekBurst` | the burst of arrow keys, its flush, the queued seeks and every answer that releases the hold | `application/seek.rs`, `runtime.rs` |
| `Covers` | the cover of what plays, the one ahead, the one worker and its slot | `application/cover.rs`, `artwork/worker.rs`, `runtime.rs` |
| `Enrichment` | metadata workers, backlog, generations, re-offers | `application/enrich.rs`, `runtime.rs` |
| `MediaControls` | snapshots to the D-Bus thread, what a desktop shows of them, volume, cover file, requests | `application/mpris/`, `runtime.rs` |
| `HttpSource` | fetch tasks, accepted answers, the shared channel, the reading and seeking end, retirement, freeze and deadlines | `http/service.rs`, `response.rs`, `channel.rs`, `source.rs` |
| `Library` | subscriptions, caches and stations changed by several processes | `library.rs`, `application/feed_ops.rs`, `subscription/`, `station/` |
| `Browser` | the browser over the player and its worker | `tui/browser.rs`, `tui/mod.rs`, `application/browse.rs` |
| `Lifecycle` | a run of `tenuto tui`: stages, terminal changes and marks, panic hook, signals, teardown | `tui/mod.rs`, `lifecycle/` |
| `MCStateFile`, `MCLibrary`, `MCPlayerRuntime`, `MCHttpSource` | instances: directories, feed lists, playlists and plans of commands, object sizes | |
| `MCProcess`, `MCEngineEvents`, `MCApplication` | instances of modules that share no state, side by side in one run | |
| `StateFileProofs`, `PlaybackEngineProofs`, `PlayerRuntimeProofs`, `PlaylistStoreProofs` | the theorems about the module each is named after (the first also those about `StateWriter`) | |
| `FinalPositionProofs` | the theorems about what `PlayerRuntime` leaves in the state file, what it agrees on at rest and what an end of track leads to, over the invariants of `PlayerRuntimeProofs` | |
| `EngineEndsProofs` | the theorems about the ends of the engine, `EventOutbox`, `OutputHandshake` and `HttpSource`, which share no state | |
| `ApplicationProofs` | the theorems about the parts that share no state with one another: library, browser, seek bursts, covers, metadata, desktop, lifecycle | |
| `Counting` | lemmas the proofs share: how many members of a sequence are of a kind, and what appending, dropping and inserting do to that number | |

The modules that put others side by side deserve a word. `EventOutbox` takes the engine for a
script of handlers, `Lifecycle` its worker for a thread that may panic, and the parts of
`MCApplication` reach one another only through what their modules already take as inputs (keys,
events, answers). So there is no joint behaviour to check, and a variable chosen at the start
(`inside`, `side`, `part`) says which part runs while the others stand at an initial state: the
state space is the sum of theirs, and each property is checked in all of its part's states.
`StateFile` and `PlayerRuntime` do compose what interacts.

How state corresponds: a variable carries the name of the field it stands for, and its
comment names it; variables marked *history* exist for the properties only and no guard of
the code's model reads them. How actions correspond: an action is a handler or the stretch
of one up to the next point where another thread can matter.

**StateWriter.** `submit` is two steps (the number is drawn before the slot is locked,
`writer.rs` 221), because that gap is where order can be lost. The thread's pass is: wait,
take, write (outside the lock), conclude; a failed write re-enters the slot unless
something newer is there. Time is a tick counter of the slot's age.

**PlaybackEngine.** The worker's fields are one record `w`; every helper method is an
operator from such a record to the next, and a handler composes them in the code's order.
`job`/`at` say which handler is blocked where (open, land, seek, device call, read). The
front end is two steps, send then reach out, or raise then retire. The order differs per
request exactly as in the code.
A position is "at the target or not". Media kinds: a local file; an episode whose server
answers ranges; one whose server does not ("fixed"); a station.

**StateFile.** Extends `StateWriter`: a write of the thread is `DurableFile`'s create, sync,
rename, directory sync and conclusion, each of which may fail, with a crash or a power cut
between any two. After a power cut the directory is as it was after some step not older than
its last successful sync. The second player is one action per thing it can do to the file.

**HttpSource.** A byte is its offset and the validator of the answer that brought it, so that
"the same representation" is a comparison; budgets are a timeout that may pass whenever the
code charges it. `PlaybackEngine` uses the same channel with its bytes abstracted.

**PlaylistStore.** An identifier is a number up to `MaxId`, which stands for `u64::MAX`;
damage replaces a record, duplicates an identifier or breaks a counter of the document.

**Library.** An operation is its steps between lock, network, cache and list; any process may
die, and any write fail, between two.

**Lifecycle.** A change is made first and marked after; the restoration takes the mark first
and undoes after. The redirect of fd 2 is one of the changes and its take-once slot the mark.

**EventOutbox.** An event is its kind (ordinary, terminal, protected) and its number.
Handlers are the sequences of kinds they emit; the hook may emit and flush in between.

**OutputHandshake.** A fill is two steps, because the worker may publish between the load
of the control word and the acknowledgement. `await_ack` is a loop of pops and looks, so
that the callback may act between any two. A span is one frame. The device plays the
submitted spans in order, any time later; the predicted instants of a span are its place
in that order. `mode` records what the last handshake established.

**PlayerRuntime.** `session.rs` and `playlist/` are pure, and so are `Session` and
`Playlists`: a method is an operator from the fields before the call to those after it, and
the variable `s` of `PlayerRuntime` is the session. The front end's pass is drain, one event
per step with the stop request it may raise answered right after it, then advance, then one
sample of the progress; between passes it carries out one command. The engine is its
handlers as single steps that append their events and publish their progress, in the order
in which `PlaybackEngine`'s do; a load in flight is the exception, since what matters here
happens while it opens. A position carries what it is a position of and what it is worth,
which the code does not see, so that a property can tell an estimate stored as established
from one stored as an estimate.

## 3. Properties and runs

| Run | Checks | Distinct states (about) |
|---|---|---|
| `writer` | `NewestAlive` (the newest snapshot is on disk, in the slot, held by the thread or about to enter the slot, until a closing write fails); `WrittenMeansSaved`; `CoalesceBound`; `FileSurvives` (whole, nothing lost that this build cannot use, undisturbed by a second player); `FlushIsTrue`; `RegisterSpec` (refinement of `KeepLatest`); `EventuallyOnDisk` (liveness) | 340 000 |
| `engine` | `LoadAnsweredOnce`; `RecoveryIsScheduled`; `NothingLeftOpen` (types; what is closed holds nothing; no orphan fetch); `CancelledByARequest`; `IntentKept` (action property); `LeavesAsFound` (lifecycle: once a run is over every change to the terminal is undone, and its outcome is the right one) | 2.8 million |
| `engine_events` | `RequestsConclude` (a stop and a shutdown are heard, a load is answered); `LimitsKept` (types, reserve and cap of the outbox); `DeliversInOrder` (refinement of `OrderedEvents`); `BacklogClears` (liveness) | 370 000 |
| `handshake` | `ParkedIsStill`; `HeardIsCurrent` (types, no stale audio, mapped before heard); `ParkLosesNothing`; `NotAheadOfHeard`; `HandshakesEnd` (liveness) | 920 000 |
| `runtime` | `CheckpointsWereHeard` (a checkpoint is a position of its own media, and was heard); `PendingIsOwed`; `SessionAgrees` (types; cursor, adopted entry and saved media); `RestAgrees` (a stop for what was removed or refused never reaches the load asked for since, and nothing the session disowned stays audible); `EndsAreHeeded` (action property: every playthrough that runs to its end completes its media and advances once, under a load that is restarted too); `FinalCheckpoint` | 3.4 million |
| `application` | `NoLostCommit`, `EveryFeedHasItsCache`, `ReportIsTrue` (library); `ShownIsMeant` (browser); `HoldIsOwed` (seek bursts); `CoverIsOfPlaying`; `EveryFileIsProbed`; `SetStands` (the queue and its identifiers through edits, damage and recovery), `CurrentIsRemembered`; `DesktopShowsThePlayer`; `BytesAreThose`, `CompleteIsPromised` (HTTP source) | 1.2 million |
| `engine_pause`, `engine_outage`, `engine_shutdown`, `handshake_priming`, `runtime_estimate`, `http_interval` | one property each that a comment or a design document states and the code breaks, see section 6 | |

A property that is a conjunction (`NothingLeftOpen`, `LimitsKept`, `SessionAgrees`, `RestAgrees`,
`HeardIsCurrent`, `FileSurvives`, `SetStands`, `LeavesAsFound`, `RequestsConclude`) names parts
that are stated and commented one by one above it.

Every property of a passing run has a mutant in `PROJECT.json`: a plausible bug of the
definition it names (a reserve off by one, a retirement that is not aimed, a drain that is
missing) under which the property fails.

### Bounds, and why they are enough

* `writer`: 3 snapshots, a window of one tick, two quarantine names, every kind of file to
  start from. A failure needs one snapshot held by the thread, one in the slot and one being
  drawn. One producer, as in the program: `PlayerRuntime` owns the only handle. Two names
  make "the first is taken" and "all are taken" different.
* `engine`: two loads, four submissions, a queue of two. Two loads are one superseding the
  other; four submissions let a request be refused by a full queue while another handler
  is blocked. Device faults are on. Lifecycle: a joined and a detached thread, two panics,
  so that two hooks and teardown race, one signal, one mouse toggle.
* `engine_events`: the engine without pauses and device faults (those are what breaks its
  properties, section 6, or would need a fairness of the device that nothing guarantees),
  with an episode, a server without ranges and three submissions; the outbox with a channel
  of two, one of them reserved, and a cap of four, so that cap, reserve and displacement
  are each reached within three stimuli, which emit several events each.
* `handshake`: span ring of one, so that it is full after one fill; three frames of media,
  so that one span is in the ring, one held back and one dropped or overtaking; two
  generation numbers, so that the number wraps at once; five handshakes and a `Run`, which
  is a whole seek (install, run, freeze, discard, install, run) or a park and a thaw in
  each of its phases; one transport, since a closed one leaves only the generation number
  and the hook's flag behind.
* `runtime`: two playlists of one entry (a file, an episode), a station or any of them
  detached; a `plan` chosen at the start bounds a behaviour: two commands of any of nine
  kinds with one failure, loss or rebuild, or three commands (a load, what happens to it, and
  the load after) and no fault, since `RestAgrees` speaks of what is left when everything is
  answered. A quit at any moment; two pending loads, so that a load finds the queue full; an
  episode with no entry, a position, an estimate beside it, or completed.
* `application`. Library: a command and a player, two URLs with one title, so that slugs
  collide, three operations, one disk fault. Browser: five requests, enough to leave a view,
  return to it and be answered out of date. Seek: a queue of two and three keys. Covers: two
  media with two versions each and four changes. Enrichment: two workers, a list of two,
  three edits. Store: four identifiers stand for `u64`, two lists, two edits and one damage,
  so the allocators run out. Desktop: a request backlog of one and three changes. Source:
  an object of one byte that grows to two, a channel of one, three generations.
* `http_interval`: an object of two bytes that does not change.
* Bounds are named in the modules (`MaxSeq`, `MaxSubmits`, `MaxLoads`, `MaxStimuli`,
  `MaxEpoch`, `MaxOpens`, `MaxPos`, `MaxPending`, `MaxOps`, `MaxDiskFaults`, `MaxRequests`,
  `MaxKeys`, `MaxChanges`, `MaxListEdits`, `MaxEdits`, `MaxDamage`, `MaxDesk`, `MaxGen`,
  `MaxControls`, `MaxPanics`, `MaxSignals`, `MaxToggles`, the `plan`) and appear only in guards. Runs with deadlock checking off are
  runs of systems that really stop: the worker is joined, the writer ends, the transport
  is closed, or the bound on requests is reached with nothing left to do.

### Fairness, and why the code justifies it

* `StateFile`: weak fairness of the thread and of the clock while the process lives; a
  submission that was begun is finished; strong fairness of each step of a replacement
  succeeding, that is, a file that is retried for ever is replaced in the end. The code
  retries for ever, so nothing less makes `EventuallyOnDisk` meaningful; `NewestAlive`
  needs none of it.
* `PlaybackEngine`: the worker is scheduled; a submission that was begun is finished; a
  network operation ends because the header, seek and stall deadlines end it, **unless**
  the freeze level suspends the stall budget and nothing retired the read (`Answered`); a
  queued command is admitted in the end because `select!` picks a ready channel at random
  (strong fairness of `Dispatch`). Nothing is assumed of the listener, the server or the
  hook.
* `EventOutbox`: the worker is scheduled and an application that is there drains.
* `MCEngineEvents` assumes of the side that runs what its module assumes.
* `PlayerRuntime`, `Lifecycle`, `HttpSource` and the other parts of `MCApplication` state safety only, and no
  fairness: what must happen in the end is checked where the code that has to do it is
  modelled, or is stated as an obligation that somebody still holds (`PendingIsOwed`,
  `HoldIsOwed`, `EveryFileIsProbed`).
* `OutputHandshake`: an open stream keeps calling back, the worker keeps running; the
  deadline and the device's progress are not assumed.

## 4. Proofs

Every theorem holds for every value of the constants, under the assumptions each module states
by name. What they ask of the constants is what the code guarantees:

| Assumption | Says | Because |
|---|---|---|
| `WriterAssumption`, `EngineAssumption`, `HttpAssumption`, `CoverAssumption`, `SeekAssumption` | bounds are numbers, kinds are known kinds; an object has a first version | |
| `FileAssumption`, `DirectoriesAssumption` | finitely many quarantine names; `state.json` as first found is not torn | `json_file.rs` tries a fixed number of names; a file is only ever replaced by a rename |
| `OutboxAssumption` | a reserve smaller than the channel, a fault budget within the cap, a cap of at least 4 and a budget of at least 2 | `PENDING_CAP` is 128 and `FAULT_EVENT_BUDGET` 8 (`outbox.rs`); 4 is what one handler and the pass around it may owe |
| `HandshakeAssumption` | rings of at least one, at least two generation numbers | ring sizes are positive; the generation number is 16 bits wide and wraps |
| `LibraryAssumption` | a subscription file that loads has passed `validate_records`, and each feed listed in it has a cache; `NoOne` is no process | every writer of the two files keeps that, which is what the theorems show |
| `LifecycleAssumption` | signals have non-zero numbers; joined and detached threads and `main` are distinct | zero is "no signal" in the flag |
| `RuntimeAssumption` | every stored playlist set is sound (`SoundSet`): identifiers name one list or one entry, a cursor is on an entry of its list, the list that plays exists; a stored checkpoint is a position of the media it is stored for, established or estimated, or none (`Kept`) | what `Recovery` (`playlist/set.rs`) makes of any document before a session starts from it, as `RecoverSound` of `PlaylistStoreProofs` shows; the store has a checkpoint by its media (`model.rs`), and every write of one passes `record` |
| `StoreAssumption` | a largest identifier and room for a list, an entry cap that is a number, room for at least two remembered positions | `u64::MAX`; the caps of `playlist/set.rs` and `queue.rs`; `MAX_ENTRIES` is 512 (`model.rs`) |
| `DeskAssumption`, `BrowserAssumption`, `EnrichAssumption` | the request channel has room for one; "feeds", "none" are no slug, no file | |

**The writer** (`StateFileProofs`). For every set of producers and window: `TypeCorrect`;
`WriterImplementsRegister`, the refinement of `KeepLatest`, for **any** number of producers;
`CoalesceIsBounded`. Under `SingleProducer` (at most one producer, as in the program):
`NewestSurvives`, `WrittenIsSaved`, `QuietIsSaved`, and `StaleBranchUnreachable`, that the branch
that drops a stale snapshot (`writer.rs`, "unreachable") is dead. `TypeOK` is not inductive
alone: that a write moves the disk forward needs what the thread holds to be newer than what it
last wrote, and no number to exceed the newest submitted, which is `Safe`. "Nothing newer is
lost" is false with two producers: a number drawn early may be submitted late, so a failed write
that finds the slot taken may give way to an *older* snapshot. `DrawnInv` (a number in flight is
newer than everything submitted) is what one producer adds; with it `SlotInv`, `ClosingInv` and
`AckInv` make `Kept` inductive relative to `Safe`. The comment at `writer.rs` 61 that keep-latest
holds "whoever asks" is therefore true of this program, and would not be with two producers.

**The file** (`StateFileProofs`). `FileImplementsWriter`: every step over the real file, its
failures, power cuts and second player included, is a step of `StateWriter` or leaves it alone,
so the theorems above hold there (`RegisterOverTheFile`, `NewestOverTheFile`).
`FileAlwaysSurvives` and `FlushReportIsTrue` are about the file itself. Inductive is that *every
directory a power cut may bring back*, not only the present one, is whole and keeps what is
precious, and that what this build could not use is aside before anything may be saved.

**The engine** (`PlaybackEngineProofs`). `EngineInvariant` is `EngInv`: types; `Stands`, which
says for each place the worker can be at (which handler, blocked in which step, mending a failure
of which other) what is open, which states are possible, whether an attempt is under way and
whether a load is still to be answered; `AnswersOK`, that each load is queued once, or open, or
answered once; and `OpenOK`, that an open is retired only with a cause still pending. Handlers
call handlers, so every helper has a lemma saying what it keeps, and every handler is shown
to lead from `Stands` at its place to `Stands` at the next. From it: `EveryLoadIsAnsweredOnce`,
`EveryRecoveryIsScheduled`, `EngineLeavesNothingOpen`, `OpensAreCancelledByRequests`; and
`StoredIntentIsKept`, an action property, from what each helper does to the stored intent. The
exception in `ClosedHoldsNothing` for media whose server cannot seek is real: a refused
restore stops such a session and leaves its stream as it is (`engine.rs`, `restore`).

**The runtime** (`PlayerRuntimeProofs`). `EveryPendingIsOwed`, `SessionAlwaysAgrees` and
`CheckpointsAlwaysHeard`, for every set of playlists, plan and queue size. The code here is operators over values, so most lemmas say
what one operator does to a sound playlist set (`RemoveFromIs`, `AdoptIs`, `DeleteListIs`) or to
a session that is `Sane`: its tokens and revisions in order, its saved media and adopted entry on
the cursor. The set's lemmas come down to one about embeddings: each list and entry of the new
set comes from one of the old. `SessionAgrees` is not inductive by itself, since what an event does to
the session depends on its token and revision: `RuntimeInv` adds that every event under way
names a token that was drawn and a revision the engine has reached (`EventsOk`), and the same of
every queued command (`QueueOk`). For the engine it suffices that a handler which is no load's
leaves the load alone (`Like`), and that one which takes a load, or ends it, hands the debt on.

`CheckpointsAlwaysHeard` needs to know whose each event under way is, since a session that hears
`Landing` or `EndOfTrack` writes a checkpoint for the media it has then, and loads, removals and
answers come in between. `HeedInv` says it with one relation, `Reigns`: a load reigns over a place
in the queue when the session will own exactly that load on hearing the event there, because it
owns it now and nothing before that place cuts it off, or because the load's own `Loaded` is the
last that does. Every event fits the load that reigns over it (`EventsFit`), the load that
reigns at the end of the queue is the engine's (`EndFits`), an outcome is of a load still waited
for and is its last word (`CutsFit`, `OpeningFits`, `QueuedFits`), and what the session has
sampled and stored fits the engine (`SessionFits`). An engine step appends events that
fit (`JoinEvents`, `LoadStep`), the session hears the first (`HearsTail`), and what the front end
does of itself only ever ends a reign (`ReignsShrink`). The proof found the history too
narrow where TLC's bounds had not reached: a restart stored while offline and landed by a later
play, and an end reached after a rebuild, also justify a position of zero; the history field
`earned` now records both.

`FinalPositionIsStored` (`FinalPositionProofs`): after a run in which nothing failed, and whose
session owns an established load, the state file has the position the engine stood at, or the
target it still had to reach. What the last capture writes depends on every event the drain has
heard by then, so the proof follows a *view*, what a session that owns the load it hears of
takes from an event (`Hears`: the revision, whether the load was established, whether its
checkpoint is protected, the stored target, whether an end would be heard), along the
events on their way (`Path`). `Told` says that the path starts at what the session shows and ends
in a view that fits the engine (`Suits`). Every engine handler carries a view that fits to one
that still does, over the events it appends (`Carries`, `Onward`), and what the front end does of
itself leaves the path where it is or ends ownership (`Unmoved`, `Attends`). With it go the
states in which an engine without a fault can be (`Steady`), that a load which has not begun has
established nothing (`Unheard`), and that nothing is left to hear once the front end is done
(`Shut`). When it is done the path has no event left, so what the session shows is what
fits the engine.

`RestAlwaysAgrees` (also in `FinalPositionProofs`): when no command, event or stop is left to deal
with, the load asked for last is the adopted one, unless something failed, and what goes on by
itself is owned by the session and shown as it is. The invariant (`RestInv`) says the same of every
state on the way there, while the program runs. The last event that says anything about the
state says the one the engine is in (`Tells`), so a session that owns its load shows what will
come out right (`Echoes`). An engine that goes on by itself has the load that reigns at the
end of the queue, or a stop or a load is there to end it (`Claimed`): this is where a stop sent
for a removed or refused entry matters. The load wanted is the last one queued, or is being
opened, or its `Loaded` is the last outcome on its way, or is adopted, and no stop is pending
(`Awaited`). The stop bit is one bit, taken before or after a load in an order nobody fixes, so a
load asked for while a stop is pending is not counted as wanted (`Wants`); the proof shows that
while nothing fails the session itself never raises the bit on a load that is. With it goes that a load in the queue is not cancelled by a seek behind it
(`SeekOrder`).

`EndsAlwaysHeeded` (there too): no end of a playthrough is missed or taken twice. What the session
compares, the load and the revision of the end heard last, does not tell one playthrough from the
next under a restarted load, so the proof is about the events instead. The engine announces an end
only from `Playing` and says `Ended` after it, and `Tells` says the same of the events on their
way: each end is heard while the state shown is `Playing`. And what a session that owns its load
shows as playing it has not completed, nor has it an end on record (`Fresh`): each of the events
that set it playing, or move within it, clears both. This holds to the last event replayed after
the engine has gone (`EndsInv`).

**The outbox** (`EngineEndsProofs`). `LimitsAreKept` and `OutboxDelivers`, the refinement of
`OrderedEvents`. That the queue never has to displace an event it owes is not inductive: it holds
because a command is admitted only over an empty queue, and what a session may still come to
without a command (`Potential`: an end, a failure, a fault) is counted against the queue from the
start, beside what the present handler has yet to emit (`RoomInv`).

**Callback and handshake** (`EngineEndsProofs`). `ParkIsKept`, `HeardBelongs`,
`ParkKeepsThePosition`, `PositionWasHeard`. An epoch is handed out once (a 32-bit counter in
the code, taken not to wrap within one open), so an acknowledgement
naming the present epoch was given under the present control word, whatever timed out before it
(`EpochInv`, `AnsweredInv`). From there the records of spans fall in two: those of the
generation the worker reads, ordered and ending where the position is measured (`OwnRecords`),
and, only while a generation is installed or a transport goes, those of the one before
(`Foreign`). Records that arrive out of order, after the ring was full, mark the
timeline before it can read past them (`Doomed`).

**The HTTP source** (`EngineEndsProofs`). `BytesAreAlwaysThose` and `CompletionIsPromised`. Only
the task of the channel's own generation gets anything into it, and what that task has still to
ask for or to push begins where the bytes already in the channel end (`TaskInv`).

**The playlists and their store** (`PlaylistStoreProofs`). `SetAlwaysStands`, for every number of
lists, entries, edits and sessions and for every document `Damaged` makes: no two entries or lists
share an identifier, none is given out twice, the list that plays and every cursor exist, the caps
hold, a whole document is read back as it was stored, and a damaged one loses only what its record,
an earlier claim or a cap forbids. Recovery is a fold over records of folds over their entries, and
so are the counters read ahead of it and the number of entries. The community modules define a fold
by recursion over sets of places; `Unfolds` shows that such a function exists for every sequence,
with a value for each place made from the one before, by climbing through the numbers up to its
length (`Climbs`) without an induction rule that takes an operator. What one entry, then one
record, keeps (`Ready`, `Standing`) then holds of the whole document: how many entries were taken, that
their identifiers are below the counter and differ from list to list, and what has become of each
record so far. `RecoverSound` and `PartlyStands` hold of *any* document, damaged in whatever
way, `IntactStands` of one that was stored by a sound set. The inductive invariant (`StoreInv`) is
that the set is sound in the sense the edits need (`StoreSound`: the identifiers of each list are
its own, injective and below the allocators), that everything given out is below them too
(`IssuedBelow`), and `StoredStands` while nothing has been edited since the load. One entry for one
identifier makes `Cardinality(AllIds(set))` the number of entries. `CurrentIsAlwaysRemembered`:
the remembered position of what plays is never evicted, for every cap of two or more.

**The other parts** (`ApplicationProofs`), each from its own inductive invariant:

* library: `CommitsAreKept`, `FeedsHaveCaches`, `ReportsAreTrue`, for any number of processes,
  each of which may die between any two steps. Whoever holds the lock works on the list as it
  is (`LockOK`, `WorkOK`); one process moves at a time between two files, and every list between
  two steps is one that could be read (`FilesOK`);
* browser: `ShownIsAlwaysMeant`, and `AnswersAreAlwaysOwed`, that a browser that waits is owed an
  answer (`PromiseInv`: a request or an answer of the right kind is under way);
* seek bursts: `EveryHoldIsLetGo`. What is in flight is bounded by the answers owed, and a seek
  stored while loading is owed by the load (`StoredIsLet`);
* covers: `CoverBelongs`; metadata: `EveryEntryIsProbed`, for any number of workers;
* desktop: `DesktopIsShownThePlayer`. A property already told may be stale only while a newer
  snapshot is on its way (`ToldInv`);
* lifecycle: `RunLeavesAsFound`, for any number of threads, panics and signals. Every change made
  is marked, or being made, or owed by a thread inside its hook, or redone by a late frame
  (`ChangesInv`).

**What stays with TLC.** Liveness is outside what this prover does: `EventuallyOnDisk`,
`RequestsConclude`, `BacklogClears`, `HandshakesEnd`.
Every other property of a passing run is stated by a theorem. A proof about a part says nothing about what that part
leaves out (section 5), and the bounds that appear in guards only cut behaviours short: the
theorems hold for every value of them.

## 5. What is abstracted, and what is not modelled

Abstracted: payloads, paths, wording and log lines; time, except the coalescing window and
"a deadline passed"; positions in the engine; sample values, gain and the underrun counter
in the callback; predictions of playback instants, which the handshake model takes to be
right. The rescue record that stands in for a position when a closing capture times out is
left out, as what it yields is published as degraded. Relaxed atomics: the span counters
and the device clock are read as if in order; the words and the rings are
acquire/release in the code and ordered in the model.

In the runtime: volume, display fields and the status line; `load_failed` outside a detached
run; what adds, moves, renames or shuffles entries (`PlaylistStore` has the edits, without
playback); the hold of a seek burst (`SeekBurst`); covers, enrichment and the desktop (modules of
their own, with the player reduced to what changes them). Snapshots are not handed to a writer
(`StateFile` takes over there), and `s` at the end stands for the last one. The engine's own
faults shown in section 6 are not repeated in it. `WantedIsAdopted` leaves out loads asked for
while an earlier interrupt is still up, so that it says that no stop raised later reaches a load
asked for before it; `AudibleIsOwned` leaves out what a later command took up again: see section 6
for both.

In the parts of `application`: HTTP redirects, statuses and the classes of a failure; conditional
requests of feeds beyond "the same"; OPML; names and renames of playlists; the extrapolated
position of MPRIS with its `Seeked` signal, and methods that only queue another command; image
and tag decoding; modes and symbolic links of files; retention of session logs. `ReportIsTrue` is
about the moment a library operation returns: the lock goes with it, and the text a listener reads
is made from the returned value afterwards, when another process may have moved on.

### Not modelled

* drawing, layout, themes and the key table (`tui/render/`, `layout.rs`, `input.rs`): no state
  that outlives a frame; what the keys ask for are the inputs of the modules above;
* feed parsing (`feed/parse.rs`) and the importers of feeds and playlists: text to values;
* decoding, resampling, loudness and the spectrum transform: numeric code; the handshake model
  has the mapping that labels the spectrum's blocks;
* command-line parsing and output; the operating system's files, sockets, D-Bus and terminal,
  which are external and appear as the answers they may give.

## 6. Where the code and its comments disagree

Shown by a run each (details and quotations in `PROJECT.json`, `findings`):

1. `engine_pause`: Pause, Restart, Pause ends in `Paused` with the callback running;
   `pause` trusts `frozen_by_hook`, which `restart` does not clear.
2. `engine_outage`: a station that drops while its load primes is announced `Paused` with
   its outage still scheduled.
3. `engine_shutdown`: a shutdown retires the source before it raises its bit; a worker
   that dispatches a queued load in between, with the freeze level up, reads for ever.
4. `handshake_priming`: a pause and a play during the read that primes a new generation
   leave it playing; the end of priming then resets the timeline it is measured by, and
   the position drops back to where the generation started until the next span.
   With such a reset and degraded timelines excluded, the same property holds in the
   whole state space of that run.

5. `runtime_estimate`: an episode resumed at an estimate, and another load right behind it:
   `on_loaded` resets the provenance to established, no sample corrects it before the next
   load is adopted, and the estimate is stored as the established position.

6. `http_interval`: a server that answers a range request with a shorter interval than was
   asked for: the body ends where that interval says, which is taken for the end of the
   object, and the track is confirmed complete before its last byte. The design asks for
   another request at the next byte.

Noticed while modelling, without a run of their own:

* a span held back because the ring was full can be overtaken: when the worker drains the
  ring between `flush_pending` and `publish` of one fill, the newer span is pushed first.
  The timeline then marks itself degraded, and its floor ("media frames known to have
  finished playing", `playback/timeline.rs`) may run one span ahead;
* `restart` has no guard for `Failed`, unlike `play` and `seek_to`;
* the freeze level survives a following `Load`/`PlayLoaded`; capabilities of an earlier
  media survive a failed load; an outage window survives `Ended` and a restart;
* a seek answered from the decoder's own read-ahead leaves the generation retired;
* a seek submitted while a load is being opened cancels that load;
* a span count taken late can mark the next generation degraded;
* a position captured from a degraded timeline is published as `Exact` at shutdown;
* a pause that the hook announced and `pause_closing` then completes moves the session
  revision without an event, so the forced checkpoint of that pause waits for a revision
  that no sample carries (`src/docs/superpowers/specs/2026-09-07-tenuto-foundation-design.md` 211 promises a
  capture on pause);
* Space resolved to a play, then a removal of the entry: the stop is taken before the queued
  play, which then starts the removed media again. Playback nobody owns is heard until the
  next stop, and never checkpointed; so is a remote media of a detached run that is stopped
  while it loads and then played;
* a load still queued at quit is answered `LoadCancelled`, which clears `last_loaded`; the
  final sample is then refused and the one retained before it is recorded;
* a stop raised while the worker is between its swap of the interrupt word and its `select!`
  can cancel a load that was queued after it;
* a frame that passed its last look at `rendering_disabled` is drawn over the terminal a hook
  has just restored; with the kitty protocol its cover stays on the primary screen, since the
  hook has taken the mark and teardown finds none (`tui/mod.rs` 410, `lifecycle/terminal.rs` 3:
  "undone exactly once"). `TerminalReturned` leaves this case out, and the other one in which a
  thread nobody joins is inside its hook, between taking a mark and undoing it, when the
  process exits;
* `cover.rs` 18 says a shown cover has no image "while it is on its way and after it failed"; a
  cover asked for ahead while that request still waits in the worker's slot replaces it, and
  the image is then neither on its way nor failed until the source changes;
* `seek.rs` 74: after the awaited seeks were reset, the outcome of an earlier one releases the
  hold of a later target;
* a seek that MPRIS should signal (`Snapshot.sought`) is lost when a newer snapshot overwrites
  the slot before the D-Bus thread has read it;
* documentation: `outbox.rs` (about line 66) and `event.rs` 198 disagree on whether
  `SeekCancelled` is terminal; `engine.rs` 1425 counts four events for a load and
  `outbox.rs` five.

## 7. Plan

Done, in this order: `StateWriter` with its register and its proofs; `PlaybackEngine`,
`EventOutbox` with `OrderedEvents`; `OutputHandshake`; `Session`, `Playlists` and `PlayerRuntime`;
`DurableFile` and `StateFile`; `HttpSource`; `Library`, `Browser`; `PlaylistStore`, `SeekBurst`,
`Covers`, `Enrichment`, `MediaControls`; `Lifecycle`.

Left to model: `PlaybackEngine` shown to implement the engine `PlayerRuntime` assumes, for the
events of a load, and to use `HttpSource` as the channel it has in full there.

Proved since: the writer over its file, the outbox, the handshake, the HTTP source, the engine,
what the runtime owes, agrees on, checkpoints, leaves behind, comes to rest in and does at the end
of a track, the playlists and their store, and the parts of `application`.

Left to prove: nothing a run checks that this prover can state (section 4).

## 8. Running

`tlc -workers 2 -config StateFile.cfg MCStateFile.tla`, and likewise `MCProcess.cfg`,
`MCEngineEvents.cfg` and `MCApplication.cfg` with the modules of the same name, the `Engine*.cfg`
with `PlaybackEngine.tla`, `OutputHandshake.cfg` and `HandshakePriming.cfg` with
`OutputHandshake.tla`, `PlayerRuntime.cfg` and `RuntimeEstimate.cfg` with `MCPlayerRuntime.tla`,
`HttpInterval.cfg` with `MCHttpSource.tla`. `tlapm Counting.tla` and `tlapm` of every
`*Proofs.tla` check the proofs; `ApplicationProofs`, `PlayerRuntimeProofs`, `EngineEndsProofs`
and `FinalPositionProofs` take about a quarter of an hour each, the others a few minutes.
