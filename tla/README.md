# plex-channels, in TLA+

A verification project for this repository: TLA+ modules that model its server and the parts of its
web app that hold state, TLC configurations that check them on small instances, and theorems about
them that TLAPS proves for every instance. File names below are relative to `src/server/src` unless
they begin with `web/`, `cast_sidecar/` or `docs/`.

The server (QueuePilot) turns a tapped card, a button or a web click into something playing on a TV:
it picks what a *set* (a rotation channel or a curated queue) should play under which Plex Home
profile, makes a Plex playQueue of it, drives the TV to the right profile and plays. One Node process
does all of it, so handlers interleave at every `await` and nowhere else. Its state is a few variables
of that process, some YAML files that people and a command-line tool edit too, retained MQTT topics,
and what Plex, Kavita and the TV remember. A browser tab keeps a copy of the files and edits it
optimistically.

## Inventory

| Part | State it keeps | Operations | Hard behaviour |
|---|---|---|---|
| Session (`session.ts`, commands in `mqttd.ts`) | `SESSION`, `_activeCancel`, the retained state topic | start, advance | overlapping commands: a newer start must supersede an older one at whichever await it is in |
| Top-up (`topup.ts`, `engine/playbackLength.ts`) | `lastTopupMs` per set, `SESSION.queuedTotal` | tick | checks made before awaits and used after them; a finite length is a budget |
| Driver and playback (`driver.ts`, `playback.ts`, `providers/plex.ts`) | none of its own; Plex's playQueues and the TV | wake, profile, play with retries, audit, extend | retries and polls of a superseded start; partial failure |
| Profile gate (`profiles.ts`, `adb.ts`, `driver.ts`) | `LAST_SEEN`: a title and whether it was observed | wait, picker walk | a claim is not an observation; a person uses the remote meanwhile |
| Queue store (`queues.ts`) | `queues.yaml`, its lock directory | add, move, order, done, sweep, overrides | two processes write the file; stale locks are stolen; a mount may refuse `rename` |
| Finished sittings (`finished.ts`) | watched memo, one reconcile timer, what was on screen | now-playing edges, evaluate, sweep | one timer for all sets; three separately locked writes; restarts |
| Resume on advance (`resume.ts`) | `ARMED` plan, `TIMER` | arm, watch, consider, seek | polls overlap, and outlive the plan they were started for |
| Device registry (`devices.ts`, `mqttd.ts`, `mqttc.ts`) | `REGISTRY`, retained topics, the reader's list | announce round, sweep | publishes lost while disconnected; restart; overlapping rounds |
| Live feed (`sse.ts`, `web/src/state/live.ts`, `store.ts`) | subscribers, `LAST_NOW`, entity tags, the tab's copy | broadcast, refresh, drag | handshake, deferred refreshes, optimistic edits |
| Selection engine (`engine/*`) | done flags in the queue file; otherwise pure over library and history | deal a lineup, next batch, retire and revive | buckets that run dry, batches at a boundary, something new appearing |
| Tiles (`tiles.ts`, `plex.ts`, `web/src/lib/tileFace.ts`) | none | next up, finished or not | a second implementation of what the engine decides |
| Set registry and routing (`sets.ts`, `engine/routing.ts`, `DynModal.tsx`, `SetModal.tsx`) | `sets.yaml`, an open editor | save, create, delete, reorder, migrate | one field means different things for different kinds |
| Groups, pending, history (`groups.ts`, `pending.ts`, `history.ts`) | `groups.yaml`, `pending.yaml`, the undo stacks | edit, dismiss, undo, redo | unlocked read-modify-write; forms refilled while edited |
| Caches (`cache.ts`, `plex.ts`) | one row per show and account, flights, remembered accounts | read, join, validate, store | flights shared by readers; a count of another moment |
| Editors of an entry (`StartModal.tsx`, `EntrySettings.tsx`, `QueueView.tsx`, drags) | an open form, optimistic copies | pick, save, drag, select | late answers, filters, copies that are stale when used |
| Other providers (`providers/kavita.ts`, `launcher.ts`, `steam.ts`, `mister.ts`, `board-game-picker.ts`) | Kavita's reading lists, an entry's `queued_at` | launch, top up, stamp | row-by-row rebuilding; plays from before an entry was queued |
| Migration (`tools/*`) | `queues.yaml`, a backup | one pass over the file | beside the app; killed half-way; run again |

`PROJECT.json` lists every part with its files, its status and what of it is left out, the hazards at
the line where each bites, and the lines each definition stands for.

**What makes each part correct.** *Session*: one live start, the newest; `SESSION` describes one start;
a lineup is of the account of whoever it is for. *Top-up*: nothing queued twice, an exact running total,
a finite length never exceeded, the account of the lineup. *Driver*: a
superseded start stops playing; everything ends. *Gate*: a gate that clears means the profile is signed in.
*Store*: writers exclude each other, no committed edit is lost, an entry nobody addressed is not touched.
*Finished*: flags come to agree with Plex, and nothing is swept that was revived. *Resume*: one seek per
episode, for the lineup it was planned for. *Registry*: who stays comes to be listed, who has gone comes
to be removed, through faults too (it does not: *Further disagreements*), and the list never claims more
than a round has seen. *Feed*: every edit is read again, and never under a gesture. *Engine*:
nothing watched replays or plays twice, nothing found is forgotten, weights are kept. *Tiles*: they
foretell the scan. *Editors*: what a person saved is what plays, whatever answered late. *Providers*:
nothing skipped, nothing passed over that was not played. *Migration*: only the spelling changes.

## Modules

| Module | Models | Used by |
|---|---|---|
| `PlaybackLength` | `engine/playbackLength.ts` and the window arithmetic of `topup.ts`; pure | `PlaybackSession`, `CuratedQueue`, `SetRegistry` |
| `LatestWins` | what the session promises about overlapping commands: abstract, two variables | refined by `PlaybackSession` |
| `Sublist` | the items of a list that satisfy something, in order (`filter`), with its reference definition; pure | `PlaybackSession`, `QueueDoc`, `GameShelf` |
| `PlaybackSession` | session, top-up, driver and the Plex calls they await | `MCPlaybackSession` |
| `QueueDoc` | what each operation of `queues.ts` does to the lists; pure | `QueueStore`, `PlaybackEnd` |
| `AtomicStore` | what the store promises its callers: abstract | refined by `QueueStore` |
| `QueueStore` | the lock directory and the file, request by request, with several processes | `MCQueueStore` |
| `PlaybackEnd` | `finished.ts`: edges, timer, evaluation, sweep, memo | `MCPlaybackEnd` |
| `DeviceRegistry` | announce rounds, broker, reader | `MCHousehold` |
| `ProfileGate` | `driveProfile`, `LAST_SEEN`, the picker walk over ADB | `MCHousehold` |
| `LiveFeed` | event stream, conditional reads, refresh against gestures | `MCFeeds` |
| `ResumeOnAdvance` | the armed plan and its overlapping polls | `MCFeeds` |
| `MemberItems` | what one member plays next (`engine/resolve.ts`); pure | `RotationChannel`, `CuratedQueue` |
| `RotationChannel` | pool, deal by smooth weighted round-robin (`engine/weight.ts`), history of a channel | `MCEngine` |
| `CuratedQueue` | scans of a curated queue, flags, revival | `TileFace` |
| `TileFace` | the tile's own computation of the same questions | `MCEngine` |
| `SetRegistry` | `sets.yaml`, its editors, routes, the tier migration | `MCEngine` |
| `LinearHistory` | what undo and redo promise: abstract | refined by `UndoHistory` |
| `UndoHistory` | snapshots, the two stacks, their mirror file | `MCEngine` |
| `PendingRule` | what has arrived that nothing plays, and the engine's answer to that; pure | `PendingDesk` |
| `PendingDesk` | the Pending screen and `pending.yaml` | `MCDesk` |
| `LeafCache` | the cached episodes of a show, per account | `MCDesk` |
| `GroupsEditor` | `groups.yaml` and its form | `MCDesk` |
| `StartPicker` | the "Start from..." window, the stored start, its reading | `MCDesk` |
| `EntryCounts` | the count picker, the routes and the sparse writer | `MCDesk` |
| `GridEdits` | drags, selections and the add box of three pages | `MCGrid`, `MCDesk` |
| `ReadingList` | a reading queue from launch to top-up | `MCDesk` |
| `GameShelf` | a queue whose unit is a play | `MCDesk` |
| `EntryMigration` | `tools/migrate-entry-objects.ts` beside the app | `MCMigration`, `MCDesk` |
| `MC...` | sets, payloads, libraries, files and bounds for TLC | the runs |
| `SublistProofs` | lemmas about filters, lists without repeats and least numbers | the proofs below |
| `QueueDocProofs` | what each list operation keeps | `QueueStoreProofs`, `HouseholdProofs` |
| `SessionProofs`, `QueueStoreProofs` (`QueueStore`, `StartPicker`), `EngineProofs` (`RotationChannel`, `TileFace`, `SetRegistry`), `HouseholdProofs` (`PlaybackEnd`, `DeviceRegistry`, `ProfileGate`), `FeedsProofs` (`LiveFeed`, `ResumeOnAdvance`), `DeskProofs` (`LeafCache`, `EntryCounts`, `UndoHistory`, `EntryMigration`, `GameShelf`, `PendingDesk`, `GroupsEditor`, `GridEdits`, `ReadingList`) | theorems about the modules they name, and their proofs | |

Components that share no state with each other are checked by one run: an MC module composes them with
a variable `focus` that says which of them moves in a behaviour, so that the state space is the sum of
theirs and not the product. Components that do share state are one module.

### `PlaybackSession`

A command that arrives over MQTT is a handler, an element of `Starts`, `Advances` or `Ticks`; `mqttd`
starts each without waiting for the one before (`void handleStart(...)`). `pc` names the await a
handler is in. An action is the code from one await's answer to the next await, so everything between
is atomic, as it is in Node. Requests to Plex take effect in the step that receives the answer.

| Variable | Code |
|---|---|
| `session` | `SESSION` (set, profile, account, queue, cursor, playQueueID, queuedTotal, target) |
| `active`, `cancelled` | `_activeCancel` and the flag object of each start |
| `job`, `tick` | the locals of a handler that outlive an await |
| `cooling` | the sets whose `lastTopupMs` is within `TOPUP_COOLDOWN_SECONDS`; `CooldownOver` is the clock |
| `queues`, `device` | Plex's playQueues and what the TV plays, as whom |
| `armed` | which start's lineup `resume.arm` was last called for |
| `topic` | the retained `queuepilot/state`: what it says and who said it |
| `late` | history variable: playQueues a start created after it was superseded |

| Await (`pc`) | Actions | Code |
|---|---|---|
| arrival | `StartCommand`, `AdvanceCommand`, `TickCommand` | up to the first await |
| opening, detecting, gating | `PlexOpened`, `ProfileDetected`, `GateSettled` | `ensurePlexOpen`, `waitForProfile` for automatic starts, the legacy gate |
| binding, listing, recording | `Bound`, `LineupBuilt`, `QueueRecorded`, `SelectionFailed` | `profileBinding`, `buckets`, `applyQueueWriteSide`; a throw in any of them |
| joining, waking, profiling | `Joined`, `Woken`, `ProfileDriven` | legacy `switchTo`; `ensurePlex` and `driveProfile` of the driver |
| probing, creating, pushing, backoff | `Probed`, `CreateQueue`/`CreateFailed`, `PushLanded`/`PushFailed`, `BackedOff` | `drivePlay`'s loop over `playRatingKeys` |
| auditing, stopping | `Audited`, `AuditStopped` | `verifyAccount`, `stopPlayback` |
| authorising, reading, building, extending | `TickAuthorised`, `TickRead`, `TickBuilt`, `TickExtended`, `TickFailed` | `topup` |

`ViewerNext` (the viewer reaches the next item or the end), `QueueForgotten` (Plex drops a queue nobody
plays) and `CooldownOver` are the environment. A lineup is a run of consecutive items of its set of any
length up to the window; which items the engine prefers is the subject of `RotationChannel` and
`CuratedQueue`, and that none comes twice is `DealtOnce` there, but for contested items. Answers of people
and devices are nondeterministic: `ProfileDriven` is one await here and all of `ProfileGate` there.
Wording, last-played and cast mode are left out.

A profile is a name, an account a number; both are the same model values here, and which account a start or
a tick is bound to is what the code makes of them. `BindingFor` is `bindingFor` over the registry: a channel
has the account of the profile it binds by the title, or of its first when it binds no such title; a curated
queue, which has no list of profiles, is always the owner's, because `loadSets` gives it account 1.
`BindingsOf` is `profileBinding`: a binding with an account comes back untouched; one without gets the
title's, or stays without when the binding has a token, no title is known, or plex.tv knows no such profile.
`NoProfile` as an account is `account_id: null`: such a start is selected from the household's history, and
under the driver it is not audited (`Expects`), nor dropped after its push for being superseded.

### `QueueStore`

A call of an operation is a *writer*; `ProcessOf` says which process makes it. Within a process calls
interleave at every `await` just as calls of two processes do, since `queues.ts` keeps no lock in
memory; a process matters only when it dies, with all its calls. `pc` names the file-system request a
writer waits for, and each request takes effect in the step that receives its answer.

| Variable | Code |
|---|---|
| `file`, `tmp` | `queues.yaml` and `queues.yaml.tmp` |
| `mount` | whether `rename` over the file works (`"dir"`) or is refused (`"file"`, a single-file bind mount) |
| `lock` | the directory `queues.yaml.lock`: whether it exists, and how old it is |
| `op`, `text`, `result` | a call's operation, the text it is about to write, what became of it |
| `waited` | how long it has been in `acquireLock` |

| Stage (`pc`) | Actions | Code |
|---|---|---|
| making, statting, stealing, sleeping | `MakeLock`, `StatLock`, `StealLock`, `Sleep` | the loop of `acquireLock`: `mkdir`, `stat`, `rmdir` of a stale lock, the deadline |
| reading | `ReadFile` | `readDoc` and the whole edit, which has no await |
| writing, renaming, filling | `WriteTmp`, `Rename`, `Fill` | `writeDoc`: the temporary file, the rename, the write in place when it is refused |
| releasing | `Release` | `releaseLock`, whose `rmdir` does not ask whose lock it removes |

`FileFails` is a read or a write that throws, and `Crash` the death of a process. `QueueDoc` keeps of an
entry its key, its done flag with the time, and one value for all overrides; comments, formatting and
the legacy scalar form are left out (the latter is `EntryMigration`'s subject). Lists start without a
key twice, which only an edit by hand could bring about.

### The players: `PlaybackEnd`, `DeviceRegistry`, `ProfileGate`, `ResumeOnAdvance`

*`PlaybackEnd`.* `onScreen` and `active` are the retained now-playing and state topics; `wasOn` and
`timer` are the two variables of `watchPlaybackEnd`; a *job* is one call of `applyQueueWriteSide`, whose
steps are the reads of the file and of Plex and the three locked writes, each an action. `memo` is
`_watched`. `Restart` forgets all of it and publishes the idle session as `startMqttd` does. Plex writes
its history row some time after an item has ended (`Scrobble`).

*`DeviceRegistry`.* A *round* is one call of `announceDevices`: it asks plex.tv (`RoundAnswered`),
publishes what it was told and clears what has gone (`RoundEnds`). Rounds overlap, because one starts on
every connect as well as on the interval. `Offline`/`Online` and `ReaderLeaves`/`ReaderReturns` are the
two clients' connections: what `mqttd` publishes without one is dropped, and the reader misses what is
published without one until its retained topics are sent again. `RegistryRestarts` empties `REGISTRY` and
leaves what is retained.

*`ProfileGate`.* A *drive* is one call of `driveProfile`; its stages are the awaits of the wait for a log
line and of the walk: summon the picker, read the lit tile, press towards the wanted one, read back,
commit, wait for acceptance, and, when it fails, try again. The log and the tile may call one profile by
two names; `SlotOf` is `profileOrder`. `PersonPicks`, `PersonMoves` and `PersonUses` are the remote. A
superseded drive walks on until it looks at its flag (`RunsLate`), beside the newer one. Screen dumps and
their parsing are abstracted to whether the read succeeds.

*`ResumeOnAdvance`.* A *poll* is one tick of the interval: it awaits Plex's session, considers it against
whatever is armed by then, and may await a seek. `ScanArms` is `arm`, `WatchEnds` the watcher's own end.
Plex may report the position of the episode before for a while (`lagging`).

### The tab: `LiveFeed`, `GridEdits`, `PendingDesk`, `GroupsEditor`, `StartPicker`, `EntryCounts`

*`LiveFeed`.* `disk` is the set of edits made so far, and an entity tag is the set of edits the server had
seen when it took the stat; `Slots` are requests in flight; `isPending`, `gesture` are `livePending` and
`uiBusy()`. The stream has the steps of `sse.ts`'s handshake (down, hello, registered, up), during which
broadcasts may happen.

*`GridEdits`.* One action per gesture of the landing, the Queues page and a queue's grid, with the request
it sends; `Lands` and `CallFails` are the server; `Fetch` and `Commits` a refresh, whose answer may be
older than the tab's edit. `disturbed` is history: it records a drop that changed the relative order of
what nobody dragged.

*`PendingDesk`, `PendingRule`.* The rule is translated twice, as `pending.ts` states it and as the engine
decides it (`engine/resolve.ts`, `select.ts`), and the screen's list is judged by the latter. Requests go
sent, read, answered or failed, in any order.

*`GroupsEditor`.* The two halves of each unlocked read-modify-write are two actions. The draft is what
`useEffect` fills from the fetched registry; `meant` is history, what the person ticked.

*`StartPicker`.* The window stays mounted, so `loads` carries the number of the opening that asked. `told`
is history: the last form that was saved, and whether the person touched it.

*`EntryCounts`.* The route reads the set's default before the store's lock is taken (`ReadsDefault`,
`Rewrites`), edits overlap, and the default is edited elsewhere. `asked` is history.

### What plays: `RotationChannel`, `CuratedQueue`, `TileFace`, `SetRegistry`, `UndoHistory`

*`RotationChannel`* builds the pool (`PoolBuilt`), deals one slot at a time with the credits of
`weightedInterleave` (`SlotDealt`) and watches what was dealt. An item may reach the pool by two ways, as a
member's and as the rule's; `IsContested` says when the code lets it. *`CuratedQueue`* scans all entries or
one, as `nextQueue` and `buildReel` do, with the flags they write; in between the household watches,
elsewhere too, episodes air, the owner tags by hand, and the library loses and finds a title. *`TileFace`*
adds the computation of `plex.ts nextEpisode` and `tileFace.ts`. Random orders are any order.
*`SetRegistry`* has the sparse fields of `sets.yaml` as the editors read and write them; a `form` stays
open over any number of other edits. `IsRegistry` says what a file may hold at first: an id once, at the
top level of a set only the profile the map names it for, and no profile both so and in a list. That is
what the default file holds, and a file of the two tiers before it. *`UndoHistory`* has a request's steps
(snapshot, push, write) and the program's own writes between them; a text is a model value.

### Beside Plex: `LeafCache`, `ReadingList`, `GameShelf`, `EntryMigration`

*`LeafCache`.* `LeavesAsked` to `Check` are the awaits of `leaves`: the profile's account, its token, the
show's count of watched episodes, the episodes themselves. A *flight* is an entry of `_inflight`, which
another reader may join. *`ReadingList`* has a launch (`FindOrCreate`, `ClearRow`, `PutCover`, `AddRow`)
and a tick (`Build`, `AppendRow`, `Trim`), request by request, between which chapters are published and
read and the set is renamed. A series has its chapters twice, as its volumes and as Kavita itself list them
(`Copies` keeps the one in a volume), and a person's order of reading them, `Reading`, which the code is not
told. *`GameShelf`* has a launch's stamps and the plays that come before, between
and after. *`EntryMigration`* has the tool's read, its resolution of titles line by line, the backup, the
lock and the truncating write, any of which it may die in, beside an app that edits under the same lock.

## Runs

| Run | Instance | Shows |
|---|---|---|
| `SessionModes` | two starts that overlap, ADB on, in both modes of the server. `PLAYBACK_FSM` off: with an advance, a gated endless channel and an ordered queue, cards, names and automatic starts. On: three attempts, the gate, the audit, and a channel that binds nobody | `LineupOfOneStart`, `SupersededPlaysAtMostOnce`, and that the session implements `LatestWins` |
| `SessionSerial` | two starts and two ticks, one at a time; an endless channel that binds two profiles and one of length 3, window 2 | `NoRepeats`, `TotalCountsTheQueue`, `WithinTarget`, `TopupsAreTheScansAccount` |
| `SessionLiveness` | two starts and a tick, with retries, under `FairSpec` | `StartsSettle`, `TicksSettle` |
| `StoreAtomic` | two calls in two processes, of eleven kinds; both mounts; crashes where the rename works; under `FairSpec` | `OneHolder`, `KeysAreUnique`, `EditsKeepTheRest`, `CallsReturn`, and that the store implements `AtomicStore` |
| `PlaybackEnds` | two sets, one swept and one kept, an entry each; two jobs; new episodes, marks by hand, restarts | `ReconcilesAreRight`, `LastEndedIsReconciled` |
| `Household` | a player beside the default one, two rounds, faults; two drives over two tiles, one locked, one with two names | `ListingFollowsPlex`, `RetainedIsAsSeen`, `GateMeansProfile`, `GatesSettle` |
| `Feeds` | a tab with two requests, edits, a drag, faults and reconnects, two kinds of trouble at a time; two polls over two lineups that share episodes | `RefreshesAreSafe`, `EditsAreReread`, `ClientsAreSentNow`, `SeeksAreRight`, `DueIsSought` |
| `Engine` | five channels, five curated queues, the registry of two legacy tiers, three edits with undo depth 2 | `DealKeepsTheRules`, `QueuePlaysAsRuled`, `TilesForetellScans`, `RegistryKeepsItsWord`, `UndoIsLinear` |
| `Desk` | the screens, providers and the migration, one of nine at a time | `PendingIsHonest`, `MarksAreTheReaders`, `FormKeepsTheFile`, `UntouchedSaveKeepsThePlace`, `CountIsAsAsked`, `DropsMoveOne`, `ListNeverSkips`, `PassedOverWasPlayed`, `MigrationIsFaithful` |

and three runs in which the code breaks a promise it states itself:

| Run | What TLC finds |
|---|---|
| `FilteredDrag` | A drop on a queue's grid that is filtered or sorted sends the order of what is on the screen as the whole order; `applyOrder` appends what is not named, so every hidden entry moves to the end. `useRowReorder.ts` knows this hazard for sets and avoids it; `useGridDrag.ts` does not. |
| `GatedQueue` | A curated queue gated to a profile (`requires_profile`) is selected from the owner's history and played as the owner, and under the state machine the audit then stops a TV that is correctly signed in as that profile: `loadSets` names account 1 for every queue (engine/routing.ts:212-214), and `profileBinding` leaves a binding that names an account alone (providers/plex.ts:188). The comments there and at session.ts:282-286 say that a queue stores no account and that the provider fills in the profile's; `e2e/curated-queue-profile-test.ts` gives `profileBinding` bindings without an account, which no queue of the registry has. |
| `MigrationRace` | The tool makes its new text before it takes the lock and only writes under it: an edit the app commits in between is overwritten. |

Where a property carries an exception, the exception is a behaviour the code does not guard against, and
the section *Further disagreements* says which. `SessionSerial` delivers a command only when no handler is
running (`Overlap = {}`) and has Plex accept what it is sent (`PlexDrops = FALSE`), because its properties
are false otherwise. `TotalCountsTheQueue` and `WithinTarget` speak of the queue `SESSION` remembers only
while set, lineup and queue are those of one start (`OwnQueue`), the latter of queues without another set's
items; `TopupsAreTheScansAccount` adds that no later start of the same set has renamed the profile.
`NoRepeats` is about top-ups: the lineup a queue begins with has each item once in the model
(`LineupsUpTo`), while the rotation may deal a contested item twice (`QueuedOnce`). `ListingFollowsPlex`
says nothing of the ghosts a restart or a lost message leaves (`GhostsAreEnded`). `FormKeepsTheFile`,
`CountIsAsAsked` and `ListNeverSkips` except, by a history variable, what another writer, an edited default
or a refused request does in the middle.

**Bounds.** Counters named `Max...` in the CONSTANTS bound what the environment does (faults, edits,
scans, people's touches), never what the code does, except where the code has a limit of its own
(`MaxPresses`, `MaxTries`, `MaxMenus` of the walk, `MaxUndo` of the stacks).

* Session: each handler id is one command, so commands are bounded by the sizes of `Starts`, `Advances` and
  `Ticks`. Two starts are enough for the flag of one to be raised by the other; with two profiles, two sets
  and three kinds of payload every branch of the gates is taken. In `SessionSerial` the second profile is
  not the first that the channel binds, so that a binding by default is another account. A window of 2 and
  a length of 3 make the last top-up of a finite set smaller than a window, and its library of 4 holds two
  windows, so that a top-up that ignored what is left of the target would overrun it.
* Store: time is counted in coarse ticks: a lock is stale after `LockStale` = 2 and a writer gives up
  after `LockWait` = 1, in the order of the code's 15 s and 10 s. `SlowHolders = FALSE` is what the design
  rests on: whoever holds the lock, and lives, is done before it is stale. `Faults` lists the mounts on
  which processes die; a death in the middle of a write in place leaves a truncated file, against which
  the code has no defence, so deaths happen only where the rename works. The lists share a key and
  contain a done entry, so that moves meet a key that is there already and sweeps have something to remove.
* Playback ends: an entry of up to two episodes can be finished, revived by a second and finished again;
  two jobs are the two write sides that can race; two scans put both sets on the screen.
* Household: two rounds, because the third adds nothing a second in flight does not; two moments, so that a
  stamp can be older than another; one coming or going either way and back. Two tiles with one press budget
  each way, an alias, a PIN, one touch of the remote at any moment. A walk has one attempt (`MaxTries` =
  1), so its retry is in the proof of `GateMeansProfile` and in no run.
* Feeds: two requests let an answer overtake another; the kinds of trouble are given in pairs
  (`Troubles`). Three episodes, of which two are in both lineups, let a poll of the old plan judge the new.
* Engine: the library has two seasons, a special-only show, a series longer than a batch, shorts and a
  collection; batches of 1 and 2 meet every boundary. The registry has two changes per behaviour, one to
  make a state and one to meet it, over labels that collide.
* Desk: three clicks, four ticks and saves, four picks, two edits, two gestures and one writer beside them,
  one refused request; a manga in volumes with a loose chapter beside a webtoon that is read from its fifth
  chapter on; two games of which one owes two plays; files of two lines in ten spellings, two runs of the
  tool and one crash.

`CHECK_DEADLOCK FALSE` everywhere: once its bounded environment is used up, a model stops.

**Fairness.** Fairness is stated for what the program or its platform does by itself, never for people,
commands, faults or time, with two exceptions that are named below.

* `PlaybackSession` and `QueueStore`: weak, for each handler's or writer's next step. Every await is a
  request with a timeout, a wait with a timeout, a sleep or a file-system request, and Node runs what is
  ready. In the store the clock is fair too, since without it no lock would become stale and no deadline
  pass.
* `PlaybackEnd`: weak, for each job's next request and the timer, and for Plex writing its history row.
* `DeviceRegistry`: weak, for the interval, the end of a round and the reconnection of both clients
  (`mqtt.js` reconnects); strong, for plex.tv's answer, which may fail again and again but not for ever.
* `ProfileGate`: weak, for a drive's steps: each wait has a deadline and each loop a count.
* `ResumeOnAdvance`: strong, for a poll to start and to be answered, since others come between; weak, for
  considering, for the end of a seek, and for Plex to stop reporting the old position.
* `LiveFeed`: weak, for the watcher's timer, the reconnecting stream, the server's answers and the tab's
  interval; and for a person to let go of a poster.
* `CuratedQueue`: somebody keeps scanning the set and watching its head to the end; `NothingIsForgotten`
  is a promise to them.

## What is proved

All of it for every value of the constants that meets the named assumptions, on modules the runs check
unchanged. The list in `PROJECT.json` names the theorem for each property. Every invariant and every action
property of the passing runs has one; what is
only model-checked stands at the end of this section.

From `WindowAssumption`, `SentinelAssumption`, `SessionAssumption` and `LibraryAssumption` (any number of
handlers, sets, profiles and attempts, both values of each switch):

* `SessionImplementsLatestWins`. Every action of the module is shown to be one of four control steps
  (`NextIsControlStep`), and these are mapped: an arrival to `Arrive`, the last step of a start to `Return`,
  every other step to a stutter. That needs an invariant, `ControlInv`: of the starts in flight only the
  newest has its flag down (`OneLiveStart`), and a start that arrives does not find its own flag raised and
  is not active already (`IdleUntouched`).
* `SupersededPlaysAtMostOnceHolds`. `LateInv` says that a start that has created its late playQueue is
  past the creation, and that from there it reaches another only through `BackedOff`, which reads the
  flag.
* `SessionTypes`. Besides the types, every playQueue id a handler or `SESSION` holds exists (`KnownQueues`)
  and a handler past its first checks knows its set (`KnownSets`): no step of the code reads a queue or a
  set that is not there.
* `LineupOfOneStartHolds`. `LineupInv` adds that a start still before its commit is not the armed one, so
  that its later assignments cannot change what `SESSION` was built from.

The top-up properties are false when a tick overlaps a start or another tick (see *Further
disagreements*), so they are proved under `Serial`: no start and no tick arrives while a handler runs. An
advance may arrive whenever it likes, and the viewer, Plex's forgetting and every failure stay free. Their
invariant `TopupInv` is about four things at once:

* `NoRepeatsHolds`: nothing is twice in a lineup, in what `SESSION` remembers or in a playQueue
  (`NothingTwice`), because what a tick adds has been filtered against the queue as it still is when it is
  extended (`TickIsRight`).
* `TotalCountsTheQueueHolds`, with `~PlexDrops`: the window a tick sized is the one `queuedTotal` still
  gives when it extends, and a start that plays is the one the total counts for (`StartIsRight`,
  `TotalIsRight`).
* `WithinTargetHolds`, with or without `PlexDrops`: a total never behind its queue keeps that queue within
  the length, by the arithmetic of `TopupWindow`. The property used to speak of every queue of the newest
  start; that is false with three starts, even one at a time: the first plays films, the second is bound
  to shorts and fails, a tick tops the films' queue up with shorts, the third is bound to films and fails,
  and `SESSION` again names the set of a queue that holds another's items. It is stated, and proved, of
  queues whose items are all of `SESSION`'s set.
* `TopupsAreTheScansAccountHolds`: `AccountInv` says that the account of a start from its binding on, and
  of the armed start, is one its set and profile may be bound to (`BoundRight`), and that a tick's account
  is one the set and profile `SESSION` names may be bound to, as long as no command moves them. Where
  `bindingFor` names an account there is only one, so both are the same.

From `StoreAssumption`, for any number of writers, processes, operations and contents:

* `StoreTypes`, that what is read, edited and half-written is always lists of entries, and
  `KeysStayUnique`. The latter needs no lock: each operation of `queues.ts` keeps a list without
  duplicates so, from whichever file it has read (`TypeInv` says so of the file, of the temporary one and
  of every text in flight), so that a lost exclusion may lose an edit and never makes a duplicate.
  `QueueDocProofs` has one lemma for each operation.

With `HoldersReturn` (no process dies, no holder is slower than the staleness limit) also:

* `StoreExcludes`. `LockInv` adds to `OneHolder` that the directory exists exactly while someone holds the
  lock, that it is never older than a holder may be, and hence that nobody is on the way to steal it.
* `StoreIsAtomic`. `DataInv` adds that between its read and its rename a writer's text is what its
  operation makes of the file *as it is now*, and that a result is open exactly until then. The rename, or
  the refused one that begins the write in place, maps to `Serve`; giving up and failing map to `Refuse`,
  the rest to stutters.
* `EditsStayInPlace`. The file only changes to what its writer's operation makes of it, and of each
  operation `QueueDocProofs` shows what it leaves alone: entries it does not name keep their list, their
  flags and their order.

From `EndAssumption` (any sets, keys, policies and lifetimes; any number of write sides at once):

* `ReconcilesStayRight`. What a write side that nothing has disturbed leaves right is built up stage by
  stage, so `SettleInv` says at each await how far flags and Plex agree by then. That a sweep takes
  nothing just revived is about *all* jobs, for another's marks may come between: `SweepInv` says that a
  revived entry is flagged again only by its owner or in this very tick, too young to be swept. `MemoInv`
  says that counts, bases and memo are all of the past of a history that only grows.

From `LibraryAssumption` and `RotationAssumption` (any library whose listings name a thing once, any
channels over it, any lineup length and highest weight, any history):

* `LineupsStayFair`. `RotationInv` is about three things at once. *Weights*: the credit of a bucket is what
  it is owed, its weight times the slots dealt less what it was charged for its own (`CreditIsOwed`), the
  credits come to nothing, and since the highest always pays, none is ever a whole round in debt
  (`OwedIsInBounds`); `SumOf` is a recursive function, so its lemmas go by least numbers. *Sources*: what a
  channel deals is not a list but a choice of lists, so every bucket is shown to stand for one source, a
  member by its place or a rule by its key (`Stand`): its items are that source's, no rule bucket has a
  key a member or a collection speaks for, and the shuffle keeps all of it. That two buckets share an item
  only where sources overlap, and that something watched is dealt only for a source that is finished and
  restarts, is then a fact about two sources. *Order*: what is left of a show, a flattened collection or
  a batch of it is in the order of the whole (`InOrderOf`, closed under filters, beginnings and
  concatenation), and the slots of a bucket climb (`SlotsClimb`).

From `LibraryAssumption` and `RecipeAssumption` (any library, any curated queues over it, any batch,
episode and lineup length, any history of watching, airing, losing and skipping):

* `QueueStaysRuled`: the rules of a queue (`QueueKeepsItsRules`). The heart is `LeftIsToSee`: what the
  nested filters of `resolve.ts` leave of an entry (its collection, from the start on, without specials
  and what is watched) is exactly `StillToSee`, which is said without them; so an entry that has no batch
  has nothing to see, and a batch is never cut to nothing. `QueueInv` says what the recipe, the flags and
  the history are while the household watches; `PlayInv`, that what is loaded was laid out of batches.
  A lineup is shown to be a layout of whole batches in an order (`LaidOut`), cut at the end, and from that
  follow segments and, since a pool's order puts what is in progress first, `InProgressLeads`.
* `TilesStayHonest`: the grid's implementation of what comes next and the engine's agree
  (`TilesForetellScans`). Both are reduced to one filter over the same flattened list, of which the tile
  takes the first item and the engine a batch with the same head (`NextUpIsTheHead`). It needs of the
  history that what is begun is not finished (`StartedIsUnfinished`: the engine replays what is in
  progress and the tile does not look at it), and that a film retired by a scan has been seen
  (`RetiredFilmsAreSeen`: a film's tile goes by the flag and the history, not by a next-up).

From `RegistryAssumption`, `WindowAssumption` and `SentinelAssumption` (any files, as above, any labels,
lengths and map of profiles, any tiers in any order; the bounds are free):

* `RegistryStaysTrue`: both parts of `RegistryKeepsItsWord`. That a save plays as shown is about defaults:
  what is not written plays by the default of the kind the set becomes, which no cap cuts
  (`StoredPlaysAsShown`). Who plays is decided by the first channel that binds a profile, else by the map,
  so what must be kept out is a profile bound both ways: a save of a tier not yet migrated writes its
  binding to a list, where it may outrank another pool. `FileInv` says that no profile is bound so twice,
  and of the open editor that none of *its* bindings waits for the migration in another set; every
  operation's file stems from the one before, set by set (`Follows`), which is what keeps it. The migration
  moves the bindings of the tiers to two channels at the end, one of them is found where the map named a
  tier before, and the binding found there is that tier's (`MigrationKeepsTheRoute`).

From `DevicesAssumption` (any players, rounds in flight, times and faults):

* `RetainedStaysAsSeen`, with `RegistryIsTyped` and `StampsStayTruthful`. A stamp is truthful because of
  what is known of the rounds in flight, so `RegistryInv` adds that a round answered with a player is
  stamped no later than plex.tv last listed that player (`RoundsAreHonest`), and that what is listed now
  was last listed at this moment (`LivesAreNow`). Restarts, lost messages and overlapping rounds need
  nothing further. That the list *catches up* is liveness and stays with TLC.

From `GateAssumption` (any tiles in a row, aliases, PINs, budgets, drives and people):

* `GateMeansTheProfile`. A gate clears on one of two kinds of evidence: an observed log line, or a commit
  on a tile the walk has read itself. `GateInv` says that each is worth what it was when it was had, as
  long as nobody has used the Shield since: an observation is of the profile signed in (`SeenIsSigned`),
  what a walk has read back is lit (`SightIsTrue`), it commits only on the wanted tile
  (`CommitsTheRequired`), and after the commit the profile is signed in or a PIN holds the picker
  (`CommitIsMade`). The invariant and the action property are proved together, action by action.

From `ResumeAssumption` (any players, polls, lineups and scans):

* `SeeksStayRight`. Why a scan seeks an episode once is not in any poll: `ResumeInv` says that what has
  been sought is seen and in the plan, whichever poll sought it, and that plan, seen and lineup are only
  replaced together.

From `LiveAssumption` (any edits, drags, requests, answers and faults):

* `LiveTypes` and `RefreshesStaySafe`. A tag must not claim an edit its body lacks. `LiveInv` says it of
  every request from the moment the server has taken the stat (`FlightsAreSound`), in a form that files
  that grow between stat and read cannot break, and an answer hands it to what the tab shows.

From `CountsAssumption` (any counts, requests and edits):

* `CountStaysAsAsked`. `CountsInv` adds to the property that a request that does not reset the entry
  carries a count a person picked, never the absence of one, wherever the tab took it from, and that the
  two reads a request has made are values there are.

From `LeafAssumption` (any readers, profiles, episodes and faults):

* `MarksStayTheReaders`. Whose marks a reader is told depends on three shared things it did not make: a
  remembered account (`UsersAreNamed`), a flight another reader may have begun (`FlightIsIts`), and a row
  another may have stored (`RowsAreTheirs`). `LeafInv` says that each is about one account alone and
  claims nothing it has not watched, and what a reader holds follows from how far it has come (`Fine`).

From `UndoAssumption` (any bound on the stacks):

* `UndoStaysLinear`: the two stacks and the files refine one line of states with a cursor
  (`LinearHistory`). The files differ from the cursor's state while a request is between its writes;
  `UndoInv` says what the request still owes (`PushedIsRead`, `RequestIsSound`) and that an edit drops the
  oldest state only when the line is full (`StacksFit`).

From `MigrationAssumption` (any file, library and lookups):

* `MigrationStaysFaithful`. `MigrationInv` says line by line what has been migrated so far from the line
  as it was read (`MigratedTo`), and lemmas about each spelling say that a collection, a key or a title
  names afterwards what it named before and that nothing is left to rewrite.

From `GameAssumption` (any list of games and what each owes; tabs, times and bounds are free):

* `PassedOverStaysPlayed`. A launch judges by references it took from the file a while ago, so `GameInv`
  says of every stamp, in the file (`StampsAreSince`) and in a tab's hand (`LaunchIsSince`), that it is no
  older than the first launch that met its entry, and of Steam's remembered library that what it
  remembers has been (`MemoHasBeen`). A game on a card then keeps the plays it was passed over for until
  its entry goes.

From `WorldsAssumption` (any libraries, collections, queues and pools; a rating key is an item's or a
collection's):

* `PendingStaysHonest`. The rule half needs no history: what Plex resolves a title to scores more than
  nothing, so the cheap test lets it through (`ResolvedCouldBeNamed`), and a pool that takes an item
  passes the rule that is read from its configuration (`ListedIsNotPlayed`). The boxes half is an
  interleaving: `PendingInv` says that while a choice of libraries is in flight a newer read will follow,
  and that otherwise whatever the newest read has found so far is what the file says
  (`NewestIsCurrent`), because a dismissal, which writes the whole file back as it read it, never meets a
  choice (`DismissalIsAlone`).

From `GroupsAssumption` (any sets, accounts, stored groups and orders of them; nothing a group is called
means "nothing selected"):

* `FormStaysWithTheFile`. A form is filled from what the tab shows, so `GroupsInv` says when that is what
  the file holds: until this tab's own save is written (`InStep`), since at most one request has read a
  file, and that file is the file. A move may be written meanwhile, so the proof needs that
  `reorderGroups` changes no group: of two entries of one id the later counts, and a stable sort keeps
  them in order (`ReorderKeepsGroups`, by counting who comes before whom, `PlacesInLine`).

From `GridAssumption` (any sets, each once; any queues and any order of their keys; the filters and the
bounds are free):

* `DropsStaySingle`. A drop is judged where the server takes it, and by then every list may have moved on:
  `GridInv` says of each request under way what it says of the list its tab knew, and that is about the
  request alone. A card's request names the sets that were known, the hidden ones in their places and the
  others in their order (`CardMoves`: the permuted slots take exactly the cards on screen, `SplicedLists`,
  which needs that no set is listed twice, and so does the invariant); a poster's names the strip, and from
  another strip what is dragged besides (`PosterMoves`). The server's order then leaves of that list what
  the request says (`AppliedOrders`), whatever another client added or removed.

From `ReadingAssumption` (any queue of series, bound in volumes or not, in any numbering that agrees with
the order they are read in; any floors, visits, window, names and refusals; no chapter is of two series):

* `ListsStayInOrder`: `ListNeverSkips`. A launch puts up a lineup row by row and a tick appends one that was
  made of a list since read, while chapters come out and are read; so the invariant is about pairs.
  `MustPrecede` holds each chapter with those to be read before it, the floor counted; a list is *kept*
  (`Kept`) when of each pair whose later chapter it has, the earlier one stands before it if it is on the
  list or unread. Reading on only weakens that (`KeptLonger`), removing what is read keeps it
  (`KeptUnread`), and so does what a tick appends (`KeptByTick`): it takes the first of what is fresh, and
  what is not fresh is on the list. `ReadingInv` says it of the list at rest, of a launch's plan until its
  list is clear, and of rows and plan together from then on. That a lineup is kept to begin with
  (`LineupIsBacked`) rests on the comparison of `orderedAll` sorting any published part of a series as it is
  read (`OrderedAllIs`), and on a chapter's number being settled once a later one is out (`FloorIsSettled`).

From `StartAssumption` (any shows and collections of them, each member once; episodes listed by season and
number, specials only where a show has nothing else; any stored starts, histories and requests in flight):

* `SavesKeepThePlace`: `UntouchedSaveKeepsThePlace`. Half of it is about the window, half about the engine.
  `PickInv` says that an opening's number is above that of every request before it, so what carries the
  number asks for what the entry needs (`AsksRight`), and that an untouched form shows what it asked for
  unless a late answer came (`FormIsRight`): what is saved is then a function of the stored start and of
  what plays next (`Ready`). And two starts lead the engine to the same episode when what the second lets
  through the first does, and the first episode of the first the second lets through (`SamePlace`): a preset
  that names an episode stays at it (`PointOfEpisode`), one that names none goes to the first, before which
  there is nothing (`PointOfNothing`), and without a stored start it is what plays next (`PresetOfNext`).

What a recursive definition computes is shown without induction on data: `Picked`, a filter, is a function
on numbers, and if a fact about its first `n` steps were false for some `n` it would be false for a least
one, which the step before refutes. `SublistProofs` has this lemma (`LeastNumber`, from the
well-foundedness of the naturals) and what follows of it: a filter keeps order, membership and
distinctness, and no more than its list had; and, by the same descent along a list's beginnings
(`ListByList`), what filters make of filters, of appended and of concatenated lists.

The proofs changed the models where these could not be reasoned about or were wrong: three definitions
(`FirstWrite`, `SweepFirst`, `NextUp`) were a `CASE` whose guards overlap, of which TLA+ takes any branch
and TLC the first; they are `IF`s now, in the order of the code. A bulk move of one key out of two queues
made a set of what arrives and lost its order; it keeps the first of each now (`MovedInBulk`).
`WithinTarget` is told above. The attempt on the migration found a bare key that becomes another entry
(`Misreads`, in the next section). Two parts of `DealKeepsTheRules` were false beyond the instance.
`SharesAreKept` said that no bucket is ever a whole slot off its share; weights 1, 1, 1, 7, 7, 7 leave one
13/12 of a slot behind. It says now that none is ever a slot ahead, nor as many behind as there are other
buckets, and that every whole round is exact. `DealtOnce` said that nothing is dealt twice; the code
compares the keys of buckets, and two members, or a film and its section, may share an item under different
keys (`IsContested`, and `QueuedOnce` in the next section; the instance has such a channel now). About
curated queues the models had followed the instance: an environment that asks for no or a negative number
of episodes still gets one (`AtLeastOne`), in a batch and in a reel; and where neither entry, set nor
environment says how many, there is no batch to stop at a segment, which `BatchWithinSegment` says now. The
proof of `TilesForetellScans` found where the grid and the engine do differ (`ReadAlike`, next section). In
`SetRegistry` the tiers are the two ids of the code in its order (`TierIds`), where they had been what the
map of profiles names, in file order; and `RoutingIsKept` is about a save that leaves the bindings too:
without that it is false of an editor that is older than the set it saves (next section). In
`ReadingList` the property counted a chapter's number in either of its copies, the code in the one it reads
the series from; and the filters of a series and of a list are those of `Sublist`. In `StartPicker` the
property was false one gesture beyond the bound of its run: an answer that comes late lets a form save an
episode of another series, and the next opening does not find it. It leaves out stored starts that name no
episode there is (`StartIsThere`; next section), and the run begins with one.

Only model-checked: liveness, all of it, and with it `EditsAreReread`, `DueIsSought` and the like; of
`QueuePlaysAsRuled` the last part, `NothingIsForgotten`, which is liveness; exclusion of the store when
processes die; that the device list catches up (`ListingFollowsPlex`); and the three violations.

## Further disagreements

Where the code does not do what it says, or less than a reader would expect, and no run above is about it.
Those with a property state it in the module; instances that show the violation are easily made from the
cfg of the run named.

| Property | Module, cfg | What happens |
|---|---|---|
| `OneSetPerQueue` | `PlaybackSession`, `SessionSerial` with overlapping starts | `SESSION.set` is replaced before there is a lineup, `playQueueID` after the handoff (session.ts:292, 449). A start that fails in between leaves the new set beside the old queue; the next tick inserts the new set's items into the queue on the screen. |
| `SessionFollowsTheScreen` | with an advance | `advanceSession` pushes a new playQueue and `SESSION.playQueueID`, "the LIVE playQueue this session pushed", does not follow (session.ts:463). |
| `OneTopupPerCooldown` | with overlapping ticks | Two ticks delivered together both pass the cooldown, which is set after the last await (topup.ts:106, 242), although it is there for "a stuck (or duplicated) HA automation". |
| `NewestStartOwnsSession` | `SessionModes` with `Pool` of two or three | A superseded start whose `buckets()` answers late overwrites the newer start's `SESSION`: the flag is not read between selection and the assignment (session.ts:363). |
| `AuditStopsOnlyItsOwn` | `SessionModes` | A start superseded while it audits stops the newer start's playback: the flag is read before the audit and not after (driver.ts:369). |
| `TotalCountsTheQueue` | `SessionSerial` with `PlexDrops` | `queuedTotal` starts at the number of items sent, not accepted, so a finite set ends early when Plex drops items (session.ts:375, against topup.ts:247-248). |
| `TopupsAreTheScansAccount` | `SessionSerial` with two profiles named for one channel, or starts that overlap ticks | A start of the set that is playing, for another profile, replaces `SESSION.profile` before it has a lineup (session.ts:293). When it fails, or a tick comes in between, the tick selects as the new profile and extends the old profile's queue. |
| `GhostsAreEnded` | `Household`, as a `PROPERTY` | "A device that stops appearing must have its topic cleared or it becomes exactly the ghost this whole module exists to end" (devices.ts:140-142). A restart empties `REGISTRY`, which "mirrors broker state" (devices.ts:54-56) but is not read back from it: what was retained and has gone by the next sweep is never cleared (devices.ts:150-155). The same of an empty payload dropped while the client is disconnected, since the player leaves `REGISTRY` all the same. `GoneAreRemoved`, the part of `ListingFollowsPlex` that holds, leaves these devices out. |
| `OneHolder` | `StoreAtomic` with three writers | A process dies with the lock. Two waiters find it stale; the second one's `rmdir` removes the lock the first has just made, and both hold it (queues.ts:62). |
| `ActiveSetIsOnScreen` | `PlaybackEnds` | A restart during a playback publishes the idle session on the retained topic (mqttd.ts:253) before anybody has read it, so that the set that is playing is not reconciled, against finished.ts:179-180. |
| `TabCatchesUp` | `Feeds` | A refresh whose answer arrives during a gesture is deferred after its entity tag was recorded; the retry is conditional on that tag, is told nothing changed, and the tab stays stale (web/src/state/live.ts:74). |
| `SeeksFollowOurPlayer` | `Feeds` with two players | When the set's player cannot be found, `currentSession` (playback.ts:728) takes the first session in the house, and what that one shows is judged and a seek decided, which its own comment calls "a genuinely bad bug". |
| `RoundRobinUnweighted` | `Engine` | With every weight 1 the credits are not "EXACTLY the plain round-robin" of weight.ts:65 once a bucket runs dry: two items of A, one of B, two of C are dealt A1 B1 C1 C2 A2. |
| `QueuedOnce` | `Engine` | "Deduped by ratingKey (members win) so a member that also matches the rule isn't queued twice" (rotation.ts:180-181) compares the keys of buckets. A film that is a member is a bucket of its own, and the item section, another bucket, has it too: it is dealt twice. |
| `OutageIsNotFinished` | `Engine` | A child of a collection whose episodes cannot be read is passed over, and the tile says all is watched, which tiles.ts means to prevent. |
| `TilesForetellScans`, of every entry | `Engine` | The grid and the engine read the library differently (`ReadAlike` leaves these out). A show with specials whose seasons hold only files that are no episodes: the tile counts the specials, the engine sees seasons and leaves them out. A start that has no episode (of a collection it may name the child alone): the engine begins anywhere in the child, the tile at its season 1, and so says all is watched of a child of nothing but specials. |
| `ChosenLengthPlays` | `Engine` | A pool that still carries the legacy `refill` keeps it when any other length than the endless one is saved (sets.ts:1265), and plays on endlessly, although "saving a pool is what migrates it off the" flag (web/src/components/DynModal.tsx:404-406). |
| `ValidatedIsCurrent` | `Desk` with three reads | A reader may join a request another began before something was watched: for the count, and an outdated row validates; for the episodes, and it stores them under its newer count, where they validate until the next change, against "provably still correct" of the `leaves` schema. |
| `LockedIsMatched` | `Desk` | Unticking a set the stored group names shows it still ticked, and locked, until the form is saved: the lock is taken from the stored group and the draft, not from the accounts. |
| `PlaybackBeginsThere` | `Desk` | A start among specials is normalised to season 1 (`Math.max(1, ...)`), so an episode picked from season 0 is not where playback begins. |
| `NotFinishedWhenQueued` | `Desk` | A board game's tile counts its lifetime plays until a launch has stamped its entry, and reads finished at once. |
| `OneListPerSet` | `Desk` with a third label | A list is found by its set's label or its id: a second rename orphans it and the next launch makes another. |

Seen while modelling, in behaviours the models contain or step around:

* *Session and playback.* `lastMovieRk` (session.ts:345) is written by a start that may still be
  superseded. sse.ts:200 sets `LAST_NOW` in the order the awaits answer, so an older value may stay.
  live.ts's `now` listener renders during a gesture, `load()` commits without asking `uiBusy()`, and
  `resyncNow` may overwrite a newer frame. The comment at finished.ts:101 says less than
  `sweepCompleted` does with `keep_completed`.
* *Store and overrides.* `moveBulk` with one mover among duplicates drops the duplicates from their
  source, with none it writes nothing. An override equal to the default as read before the lock is
  dropped, and follows a default that is edited in between.
* *Groups and pending items.* Both files are read, changed and written without a lock, through one
  temporary name. Reordering with a stale read loses a group just created; a fetch that fails after a
  create leaves an empty draft whose next save takes every set out; Enter is not guarded by `isSaving`;
  ids of deleted sets are used again and are claimed by the old group. `isInAnyRule` and the engine
  disagree on what an entry matches (pending.ts:316-323, "Deliberately the same three tests"). An
  add whose second request fails loses the start on retry; `markSeen` does not prune dismissals; a box
  ticked between an earlier load's answer and its own request is lost.
* *Sets.* `refill` is deleted by the length branch only for an endless set; a new rewatch pool stores a
  length where the editor says it "follows ITS KIND's default"; a new anime queue is prefilled with 1;
  saving an untouched legacy tier writes `behavior: progress`; the migration does not carry `enabled`;
  deleting a set and its list are two locked steps. An editor that is open while its set is deleted and
  made again by the migration, under the same id, saves its old bindings over the new ones. A shelf drag on
  the Queues page puts every other set at the end of `sets.yaml`; the landing does not assert its order
  again after a request.
* *Starts.* A start saved after a failed read clears the stored one; one written by hand under a title
  loses its episode in `memberPreset`; one whose episode has gone, or that a late answer gave to another
  series, falls back to its season's first episode or the first season when the window is opened and saved;
  `start.episode: 0` reads differently on the two sides; answers of an earlier opening land in the form.
* *Engine and tiles.* Two members that share a child are both dealt it. An in-progress film does not lead
  a pool. The tile ignores `include_specials` and
  judges whether a show has real seasons on countable episodes only; it uses one account's view counts
  where the engine uses the household's history.
* *Top-up.* When Plex answers an extension without a size, every item of the slice counts as taken
  (topup.ts:246), so `queuedTotal` may run ahead of the queue.
* *Undo.* `UndoHistory` serves one request at a time. In the code an edit, an undo or a redo that arrives
  while another is between the awaits of history.ts:137-160 finds a stack popped and not yet pushed, or
  reads a file half restored; overlapping undos break redo (`Header.runHistory` is not guarded). An undo
  writes without the stores' locks through the same temporary names; the two files of a snapshot may be of
  two moments.
* *Providers.* Overlapping launches or ticks of one set double their work. A row Kavita refuses is passed
  over and comes later out of order; two sets with one label share a list; a volume published later is
  appended after a loose chapter. A webtoon of which one chapter is out is numbered as volume 1
  (kavita.ts:131, although "a webtoon puts many chapters under volume 1"), so that a later floor passes over
  it until the next is out. A play before the first launch is not counted; `reconcileQueue` throws
  for game providers, so `newlyDone` is never written; Steam's remembered library may offer a game just
  played. `accountToken` remembers a failed mint.
* *Migration.* A bare rating key becomes an entry with the title Plex has for it, and `describe` takes a
  title that begins with the word for a collection even beside a key (engine/resolve.ts:254-265), so an
  item so titled (`Misreads`) plays as a collection afterwards, although entryObjects.ts:88-94 is careful
  of "an item whose title merely starts with the word". "Collection: X (1954)" is looked up without its
  hint but keeps it when it is split, though entryObjects.ts:93-94 calls the split "a spelling change and
  not a semantic one". A second run on the same day after a torn write overwrites the good backup; a title
  backfilled to a key another entry has makes a duplicate; a lock left by a crash stops the tool but not
  the app; readers without the lock see the write in place torn.

## Not modelled, and why

* The cast sidecar, environment and configuration parsing, cover rendering (`kavita-cover-fonts.ts`), the
  wire formats of the Plex, Kavita, Steam, MiSTer and board-game clients, and the shapes of `types.ts`:
  I/O, formatting and declarations, without state of their own.
* Cast mode of the driver, MQTT discovery messages and heartbeats: they repeat what is known.
* The response cache on disk and the warm-up (`warm.ts`): they only repeat requests; what can be stale is
  in `LeafCache`. `listAll`'s parse memo, whose key is the file's stat, is left out for the same reason.
* Artwork, search, layout, themes and menus of the web app.
* Random choice is any choice, so nothing is said of its distribution; smart collections are lists.
* Scores of title searches and guids are two-valued: whether the first hit is the right one.
* Composition. The session awaits the gate, the store and the engine through answers that are free to be
  anything those components may answer, so it is checked against more behaviours than the composition
  has; a run over all of them at once is out of a model checker's reach. `PlaybackEnd` composes the lists
  of the store with the write sides, and `TileFace` the tile with the engine.
