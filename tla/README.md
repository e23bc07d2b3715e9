# TLA+ models of CatchUp DVR

CatchUp DVR is one Go service beside one SQLite database and a directory of
recordings. It claims scheduled recordings when they are due, runs one FFmpeg
per tuner, offers temporary live-TV sessions on the tuners that are left, and
keeps a programme guide. This directory holds TLA+ models of that service, the
TLC configurations that check them, and TLAPS proofs that hold for every
number of jobs, tuners, sessions, links, requests and imports. Paths below are
relative to `src/backend/internal/` unless they start with `cmd/` or `docs/`.

## Inventory

| Component | State it keeps | Operations | Talks to |
|---|---|---|---|
| Recording store (`store/store.go`) | the `recordings` table | `Schedule`, `ClaimDueRecording`, `InterruptedRecordings`, `SetRecordingProcess`, `TouchRecording`, `FinishRecording`, `RequeueRecording`, `CancelRecording`, `DeleteRecording` | called by the supervisor and the HTTP handlers; one connection, so operations are atomic |
| Recording supervisor (`recording/supervisor.go`, `storage.go`) | the map of active jobs; per job a context with a cause, an FFmpeg, a folder | `Run`, `startDue`, `capture`, `complete`, `finish`, `Delete`, `recoverInterrupted` | store, tuner pool, FFmpeg, disk |
| Tuner pool (`recording/tuners.go`) | who holds a tuner, and how to preempt a live holder | `AcquireLive`, `AcquireRecording`, `Release` | supervisor and live manager |
| Live manager (`recording/live.go`) | live sessions, their buffers and FFmpeg | `Start`, `run`, `Stop`, `Touch`, `Wait` | tuner pool, FFmpeg, HTTP handlers, cast service |
| Guide refresh (`guide/refresh.go`, `scheduler.go`, `fetcher.go`) | the last-good copy on disk; the guide tables | `Refresh`, `RunHDHomeRunScheduler`, `RunScheduler`, `saveCache`, `cached` | tuner, guide provider, store |
| Guide import and logos (`store/store.go`, `guide/xmltv.go`, `logos.go`) | channels, programmes, logo rows with a retry time, channel numbers of recordings | `ParseXMLTV`, `channelNames`, `ReplaceGuide`, `resolveChannelLogos`, `ResolvePublicChannelLogos` | guide refresh, public catalogs |
| Guide queries, favourites (`store/store.go`) | favourites table | `Guide`, `GuideDays`, `SearchGuide`, `SetFavoriteChannel` | HTTP handlers |
| Cast service (`httpapi/cast.go`) | links (tokens), each with a deadline and a timer | `issue`, `authorize`, `revokeLive`, `expire` | live manager |
| Authentication and tuner set-up (`httpapi/auth.go`, `config/config.go`) | account row and a cached copy; tuner address as a row and a copy | `setup`, `login`, `changePassword`, `sessionUser`, `configureTuner` | store |
| HTTP API (`httpapi/server.go`) | none | one handler per route | everything above |
| Composition root (`cmd/catchupd/main.go`) | the root context | start, shutdown | everything above |
| FFmpeg command, GPU detection, configuration | read once at start | | |
| Web client (`web/`) | user interface | | HTTP API |

What is hard in this code, and what makes each component correct:

* **Store.** Several callers race on a row: the polling loop, the goroutine of
  the job, recovery, and HTTP handlers. Each transition must follow the state
  model, and the overlap count at scheduling time must keep holding through
  every later transition.
* **Supervisor.** A DELETE may meet a capture at any of its steps. The process
  may stop between any two steps, and recovery then runs beside handlers that
  are already serving. A job must end settled, with its tuner, its process and
  its files accounted for.
* **Tuner pool and live manager.** A session is published in the pool before
  its FFmpeg and its goroutine exist; preemption, an explicit stop, a failed
  start and the session's own end meet in every order, and the order in which
  `run` gives things back is what waiters rely on.
* **Guide refresh.** Any number of refreshes share one copy and one temporary
  file; a failed download is answered from the copy.
* **Guide import.** What to do about each logo is decided from a table read
  seconds before the transaction that saves it, imports overlap, and one that fails
  takes the answers of the catalogs with it. A schedule copies a channel number that
  later imports must keep right.
* **Cast service.** Each link has a timer whose callback takes the lock after it
  fired, so a read may come between. A lapsed link stops a live session, beside the
  session's own idle timer, a DELETE, and other readers.
* **Authentication and tuner set-up.** Each setting is kept twice, and a handler
  writes the row first and the copy later; the copy of the account is filled by
  whoever finds it empty, which may be late.
* **Exit.** After a signal main waits for the recorder and for the live sessions
  that were counted, and for no handler; handlers run until the process is gone.

`PROJECT.json` lists each hazard at its line with the properties about it.

## Modules

| Module | Models | Checked by |
|---|---|---|
| `JobLifecycle` | abstract: the phases of a job as a reader of the table sees them | refined by `RecordingStore` and `Supervisor` |
| `TunerPool` | abstract: what recordings and live sessions may expect of the tuners they share | refined by `Supervisor` and `LiveTv` |
| `RecordingStore` | the `recordings` table, one action per operation | run `store`; `RecordingStoreProofs` |
| `Supervisor` | extends `RecordingStore` by the supervisor, the files, the FFmpegs, a coarse pool, HTTP handlers, start, shutdown and crash | runs `supervisor*`; `SupervisorProofs` |
| `LiveTv` | live manager and tuner pool in detail, with recordings that preempt | run `live_spawn`, and through the next; `LiveTvProofs` |
| `LiveService` | extends `LiveTv` by `main`: signal, listener, waits and exit | run `live`; `LiveServiceProofs` |
| `CastService` | cast links and their timers, the idle timer and `Touch` of live sessions, on one clock | run `cast`; `CastServiceProofs` |
| `Settings` | account and tuner address, each with its copy in memory | run `settings`; `SettingsProofs` |
| `GuideRefresh` | scheduler, explicit refreshes, fetcher, cache | runs `guide*`; `GuideRefreshProofs` |
| `GuideImport` | parsing of channels, logos, the import transaction, the programme a schedule reads | run `import`; `GuideImportProofs` |
| `MC...` | values for the constants | |

### RecordingStore

`rows` is the table (total: a job not inserted yet is `"new"`, a removed one
`"deleted"`), `nextID` the AUTOINCREMENT counter, `now` the clock. Every action
has the name of its method. `ClaimDueRecording(j)` and `ClaimNothing` are the
two outcomes of one transaction: both first close elapsed rows. Error messages
are kept as kinds, because `MessageMatchesStatus` is about them; of those a
capture ends with, only "no tuner" is told from the rest. The clock passed by
callers is the current one. `TouchRecording` is left out: the heartbeat, like the
process and the started and finished times, is never read back by a decision. The
playlist path is left out as well: `recordingOutputDir` finds the folder without
it, from the title and the local start (a change of time zone between two runs of
the service is not modelled). So `SetRecordingProcess` only asks for an active row.
`ReplaceGuide` may rewrite `channel_number` of scheduled rows, a column this model
does not have; `GuideImport` is about it.

### Supervisor

`capture[j]` is the program counter of the goroutine of job `j`, `"idle"` when
there is none; `cause[j]` is `context.Cause` of its context; `verdict[j]` is
what it is about to store. `svc` is the life of the process: `"down"`, `"boot"`
(main has started `Run`, HTTP is served), `"recover"` (inside
`recoverInterrupted`, with `pending[j]` the decision taken for each row it
read), `"up"` (the polling loop). `del[j]` is the program counter of a DELETE
handler. `disk[f]` is the state of a folder: absent, empty, playlist open or
ended. `erased`, `survivors` and `unsaved` are history: the jobs whose output was
removed, those whose last FFmpeg outlived its stop, and those whose row this process
could not write. The last two are what the log reports; the properties except exactly
them, so that a fault is allowed everywhere and excuses only the job it struck.

The mutex `activeMu` is held from the claim to the registration of the job; a claimed
job has no goroutine yet and nobody else acts on its row, so the pair is one action.
A DELETE holds it from `CancelRecording` to the cancellation of the context, and there
the capture, which takes the mutex only at its end, may run in between and meet its
cancelled row: that is two actions (`DeleteRequest`, `DeleteCancels`), and `Locked`
keeps out the claim, another DELETE and the end of a capture. Everything else is split
where shared state is touched. A step that only logs is not an action. A crash takes the
FFmpeg processes along: the deployed service is PID 1 of its container
(`deploy/compose.yml`).

The pool here is two sets, jobs and live sessions with a tuner; a preempted
session ends some time later, or is `"lost"`: its FFmpeg does not start, its tuner goes
back and nobody closes its `done`. `LiveTv` has the details. Both implement
`TunerPool`, each from its own side: here a recording is detailed (it may be deleted
while it asks or waits, and the process may be killed), there a session is.

### LiveTv

`start`, `run`, `stop` and `rec` are the program counters of a Start handler,
of the run loop it starts, of a DELETE handler and of a recording inside
`AcquireRecording`. `pool`, `jobs`, `dirs`, `proc`, `cancelled`, `done` are
the shared state, each as a set; `leftover` is history, the sessions whose directory
`RemoveAll` did not remove: the code ignores or logs that error. The deferred calls of `run` are separate
actions in the order Go runs them. Timers are not timed: a session's own end is
possible whenever it waits. `CastService` times them.

### LiveService

Where `main` is (`"serving"`, `"closing"`, `"waiting"`, `"leaving"`, `"exited"`), and
as history the sessions `LiveManager.Wait` did not wait for (`uncounted`). `Live(A)`
lets a goroutine take its step until the process is gone; the recorder claims nothing
after the signal, but a request may still come over a connection accepted before the
listener closed. `LiveDone` is `LiveManager.Wait`: it looks at the run loops that exist,
so a Start handler that has taken a tuner or spawned FFmpeg and not reached
`waitGroup.Add(1)` is not waited for. Between its return (`Waited`) and the end of the
process (`Exits`) handlers still run and may pass `Add(1)`; `ExitIsClean` says what
the exit leaves by where a session was when the wait returned, wherever it has come
since. An FFmpeg outlives the process here, so that there is something to say. Every
step of this module is a step of `LiveTv` or a stutter, which is a theorem.

### CastService

`link[t]` is the life of a token (`"checked"` between the check of its playlist
and `issue`), `left` and `timer` its deadline and its `time.Timer` as countdowns,
`firing` the calls of `expire` that have not got the lock. `ordered` are the
sessions an expired link is about to stop: `expire` calls `Stop` after it has
released the lock. `session`, `cancelled`, `activity` and `idle` are the
live manager as far as its timers go: the context, the one-element channel of
`Touch`, and the idle timer; the `select` of `run` takes any ready case. The
six-hour limit and an FFmpeg that exits are `EndsByItself`; the other ways to cancel the
context of a session, a preempting recording, a signal and a start that is not ready, are
`CancelOutside`, and the sessions they meet are kept in `outside`. `unread` and
`untouched` are history: the time since the last read. `Tick` lowers all countdowns
and is never held back, so a due timer may be late by any amount.

### Settings

Credentials are named by the request that made them (password hash and session
secret are always made together), so `account`, `cached` and the `key` a client
presents are requests or `None`. `pc[r]` walks a handler through `getCredentials`
(`"ask"`, `"read"`, `"fill"`), its decision (`"have"`), the row (`"write"`)
and the copy (`"publish"`). Expiry of cookies, hashing and signing are not
modelled; logout changes nothing in the service. `past`, `dead`, `known` and
`overtaken` are history; `overtaken` are the requests whose row another one replaced
before they made it the copy.

### GuideImport

`channels`, `programmes` and `logos`/`wait` are the tables; `update[i]` is what
import `i` decided for each station, first from the table (`Decision`), then from the
catalogs (`Lookup`, which may find any part of what it asks for). `Commit` is the
transaction, refused by the foreign key when a programme is of a channel the
document does not list; `Abort` is one that fails, for that or any other reason. A
display name is a pair of a number and a text, which is all that `channelNames` tells
apart; that a station's id may serve as the last source of its number is left out. A tick
is a day; `stale`, `asked`, `lost` and `missed` are history. `asked` counts from the
lookup, saved or not, and `lost` are the stations whose answer went with a failed import.

### GuideRefresh

A document is the version it carries, or `Junk` for a body that arrives with a
success status but does not parse. `OpenTemporary`, `WriteTemporary` and
`RenameTemporary` are the system calls of `saveCache`; `file[r]` follows the
open file of a refresh through renames by others; `SaveFails` is any of them failing.
Parsing and the transaction of `ReplaceGuide` are one action, which may fail. `delay` is what the scheduler will wait; `failed`,
`met` and `overlapped` are history: the scheduler's last download failed, the refreshes
under way that met another one, and whether refreshes have met since one that met none
was imported. A refresh from a configured
URL takes the same path (`Fetcher.URL`); one from a file saves no copy and is
left out.

## Runs

Bounds are constants with the comment "bound" in the module that declares them.

| Run | Instance | Shows |
|---|---|---|
| `store` | 3 jobs, 2 tuners, one airing with four windows, clock to 4 (82 thousand states) | typed table; accepted windows never need a third tuner; messages match statuses; implements `JobLifecycle` |
| `supervisor` | 2 back-to-back jobs, 1 tuner, 1 shutdown or crash, failing store writes, unkillable FFmpeg (1.9 million) | a recording row has an owner, no overdrawn tuner, deleted jobs leave nothing, completed jobs are playable, media of an active job is kept, a job is refused a tuner only when another overran or it came too late, removal only after settlement |
| `supervisor_live` | 1 job, 1 session, 2 restarts, unkillable FFmpeg, failing starts of either, failing store writes, file removals and end markers, leaving clients (74 thousand) | a DELETE is answered; the job settles unless it waits for a session that never started, and after a failed write once the service starts again |
| `live` | 2 sessions, 1 recording, 1 tuner, one signal, failing starts and removals, leaving clients (129 thousand) | tuners not overdrawn; implements `TunerPool`; a successful stop means gone; nothing left behind; the exit leaves only what belongs to sessions not counted when `Wait` returned; preemption and stop are answered; the exit comes |
| `cast` | 2 links, 1 session or a recording, both timeouts 2 ticks (586 thousand) | open links are watched and kept while read; a session stops only for a cause, and does stop when unread |
| `settings` | 4 requests, 1 restart (128 thousand, symmetric) | copies follow rows unless their writer was overtaken; one set-up; old credentials are refused |
| `guide` | scheduler and one more refresh at a time, 2 versions, 2 requests, 1 crash, failing downloads, disk and store (175 thousand) | guide catches up; it goes back, and its copy is torn, only after refreshes met and before one that met none is imported |
| `import` | 2 imports, 2 stations, 3 documents, 1 recording, retry after 2 days (332 thousand, symmetric) | logos are chosen once and asked for weekly where the answer was saved, numbers follow the guide |

Two jobs are enough for the hazards of the supervisor because jobs meet only in
pairs: over a tuner, over a folder, or in the order of claims. One tuner makes
every meeting a conflict. Windows that touch are the interesting case, since
overlapping ones are not accepted together on one tuner. The clock stops after
both windows. In `store` four windows on two tuners give every relation of two
intervals that the strict comparisons tell apart; the theorem covers all others.
Two restarts let a recovery itself be interrupted.

`live` has one tuner for three that want it: the recording preempts a session
while the other one starts. It is small because it carries liveness; the safety
properties are proved for every size. For the same reason its FFmpegs die when they are
killed; with `"kill"` in the place of `"disk"` the run has 281 thousand states and passes, too.
`supervisor` leaves `ImplementsPool` and `AwaitedIsTold` to their proofs: checked on
it by hand they hold. Two links are enough because links meet over
a session, in pairs, and never otherwise; both timeouts are equal, as they are in
the code (two minutes), and since a due timer may fire late either comes first. In
`settings` four requests let a change meet another change or
a cache fill between an earlier set-up and a later login. The documents
of `import` change a number and a name, add and lack an icon, and break the
foreign key; a third import adds nothing, since an import is affected by
another only through the tables and the sets `stale` and `lost`.

`supervisor` checks `RefusedOnlyOnOverrun` rather than the absence of refusals:
the run `supervisor_refused` shows that refusals do happen.

### Where the texts and the code part

Each of these runs checks one statement made by a comment or a document, and TLC
shows a behaviour of the code that contradicts it.

| Run | Statement | Behaviour |
|---|---|---|
| `live_spawn` | "Recordings may preempt live buffers so a scheduled recording is never missed" (`recording/tuners.go:13`) | `Start` publishes `job.done` in the pool, and when FFmpeg does not start nobody closes it: a recording that preempted the session waits for ever |
| `supervisor_refused` | the same | back-to-back recordings on one tuner: the second is claimed while the first is stopping its FFmpeg, and fails with "no tuner was available" |
| `supervisor_folder` | "Old segments remain addressable for the lifetime of an active recording" (`docs/ARCHITECTURE.md:29`) | two jobs for one airing share a folder; deleting one removes it under the other |
| `guide_torn` | "Successful XML is atomically retained" (`docs/ARCHITECTURE.md:18`) | two refreshes interleave on one temporary file, and the copy is truncated |

Four more have a configuration beside the regular runs, for whoever wants to see
the behaviour; TLC stops each with a violation:

| Configuration | Statement | Behaviour |
|---|---|---|
| `MCSupervisorElapsed.cfg` (`MCSupervisor`) | "crash recovery must either resume safely or finalize the playable prefix" (`docs/ARCHITECTURE.md:32`) | a job requeued at shutdown whose window ends meanwhile is failed (`store/store.go:525`), its playlist stays open |
| `MCGuideRefreshMasked.cfg` (`GuideRefresh`) | "Failures retain the cached guide and retry after 30 minutes" (`docs/ARCHITECTURE.md:53`) | a failed download answered from the copy is a success to the scheduler (`guide/scheduler.go:70`), which waits a day |
| `MCGuideImportChoice.cfg` (`MCGuideImport`) | "resolveChannelLogos preserves a station's first successful automatic choice" (`store/store.go:233`) | an import that read the table before the choice and found nothing is saved after it |
| `MCGuideImportWeekly.cfg` (`MCGuideImport`) | "A missing result is retried only weekly" (`store/store.go:234`) | an import asks for a station another one has just asked for; without a second importer, one whose transaction fails forgets what it asked, and the next refresh asks again |

Others were met while modelling and appear only as exceptions in a property: a body
is saved as last-good before it is parsed (`guide/fetcher.go:36`); a recording
whose FFmpeg exits early is finished without `#EXT-X-ENDLIST`
(`recording/supervisor.go:276`); after two overlapping password changes or tuner
set-ups the copy in memory may differ from the row until the next undisturbed change or
a restart (`httpapi/auth.go:129`, `:237`; exception `overtaken` of `CopiesFollowRows`); a link
that lapses stops a session another reader still uses (`httpapi/cast.go:106`,
a cause of its own in `EveryStopHasACause`); a recording requeued after the
guide changed is tuned by its old number (`store/store.go:207`, exception
`missed` of `NumberFollowsGuide`); a buffer whose removal fails stays
(`recording/live.go:119`, `:127`, `:186`, exception `leftover` of
`EndedLeavesNothing`); and a row whose write failed says recording until the next start
(`recording/supervisor.go:334`, exception `unsaved` of `RecordingHasOwner` and
`EveryJobSettles`). A DELETE that dies between the files and the row leaves a completed
row without its playlist (`recording/supervisor.go:170`, exception `erased` of
`CompletedIsPlayable`). And `Guide` reads channels and programmes in two queries
(`store/store.go:317`): a client may be shown programmes of channels it was not given,
which no property is about.

### Fairness

`Supervisor`: the goroutine of `Run`, the captures and the handlers are
scheduled by Go (weak fairness on each as a whole; strong fairness on the two steps that
take `activeMu` again and again, since Go's mutex starves nobody). The container is restarted
(`restart: unless-stopped`). An FFmpeg that is being stopped exits: it is
interrupted, then killed. A live session ends by itself, after six hours at the
latest (`LiveConfig.MaxDuration`). No fairness is assumed of requests,
shutdowns, crashes, or of an FFmpeg nobody stops. `LiveTv`: the same for its
goroutines. `LiveService`: also that the closed listener and the finished waits
let `main` go on, that a recording whose context is cancelled comes to its end, and
that an FFmpeg being stopped exits; none of a signal or a request. `CastService`: time passes, a
due timer fires, the goroutines it starts and the run loop are scheduled; none of
reads, requests, DELETEs or preemption. `UnreadSessionEnds` needs no more: a session nobody reads
runs into its idle timer. `Settings` and `GuideImport` have safety properties only
and no fairness. `GuideRefresh`: goroutines run, timers fire, the user sets the tuner
up, and where the scheduler tries again and again to download, save and import the newest
listing, each of these steps succeeds now and then (strong fairness on each): a tuner
that never answers, a disk that stays full or a store that never commits promises
nothing.

## Proofs

`RecordingStoreProofs` proves, for every number of jobs and tuners, every guide
and every padding, from `StoreAssumption` alone:

* `StoreTypeCorrect`: `StoreTypeOK` is an invariant. It is inductive as it
  stands, because it says that exactly the identifiers from `nextID` on are new.
* `StoreNeverOvercommits`: `NoOvercommit` is an invariant. It looks at the
  starts of the accepted windows, which is enough for a reader but not
  inductive: which starts are looked at changes with each step. The inductive
  form `NeverCrowded` bounds the windows covering *every* instant. Scheduling
  keeps it because the windows that cover an instant of the new one all overlap
  it (`CoveringOverlaps`), so the count `Schedule` takes bounds them; every other
  operation accepts nothing new and moves no window (`OthersAcceptNothing`,
  `CoveringShrinks`). Empty and inverted windows cover nothing.
* `StoreMessagesMatch`: `MessageMatchesStatus` is an invariant, inductive together
  with the types.
* `StoreImplementsLifecycle`: the table implements `JobLifecycle`, step by step
  (`EachJobMoves`).

`SupervisorProofs` proves, from `StoreAssumption` and `SupervisorAssumption`,
for any number of jobs, live sessions, tuners and restarts, any assignment of
folders and any set of faults:

* `SupInvariant`: the inductive invariant `SupInv`. Beyond types and the bound
  on the pool it says, for each job, what the program counters exclude. `Owned`:
  goroutines, processes, recovery and handlers exist only for rows that exist, a
  DELETE under way holds a settled row, and after its wait there is no goroutine.
  `Requeued`: a job whose goroutine is still there waits again only during a
  shutdown, so it cannot be claimed a second time under its first goroutine.
  `Tuned`: which steps hold a tuner, and where an FFmpeg that was not given up on
  can run. `Erased` and `Kept`: what is known of the folder of a removed and of a
  completed job, which must also cover a verdict that is decided and not stored yet.
* The proof first shows that everything the service does to the table, except
  the removal of a row, is one of the operations of the store under a
  precondition (`StoreWrites`, `NextWrites`) and therefore `Quiet`: it forgets no
  airing, revives nothing settled, removes no row. Each action is then examined
  against `Quiet` instead of against the table. Only one folder changes at a time,
  and a job either owns it, uses another, or shares it (`FilesOfOneJob`).
* `SupervisorTypeCorrect`, `SupervisorTunersNotOverdrawn`,
  `DeletionLeavesNothing` and `CompletionIsPlayable` follow. What a kernel that does
  not reap a killed FFmpeg spoils is in the statements: the FFmpeg, the tuner and the
  playlist of a job in `survivors`, while the pool itself is never overdrawn.
* `ServiceNeverOvercommits` and `ServiceKeepsLifecycle` lift the theorems about
  the table to the service; the second with the stricter life cycle, in which
  only settled rows are removed.
* `ActiveMediaKept`: the only step that takes a playable playlist away is
  `RemoveFiles` (`OnlyRemoval`), and its row is settled.
* `RefusalNeedsOverrun`: in the only step that decides "no tuner" the pool is
  full of recordings (`RefusalFindsPoolFull`). A recording runs only once its
  window has begun (`Started`), so if none of them were past its window or row,
  they and the refused one would cover one instant with more windows than
  tuners, against `NeverCrowded` (`FullPoolOverruns`).
* `EveryRecordingHasOwner`: `RecordingHasOwner` is an invariant. `Recorded` adds to
  it which steps of a goroutine still count as an owner, and `Disowned` that a capture
  cancelled as deleted has a settled row. A row nobody owns is one whose write failed
  (`unsaved`), and only until the next start.
* `AwaitedJobsAreTold`: the capture a DELETE or the exit waits for has its context
  cancelled, and so has every capture whose row is cancelled, but in the moment in which
  the handler that did it still holds `activeMu`. `Told` is the inductive form: the claim
  and the registration of a job are one step, so no goroutine starts unseen after a
  shutdown or a DELETE, and `Locked` keeps the end of the capture out of that moment
  (`ToldKept`). It says nothing about a capture that waits for a session: that wait may
  have no end, which is `Stranded` in `EveryJobSettles`. `Waiting` says that a job has a
  session to wait for exactly while it waits.
* `SupervisorImplementsPool`: the captures implement `TunerPool`. Where a job asks, waits
  or holds is read off its program counter, and a step that moves none of these is a
  stutter (`TunersUnseen`); the loop, deletion and the stops only cancel, and the end of
  the process is `Reset`.

`LiveTvProofs` proves, from `LiveTvAssumption`: the inductive invariant
`LiveInv`, which determines what a session holds by where its two goroutines are
(`Holds`), and from it the type invariant, `TunersNotOverdrawn`,
`DoneMeansReleased`, `StoppedMeansReleased` and `EndedLeavesNothing`. The exceptions
they make are FFmpegs that were killed and given up on (`Survivors`) and directories
whose removal failed (`leftover`), never a tuner in the pool or a map entry. Then:

* `LiveTvImplementsPool`: the manager, the pool and the recordings that preempt
  implement `TunerPool`. The pool is one map here and two sets there, so the proof
  counts: sessions and recordings that hold a tuner are disjoint and together all of the
  map (`PoolSplits`). It needs that a key of a recording is in the map only while the
  recording holds (`RecordersHold`), so that it cannot ask twice, and that a recording
  has a target exactly while it waits (`Targeted`).
* `LiveAwaitedWillEnd`: a DELETE that waits for `done` waits for a session that has
  closed it, or that is cancelled and has a goroutine that will; a recording does, too,
  unless the FFmpeg of the session it preempted could not be started (`Unstarted`). That
  recording waits for nobody, which is what `live_spawn` shows: the theorem says that it
  is the only one. `WaitInv` adds the recording between the preemption and the wait. This
  is the safety half of `PreemptionAnswered` and `StopSettled`, for every size.

`LiveServiceProofs` proves `ServiceImplementsLive`: `ServiceSpec => Spec`, so
every safety theorem of `LiveTv` holds of the process `main` runs
(`ServiceTypeCorrect`, `ServiceTunersNotOverdrawn`, `ServiceDoneMeansReleased`,
`ServiceStoppedMeansReleased`, `ServiceEndedLeavesNothing`, `ServiceImplementsPool`,
`ServiceAwaitedWillEnd`). `ServiceExitsClean` needs `RecordersHold` and `Counted`: once
the wait has returned, the recorder and every session that had a run loop are done, and
stay so while handlers run on (`EndedStays`, `RecorderStays`).

`CastServiceProofs` proves, from `CastAssumption`, the invariant `CastInv`. Beyond
`CastTypeOK` and `OpenLinkIsWatched` it says that deadline and time since the last
read add up to the timeout (`Counted`), that the idle timer cannot be ahead of the
reads unless one waits in the channel (`Noticed`), and that a session
that is cancelled or about to be has a reason for it (`Caused`): somebody outside, its
DELETE, or a link of it that lapsed. `LinksKeptWhileRead` and `StopsHaveACause` follow:
where a link lapses `left` is zero, so `unread` is the timeout; where the idle
timer fires `untouched` is.

`SettingsProofs` proves, from `SettingsAssumption`, the invariant `SettingsInv`:
before the first account nobody has seen one (`NoAccountYet`); credentials are
written once (`WrittenOnce`); whoever is about to publish wrote the row or was overtaken,
and what anybody is about to fill an empty cache with while nobody publishes is the row
(`AccountCopied`, `AddressCopied`); nobody decides with credentials that were dead
when he came (`DeadStayOut`). A race spoils the copy of those that took part in it and
no later one. `CopiesAlwaysFollow`, `OnlyOneSetup` and `OldCredentialsStayOut` follow.

`GuideImportProofs` proves, from `ImportAssumption`, the invariant `ImportInv`: an
import that is going to touch a logo decided so from the row it will replace, or
another import has changed it since (`DecidedFromRow`); for a week after a lookup the
row says so, unless the answer is in the hands of an import or was lost with one
(`AnswerRemembered`, `Unsaved`); numbers are right while a recording runs, too, because
it may be requeued (`NumberCurrent`). `NumbersAlwaysFollow`, `FirstChoiceStays` and
`CatalogAskedWeekly` follow; the last holds for imports that fail, too.

`GuideRefreshProofs` proves, from `GuideRefreshAssumption`, the invariant
`RefreshInv`: nothing is newer than what was published (`NothingNewer`); a refresh that
has met none is alone, in the temporary file, too, and what it is about to import is what
it left in the copy (`Alone`); and unless refreshes have met since such a one was
imported, a version on its way and the one in the copy are at least as new as the guide
(`NothingOlder`). The import of an undisturbed refresh restores the last part whatever
state the races before it left, and a refresh that fails to save or to import leaves the
guide, and but for the rename it had done the copy, as they were. `RefreshTypeCorrect`,
`GuideOnlyAdvances` and `CopyStaysWhole` follow.

Only model-checked are the liveness properties, which are out of the prover's reach
(`EveryJobSettles`, `DeleteReturns`, `PreemptionAnswered`, `StopSettled`,
`ShutdownEnds`, `UnreadSessionEnds`, `GuideCatchesUp`). Every safety property of a
passing run is a theorem.

## Not modelled

* `GuideDays`, `SearchGuide`, `SetFavoriteChannel`, `ListRecordings` and
  `TouchRecording`: single statements on rows with no invariant between them. `Guide`
  answers from two queries and promises nothing of what lies between them.
* XMLTV syntax, times and programme ids; how a station name is matched against the
  public catalogs (`guide/logos.go`), whose answer is nondeterministic here: text
  conversions without state.
* FFmpeg's arguments, GPU detection and the environment: built once, or read once
  at the start. `limitedBuffer` of the process output feeds only log lines.
* Static files, JSON and HLS serving, and whether an asset asked for through a cast
  link lies in the folder of its playlist; the web client.
* `RunScheduler` with a configured URL takes the path of `RunHDHomeRunScheduler`;
  a guide from a file saves no copy. Both are left out.
* Concurrent DELETEs of one recording; the ten seconds `server.Shutdown` gives open
  requests, for which `main` does not wait anyway.

## Plan

Done: `JobLifecycle`, `TunerPool`, `RecordingStore`, `Supervisor`, `LiveTv`,
`LiveService`, `CastService`, `Settings`, `GuideRefresh`, `GuideImport`, and the proofs of
all of them, both refinements of the pool included. Left, in this order:

1. The time lines of `CastService` against `LiveTv`: the sessions of the one as an
   abstraction of the run loops of the other.
2. Guide days, folder names and `limitedBuffer` as operators against reference
   definitions over small inputs.
