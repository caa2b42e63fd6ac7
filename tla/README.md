# A TLA+ model of xrestream

xrestream relays HLS streams. A *control plane* (`src/backend`, mode `control`)
keeps channels in PostgreSQL, serves the dashboard's API and the public
`/proxy/...` routes, and runs a *worker* for every active channel whose mode is
`ingest` or `transmux`. The same binary in mode `node` runs on other machines:
it polls the channels pinned to it, runs their workers, and posts back what they
report. This directory holds specifications of the parts where goroutines,
requests, machines and crashes interleave, the TLC configurations that check
them, and TLAPS proofs.

Run from this directory:

    tlc -workers 2 -config MCRelayWorkers.cfg MCRelayWorkers
    tlapm RelayWorkersProofs.tla

## 1. The system

| Part | Code (below `src/backend`) | State | Operations |
| --- | --- | --- | --- |
| Manager, workers | `internal/relay/manager.go` | `m.workers`: one handle per channel id; a goroutine per handle | `StartWorker`, `StopWorker`, `StopAll`, `releaseWorker`, `workerLoop`, `transmuxLoop` |
| Channel rows | `internal/store/store.go` | table `channels`: configuration, `status`, `worker_status` | one SQL statement each, no transactions |
| Channel handlers | `internal/httpapi/server.go` | the row a request has read | POST, PATCH, DELETE, worker/start, worker/stop, purge-cache |
| Process | `cmd/api/main.go` | the signal context | boot, listen, `StopAll`, `Shutdown` |
| Playlists in memory | `relay/manager.go` | `m.playlists`, `m.assets`, `m.transmux` | `ServePlaylist`, `runIngestCycle`, `PurgeChannel` |
| Segment cache | `relay/manager.go`, `relay/cache.go` | files, `.tmp` files, singleflight | `ServeAsset`, `fetchAndCache`, prefetch, cleanup |
| R2 sync | `relay/manager.go`, `relay/r2.go` | the bucket, `m.r2Ready` | `uploadToR2`, `transmuxR2Watcher`, retention, `SetR2Client` |
| Transmux timing | `relay/manager.go` 901-1063 | `firstFailureAt`, `backoff` | restart, auto-disable |
| Transmux playlist | `relay/manager.go` 670-790 | the file ffmpeg writes | `readTransmuxPlaylist` |
| Node agent | `internal/nodeagent` | `memStore` (channels, reports, metrics), node manager | `syncConfig`, `flushReports`, `heartbeat`, `shutdown` |
| Node routes | `internal/httpapi/nodes.go`, `store/nodes.go` | table `nodes` | `/node/config`, `/node/report`, `/node/heartbeat`, stale nodes offline |
| Caches of the API | `internal/httpapi/auth.go`, `server.go` | sessions (30 s), origins, bypass flags | login, logout, invalidation |
| The rest | rewriter, signer, config, admin routes, frontend | none that is shared | conversions, CRUD, display |

How they interact:

- Handlers, `main` and the node agent call the manager under its mutex `m.mu`.
  `StopWorker` deletes the map entry and cancels a context; it never waits for
  the goroutine. So a stopped goroutine lives on beside its successor and both
  write the same row.
- Handlers read a row in one statement, and act on the snapshot in later ones.
  A client that goes away cancels `r.Context()`, hence the statements of its
  request, but not the calls into the manager.
- Workers write `worker_status` with `context.Background()` and, after a good
  fetch, `status` with their own context. `status` is also what operators save.
- A node has no database: its workers write `memStore`, a lossy buffer that is
  posted every 10 s. The control plane answers polls from the same rows that
  these reports change.

What is hard about it: late effects of stopped goroutines; decisions on rows
that have changed since; two columns with many unconditional writers; processes
that die between two statements; polls and posts that are lost, late or half
applied. `PROJECT.json` lists each such place under `hazards`.

What makes each part correct:

- Manager: never two uncancelled workers for one channel; the map names exactly
  the working goroutines; a cancelled worker ends; nothing is shown as running
  when nobody works, unless the statement that would say so failed.
- Handlers and process: once all requests are answered, a worker runs only for a
  live row and from its configuration; a boot restores the workers of the active
  rows before it serves; a disabled channel stays disabled; a purged or re-moded
  channel does not serve old bodies.
- Node: runs what is assigned and nothing else, whatever is lost; counts nothing
  twice; a running worker is not shown as stopped for good.
- Asset cache and R2: what is served was written whole; a segment marked ready is in the bucket viewers are sent to.
- Playlist reader: the media sequence never goes back.
- Transmux timing: a source that keeps failing is disabled, one that recovers is not.
- API caches: a logout, a password change or an invalidation wins over lookups that
  overlap it; what nothing invalidates is forgotten in time.
- Nodes: a silent node is shown offline in time, a running one not for one failed or slow job.

## 2. The modules

    WorkerSlot                    one lock per channel (abstract)
      ^ implemented by
    RelayWorkers                  manager, goroutines, rows; open environment
      ^ implemented by
    ControlPlane                  RelayWorkers + handlers + main + playlists
    TransmuxTiming                RelayWorkers + the clocks of transmuxLoop

    R2Sync                        marks, bucket, uploads, retention, client swap
      ^ extended by
    SegmentCache, TransmuxFiles   the files of an ingest or proxy / transmux channel
      ^ composed by
    Delivery                      both, with PurgeChannel and SetR2Client

    NodeSync                      which workers a node runs (uses the slot's promise)
    NodeReports                   what those workers report
    NodeHeartbeat                 how the control plane knows a node lives

    SessionCache, TimedCaches     logins and authCache / origins, bypass flags, hosts
      ^ composed by
    ApiCaches

`*Proofs` hold the theorems about the module of that name, `MC*` the finite instances. A definition commented
*Mutant* is a plausible bug of its successor; no specification uses it. It serves
to see that a property can fail.

**WorkerSlot** says what the manager promises without goroutines or maps: a free
slot can be taken, slots are given up, no step hands a slot to another worker.

**RelayWorkers** (`manager.go`). `workers` is `m.workers`; `Handles` are the
`*workerHandle` values, and `pc`, `chan`, `cfg` are the goroutine behind one: where
it is, its channel, and the row snapshot it was started with. `cancelled` and
`booted` with `rootDown` are its context: its own cancel function, and whether its
parent is the signal context of `main` (workers started at boot) or the API's
root context, which is never done. One action is one critical section of `m.mu`,
one SQL statement, or one blocking call. `StartWorker` claims the entry
(`manager.go` 130-146), `MarkRunning` is its statement after the unlock, `Begin`
the first one of the loop; `FetchOk` ... `FlagSource` are an ingest cycle,
`MkdirOk` ... `LeaveBackoff` the ffmpeg loop, `ReleaseWorker` and `MarkStopped` the
deferred function. The callers of the manager and the other writers of a row may act
at any time, which is more than the program does: what holds here holds of any caller.
Every statement may fail without the goroutine noticing, as all these errors are discarded (`GotoMarking`,
`GotoFlagging`, `MarkStopped`). `leftover` is a history variable: rows that a killed process, or a last
statement that failed, did not clean up.

**ControlPlane** (`server.go`, `main.go`, `store.go`) replaces that environment by
the real one. A request is a record: operation, next step, channel, and the row as
the handler last read it. One action is one statement or one manager call
(`UpdateChannel`, `HandlerStops`, `HandlerStarts`, `PurgeChannel`, ...).
`Disconnect`, `PullUnrecorded` and `UpdateWithoutAnswer` are clients that go away,
the last one after the UPDATE has committed. `BootStarts` ... `Reboot` are `main`: the
boot queries the active rows (`QueryAnswered`, or `QueryFailed`, after which `main` warns and listens without
any worker), starts workers one by one, a signal may come before it is done, `StopAll` runs
before `Shutdown` (`main.go` 104), and the process may die at any step.
`playlists` is `m.playlists`, a body standing for the configuration it was
fetched with; bodies of ingest live 24 hours, the others seconds (`MayHaveExpired`).

**NodeSync** (`agent.go`, `memstore.go`, `nodes.go`). The agent is one goroutine: a
poll is `AskConfig`, an answer (`AnswerAssigned`, or `AnswerWithoutChannels` when the
query fails, which `nodes.go` 389-393 answers 200 all the same), `Replace`, which
compares ids only, then `StopRemoved` and `StartAdded` one channel at a time. The rows
change between any two of these. The node's manager is the same code as above, so it
appears as what is proved of it: `running` is one slot per channel, with the snapshot the
worker runs. A worker returns by itself when the context is done, and in mode
transmux whenever it likes. `Flag` lets a report, however late, change a row's status at
any time; posts themselves are in NodeReports. `DeleteNode` takes the node's own row away at any time: its channels lose
their `node_id`, every later poll is refused (`AnswerConfig` needs a row), and the process goes on with what it knew.

**NodeReports** (`memstore.go`, `agent.go` 106-122 and 249-304, `nodes.go` 399-445).
Ingest workers write `statuses` and `metrics`; `Flush` drains both under one lock and then
posts; the handler writes statement by statement, worker status, source status, metrics.
`PostLost` is a request that never arrives or statements that fail; `PostReturns` lets the
agent go on while the handler still writes (timeout). `Shutdown` stops all without
waiting, then flushes once. As in the code, `SetSourceStatus` of a good fetch keeps an older
`LastError`, and the handler makes `source_error` of it. `failures` is a history variable.

**TransmuxTiming** (`manager.go` 901-1088) adds to the loop of RelayWorkers, action by
action, the variables that decide when it gives up and how long it sleeps: `ran` is the
time since `ffmpegStartedAt`, `window` since `firstFailureAt`, `backoff` and `rest` the
sleep. `WindowAfterFailure` is lines 1043-1049 and 994-996 in one expression: a run of more
than 30 s closes the window, else the first failure opens it, at the start of that run. A
successful start resets the back-off (`Started`, 1011-1029), so it only grows while
ffmpeg cannot be started at all. Time passes only while every loop runs ffmpeg or sleeps.
`broken` is a history variable: time since the last healthy run.

**R2Sync** (`manager.go` 92-99, 394-414, 553-633, 853-900, `r2.go`) has what both kinds of
segments share. `ready` is `m.r2Ready`, `objects` the bucket of the present client. An upload is
three steps, as the code holds no lock over it: `BeginUpload` opens the local file, `Put` sends it,
`MarkReady` marks it, in whatever map is there by then. `ForgetChannel` and `DeleteFolder` are a
purge and the goroutine it starts; `RetentionLists`, `RetentionDeletes`, `RetentionForgets` a round of
`r2RetentionLoop`. A method of a nil client ends the process (`CallR2`). A delete covers pages and
batches of objects and may fail after any part of them; then nobody forgets their marks (`DeleteKeepingMarks`).
`overtaken` and `lost` are history variables: uploads that a swap, a purge or a delete went past, and keys whose mark is
false for that reason, or because a delete took the object and left the mark.

**SegmentCache** (`manager.go` 319-391, 473-484, 527-551, `cache.go`). Files are inodes, for the
races are about names: `os.Create` truncates the inode that `<ref>.tmp` names, another
writer keeps writing to it, `os.Rename` publishes whatever the name means by then. A fetcher is
a goroutine in `fetchAndCache`: `UpstreamAnswers`, `CreateTmp`, `Copy` block by block, `Publish`, or one of
two failures. A viewer looks, polls in mode ingest, joins or leads a flight in mode proxy.
`Return` is the result of a flight reaching all that wait for it.

**TransmuxFiles** (`manager.go` 665-790, 824-899, 909-1077). `disk`, `listed`, `writing` are ffmpeg's
directory, with its list size and delete threshold; `Playlist` is what `readTransmuxPlaylist` makes of
`index.m3u8`: segments that are gone or newer than the sync delay are dropped, and those dropped
before any was kept (all, when none is) are added to the media sequence. A new ffmpeg numbers from the unix time, which may be
any number (`FfmpegStarts`; `reused` are numbers used before), and a source may fall silent for two seconds while a segment is
open (`SourceStalls`, `stalled`). `UploadFile` ... `Retention` are the two R2
goroutines, which exist only if there was a client when the worker began (`WorkerBegins`).

**Delivery** lets one channel be of either kind and adds `Purge`, `RemoveFiles` (both directories, whoever
writes to them) and `SetR2Client` at any moment.

**SessionCache** (`auth.go` 19-54, `server.go` 341-402 and 918-933, `admin.go`, `store/auth.go`). A request is at one
of its statements; `entries` is `authCache` with what is left of 30 s. `Lookup` reads, `Put` caches, and a
`logout`, a `PatchUser`, a `DeleteUser` or a `SetUserPassword` may fall between. `truth` is a history
variable, the time since the database would have answered a role; `overlapped` names the tokens
whose lookup was under way at a logout's drop. A change of the password is two statements, each of which may fail, and the first
may also take place and still report an error, which ends the request (`UpdateHash`): `kept` names the sessions and
the logins under way that such a change missed.

**TimedCaches** (`auth.go` 56-233, `server.go` 568-588). One entry of one of five caches. `originCache` looks under a
read lock, takes the write lock, looks again, and queries while it holds it (`Acquire`, `Query`, `Fill`);
`nodeHostCache` takes none. The five differ in what an error leaves (`get` ... `nodeHost`) and in which
routes invalidate (`handleOrigins` ...); `ChangeUnnoticed` are the changes that no route announces.
**ApiCaches** is the process with both; they share nothing, so one moves while the other rests.

**NodeHeartbeat** (`agent.go` 56-140, `nodes.go` 324-363, `store/nodes.go` 85-111, `main.go` 63-107). The agent is one
goroutine that takes one due job at a time, so a heartbeat waits for a slow poll. A request may be lost,
or reach the database after the agent gave up on it (`Fail` leaves `beat`). `Sweep` is the
statement of `main.go`, with its ignored error; either process may end and start.
`select` may pass over a due heartbeat without bound, and a job may take up to the
client's timeout. `trouble` is a history variable: jobs that failed or took longer than `Answer` since the last
heartbeat was written, and two as soon as a due heartbeat has been passed over more than `Unlucky` times.

Data is abstracted everywhere: a configuration (URL, mode, headers, poll interval,
node) is one value with a `Mode`; bodies and errors are not represented but for what a
property tells apart (whole or torn). Where time decides, it is counted in units; elsewhere a
timer or a fetch may end at any moment, so every order of events the real delays allow is
covered, and some they make unlikely.

## 3. What is checked

| Run | Instance | Question and result |
| --- | --- | --- |
| `workers` | 1 channel, 2 handles, ingest and transmux | Whatever callers do: the map is exactly the active workers (`EntryIsActive`, `ActiveHasEntry`), never two (`AtMostOneActive`), an entry leaves only with its worker (`EntryLeavesWithItsWorker`), an idle channel is shown as stopped unless a killed process or a failed last statement left it (`IdleMeansStopped`), the slot is implemented (`ImplementsSlot`); a cancelled worker ends (`CancelledWorkerEnds`), and a stale goroutine's late `stopped` does not hide its successor for ever (`RunningIsShown`). Holds. |
| `transmux_timing` | 1 transmux channel, 1 handle; healthy above 4 units, window 20, sleeps 1 to 8 | A loop whose ffmpeg never stays up is given up within the window, one run and two sleeps (`BrokenIsDisabled`); one that had a healthy run within the window is not (`BlipsAreForgiven`); a stopped loop ends (`StoppedLoopEnds`). Holds. |
| `control` | 1 channel, 1 request at a time, all operations, modes ingest and proxy, clients that leave | When all is quiet a worker has a live row (`NoWorkerForDeadRow`) and, unless the last PATCH went unanswered, the row's configuration (`WorkerRunsRowConfig`), with crashes and boots anywhere; a boot whose query was answered serves nothing before the active ingest rows have workers again (`BootResumesActive`). Holds. |
| `control_orphan` | 2 requests: start and delete | `NoWorkerForDeadRow` is **violated**. |
| `control_disabled` | 1 request: patch | `DisabledStaysDisabled` is **violated**. |
| `control_proxy_body` | 1 request: patch | `ProxyBodyIsShortLived` is **violated**. |
| `segments` | 1 ref of 2 blocks, 2 fetchers, 2 viewers, or 3 segments in a window of 2; 1 upload at a time; rows of mode ingest, proxy and transmux, with and without sync | One request per proxy segment (`OneUpstreamRequest`); a proxy file is published whole (`PublishedIsWhole`), an ingest file with holes is still being filled unless a fetch broke off (`HolesAreFilled`), no `.tmp` outlives its writers (`TmpHasWriter`); marks are true but for the `lost` ones (`ReadyIsThere`); playlists send nobody to a torn object but for a source that fell silent and a number used again (`SharedIsWhole`); the media sequence is never below that of an earlier playlist with segments, until an ffmpeg begins below the last one (`NumbersNeverGoBack`); a nil client is called only after one was taken away (`NilIsNotCalled`). Holds. |
| `node` | 1 channel; ingest, transmux and proxy here, the same elsewhere; the node may be deleted; 2 interrupts or crashes | Between syncs only known channels run (`OnlyKnownRuns`); who stays away is dropped, unless the node itself was deleted (`UnassignedEnds`); an ingest channel that stays is run again after anything (`AssignedRuns`). Holds. |
| `node_mode` | ingest and proxy on the node | `StopsOnModeChange` is **violated**. |
| `node_reports` | 1 channel, 2 handles, 1 failure, crashes without bound | No failure is counted twice (`CountedAtMostOnce`); a worker that keeps running is not shown as stopped for ever (`RunningIsReported`). Holds. |
| `heartbeat` | units of 5 s: periods 30, 15, 10 s, cutoff 90 s, timeout 20 s; `Answer` 5 s, `Unlucky` 2 | A node silent for the cutoff and a sweep's interval is not shown online (`SilentIsOffline`); a running node is shown offline only after two jobs that failed or took longer than `Answer`, or after a heartbeat passed over more than `Unlucky` times (`OneFailureIsForgiven`). Holds. |
| `api_caches` | 1 token, 3 requests, 2 passwords; 1 entry of each kind, 2 readers, 2 writers; lives of 2 units, answers within 1 | A finished logout wins (`LogoutWins`), an old password has no session (`OldPasswordIsOut`), an invalidation wins (`InvalidationWins`), each but for the overlaps and the failed statements its comment names; nothing looked up is believed longer than an entry's life and a lookup (`NothingStaleForLong`). Holds. |

Bounds, and why they suffice.

- *Channels.* The manager's map, the rows and the node's map are indexed by
  channel, and no operation but `StopAll`, the loops over channels and the end of a
  process touches two. One channel shows every conflict between its own goroutines and
  requests. The proofs below hold for any set of channels.
- *Handles.* Two: a stale goroutine and its successor. A third stale goroutine does
  what the second does; the safety results are proved for any number.
- *`TransmuxIsAlone`* (`workers`) cuts states in which a goroutine in the transmux loop has another beside it:
  liveness would take too long, and the safety properties are proved without it.
- *Requests.* One in `control` (see the limits below), two where the conflict
  of two requests is the question. The refinement and the boot are proved for any number, the other
  two properties for any number of which no two for one channel overlap.
- *View and symmetry of `control`.* The view leaves out `workerStatus` and `leftover`, which no guard
  reads and no property of the run mentions. Handles are interchangeable, as are inodes,
  fetchers, viewers, requests, readers, writers and passwords in the other safety runs.
- *Inodes.* Three for one ref: the published one, the temporary one, and one a writer still
  has open. *Blocks.* Two: one may be missing while the other is there.
- *Segments.* Numbers 1 to 3 in a window of two: a segment enters, moves and leaves. Segment 2 is the one
  that may be uploaded; an ffmpeg may begin at any of the three. `UnsyncedHasClient` leaves out rows without sync whose manager has no
  client, which do nothing with R2.
- *Times.* The horizon of `transmux_timing` is above every sum its properties compare; the lives of
  entries of two units show the first, the middle and the last moment of an entry. *`MaxAnswer`* and *`MaxLookup`*
  bound how long an answer is under way; what the properties say depends on these times, so they are assumptions of them.
  *`Answer`* and *`Unlucky`* bound nothing: they are the two numbers in the statement of `OneFailureIsForgiven`, and
  slower jobs and unluckier heartbeats are in the run.
- *`ExceptionsApart`* lets one kind of exception happen per behaviour: in `segments` a silent source, a number used again, or a
  client replaced by nil; in `api_caches` a token that a change of the password missed is followed only while its
  session is there or coming, and not together with a lookup that overlapped its logout. The proofs know nothing of these constraints.
- *`OtherRests`* (`api_caches`) lets the part that does not move start in one state only.
- *Configurations.* One per mode that the question is about. `SavedStatus` omits
  `source_error`, which workers write anyway.
- *`MaxRestarts`* (NodeSync) makes "crashes stop some day", which `AssignedRuns` needs,
  part of the instance; NodeReports has none. *`MaxFailures`* (NodeReports) bounds a counter;
  one failure is enough to be counted twice. *One post at a time* (`Flush`) is a bound
  too: in reality a handler the agent gave up on may overlap with the next one.

Limits of these results that a reader should know.

- *Failed statements of a worker.* The error of the deferred `stopped` is discarded (`manager.go` 430, 906): where that
  UPDATE fails the row goes on saying `running` with no goroutine, without any crash, until a worker of the channel
  ends again or an operator stops it. `IdleMeansStopped` excepts these rows, with those of a killed process.
- *A boot whose query fails* (`manager.go` 119-122) is logged as a warning (`main.go` 55-57), and the server listens with no worker
  running, until each channel is started by hand; `cleanupLoop` is not started either. `BootResumesActive` excepts this boot.
- `WorkerRunsRowConfig` and `NoWorkerForDeadRow` hold with one request at a time, and the first for channels
  whose last PATCH was answered (`unanswered`). With two concurrent PATCHes the UPDATEs may commit in one order and the
  workers be restarted in the other; with a client that leaves while the UPDATE commits, the
  worker is not restarted at all (`server.go` 717-723). In both cases the worker keeps the
  configuration the row no longer has, until the next PATCH.
- `RunningIsShown` and `RunningIsReported` are about ingest: an ingest worker writes its status
  every cycle. A transmux worker writes again only when ffmpeg exits, so a late `stopped`
  may stand for as long as ffmpeg runs well.
- `AssignedRuns` is about a channel that is an ingest channel all along. A channel whose mode
  changes on the node keeps, or never gets, its worker (`node_mode`). A transmux
  worker that gives up leaves its id in the node's map: when an operator re-enables the channel
  before the next poll, no worker is ever started for it.
- *A deleted node.* `DELETE /me/nodes/{id}`, or the end of its owner's account, sets the `node_id` of its channels to null and makes
  every later poll a 401 (`nodes.go` 326-346), which the agent logs (`agent.go` 153-156). Its process runs the
  workers it last knew until it is stopped. `UnassignedEnds` excepts it.
- A node whose report flags a channel `source_error` loses it at the next poll
  (`ListChannelsForNode` wants `active`), so one failed fetch of an ingest channel can end it
  until an operator re-enables it. On the control plane the next good cycle would.
- *Transmux.* A run of ffmpeg of more than 30 s forgives every failure before it, so a source that breaks
  every 31 s is restarted for ever, each time after one second, for every successful start resets the
  back-off. When the loop gives up, the deferred `stopped` sets `last_error` to null again (`manager.go` 906).
- *purge-cache on a running transmux channel* removes the directory ffmpeg writes to; only a new goroutine
  makes it again (`manager.go` 415, 911), so the channel has no segments until its worker is restarted.
- *Quiet for two seconds* is how the watcher knows a segment is finished (863). A source that is silent for that long in
  mid-segment, which ffmpeg is told to wait for (`-rw_timeout` of 30 s, reconnects, 940-952), has its torn segment uploaded and
  never replaced. `SharedIsWhole` excepts these segments (`stalled`).
- *Segment numbers* start at the unix time (935). After segments shorter than a second, or a clock set back, a new ffmpeg begins
  at or below a number used before: the media sequence goes back, and a name may be marked, or an upload of it under
  way, with the older content. `NumbersNeverGoBack` begins anew there, and `SharedIsWhole` excepts the numbers (`reused`).
- *An empty playlist* counts all the listed segments as dropped (746-767), so its media sequence may be above that of the next
  playlist that has some. `NumbersNeverGoBack` holds of every playlist against earlier ones *with segments*.
- *Local files* are removed only in the round that uploads them and only when they are by then older than
  the retention (884), so with prompt uploads ffmpeg's own threshold is all that removes them. With sync on, a segment
  whose file is gone is dropped from the playlist although R2 has it.
- *Swaps of the R2 client.* `SetR2Client(nil)` while a goroutine has seen the old client ends the process with a
  nil dereference; a client set later never starts the watcher of a worker that runs already (917). A mark
  that comes after the swap or the purge stays in the new map (569); so does the mark of an object that was uploaded
  and marked after a purge, and that the purge's goroutine then deletes. The retention lists one bucket and deletes in whichever is configured by then.
- *Deletes that fail half way.* `DeleteFolder` and `DeleteKeys` work by pages and batches of 1000 (`r2.go` 63-80, 123-155) and may
  report an error after some objects went, or after all with the response lost. The retention then forgets no mark at all
  (`manager.go` 618-629). `ReadyIsThere` excepts these keys and those of the paragraph above (`lost`), and no others.
- *Asset cache.* When the viewer that leads a flight goes away, its context fails the flight for all that wait.
  Prefetches of two cycles share a `.tmp`: a segment may be published with blocks missing while a second writer
  still fills the same inode; if that one breaks off, the hole stays, and may be uploaded.
- *Sessions.* A lookup that overlaps the logout's drop puts the session back for 30 s; a login that overlaps a
  password change keeps a session from the old password. So does every session when the delete from `sessions` fails, which is
  ignored (275), and when the UPDATE takes place but is reported as failed, as for a client that has gone (268-270): the request then
  ends before the delete. `OldPasswordIsOut` excepts these three (`kept`). Disabling a user,
  changing a role and deleting a user do not touch `authCache`: they count within 30 s.
  `PurgeExpiredSessions` is called by nobody, and `authCache` drops an expired entry only when it is asked for again.
- *Origins.* A statement that commits for a client that has left, a rename, a new channel on a slug that was looked up
  before, cascading deletes and a PATCH of a node invalidate nothing. A lookup that fails gives everybody's origins
  another 30 s, as often as it fails, and leaves an owner or a channel with none. The lookup runs under
  the write lock: while the database hangs, so does every reader.
- *Heartbeats.* Go's `select` promises no order, and a job may take up to 20 s (`agent.go` 51) and succeed. So a node whose process
  runs may be shown offline for a moment though no job failed: with the default periods
  when its jobs take 10 s each, or when a heartbeat is passed over three times and one job fails. `OneFailureIsForgiven` says what
  it takes at least, not that it cannot happen. `NODE_HEARTBEAT_SECONDS=0` makes `time.NewTicker` panic on a node (`agent.go` 77), while
  `main.go` falls back to 30 s. A sweep that fails, and the first interval after a restart, leave a silent node online.

Fairness. Go runs every runnable goroutine, a fetch ends by the client's timeout, a
statement by the database's answer, a cancelled ffmpeg by SIGKILL: weak fairness of what a
goroutine does by itself. Of the statements that end a worker's cycles
not every one fails for ever: strong fairness of `CycleIsRecorded`, which only `RunningIsShown` needs. A working ffmpeg may run for ever, so its exit is not
fair. Nothing is assumed of operators, clients, signals and crashes. On a node the tickers
never stop and `select` serves them at random, so polls and flushes are strongly fair; that
polls are answered, with the database's channels, and posts handled again and again
when they are tried again and again is strong fairness of `AnswerAssigned` and
`WriteWorkerStatus` (of a node that has a row; nothing is assumed of a deleted one, which is never answered): without it a network that is down for ever makes liveness void.
`TimedSpec` adds weak fairness of time and of what a loop does by itself, not of ffmpeg's exit.
The runs `control`, `segments`, `heartbeat` and `api_caches` check safety and need none.

### Disagreements between the code and its documents

1. `control_orphan`: `worker/start` reads the row, a DELETE stops the worker and deletes the
   row, then `StartWorker` runs with the old snapshot. The worker pulls its source until the
   process ends; every route answers 404 (PRD 10.2.2).
2. `control_disabled`: `SetSourceStatus` writes `active` without a condition. A cycle in flight
   when an operator disables the channel makes it active again, and the next boot starts it
   (PRD 10.1.4).
3. `control_proxy_body`: a body ingest stored for 24 hours survives the change to proxy, which
   serves it, frozen, until it expires (PRD 9.1).
4. `node_mode`: `memStore.Replace` compares ids, so a node never notices that the mode, URL or
   headers of a channel it keeps have changed (PRD 10.2.2).

## 4. What is proved

Every safety invariant and every action property the passing runs check is a theorem for every
value of the constants. Each module's proof has one step per action, which shows that its
inductive invariant is kept; TLC agreed that it is an invariant of the run's instance first. The
assumptions are the `ASSUME`s of the modules (special values are outside the sets they
complete, `Mode` is a function to the modes, bounds are numbers) and, where this section says so,
a hypothesis of the theorem.

**RelayWorkersProofs.** `InvariantHolds` proves the inductive invariant

    IInv == TypeOK /\ LiveHasChannel /\ IdleIsFresh /\ EntryIsActive /\ ActiveHasEntry

The registry invariant is not inductive without the two middle parts: a goroutine
that is alive must have a channel, or `ReleaseWorker` could not compare the right entry;
and an idle handle must belong to no channel and not be cancelled, or the worker that
`StartWorker` makes of it would be born cancelled. From it follow `TypeCorrect`, `RegistryIsExact`,
`ActiveIsReachable`, `NoDuplicateWorker`, `NoHandover` (an action property), `IdleRowsAreStopped` (with its own
strengthening, `UncreatedIsStopped`: the row of a channel not created yet says `stopped`) and
`ManagerImplementsSlot`: with `Owner(c)` defined from the goroutines and not from the map, every
step acquires a free slot, gives slots up, or stutters.

**ControlPlaneProofs.** The first invariant is `ControlTypeOK` with `RequestInv`: what a request
carries fits the step it is at. `ControlPlaneImplementsWorkers` takes the actions one by one:
each is a RelayWorkers action with the arguments the handler holds, or leaves its variables
alone. So every theorem of RelayWorkersProofs holds of the whole control plane under any number of
concurrent requests, disconnects, boots and crashes.

`BootStartsEveryActiveRow` rests on `BootInv`: while a `main` whose query was answered boots, no request is handled, nothing but a
signal cancels a worker, and an active ingest row has its worker or is still to be started.

`OneClientLeavesNoOrphan` and `OneClientLeavesNoStaleWorker` have the hypothesis `[]Serialised`: no two
requests *for the same channel* overlap. The run `control` has one request at a time and meets it, the run
`control_orphan` shows that it is needed; the theorems add that requests for other channels may overlap in
any number. `RowInv` has three parts: a worker that does not fit its row belongs to a PATCH
whose next step stops it (`WorkerFits`); what a handler will start from is what the row holds
(`SnapshotIsFresh`); a row about to be deleted has no worker any more (`StoppedBeforeErase`).

**TransmuxTimingProofs.** `TimedLoopsAreWorkers`: the loops with their clocks take RelayWorkers' steps, so its
theorems hold of them. For auto-disable the invariant follows the loop: the failure window is
never older than the trouble (`WindowInv`, `RunInv`), hence `BlipsDoNotDisable`; and at each point the trouble is
bounded by the window, and the window by what the loop may still do before it looks at it again
(`Unbroken`, `Failing`, `Left`), hence `BrokenLoopIsDisabled`, for every threshold, window and
back-off (a window of 0 disables the feature, as in the code).

**DeliveryProofs.** `DeliveryInv` has a part for each module and `TieInv` between them.

- *Files.* `NamesApart` and `Owned`: an inode has one name at most and is written only by fetchers of that
  name's ref. So a `.tmp` that exists has a writer (`TmpNamesHaveWriters`), and whoever truncated a named
  inode last fills it unless it breaks off (`Filled`), hence `HolesGetFilled`.
- *Proxy.* singleflight leaves one fetcher per ref (`OneFetcher`), which therefore renames a file all of whose
  blocks are its own (`OwnBlocks`): `UpstreamIsAskedOnce`, `ProxyFilesAreWhole`.
- *Bucket.* `MarkedIsThere` says of a mark still to be made what `ReadyIsThere` says of one that is made;
  `overtaken` names the uploads a swap, a purge or a delete went past. Hence `MarksAreTrue`. `CallersAsked`:
  who will call R2 without asking again has asked, so there is a client or one was taken away (`NilClientIsNotCalled`).
- *Playlists.* `NoGap`: the window ffmpeg lists has no gap, so what was dropped plus the sequence is the number
  of the first segment that is kept, which only grows until an
ffmpeg begins below (`SequenceNeverGoesBack`). `TornIsCut`: an unfinished
  segment in the bucket is one in whose middle an ffmpeg ended, and no ffmpeg lists that one (`cut`), unless its
  source fell silent or its number is used again (`stalled`, `reused`), and these the property names. So `SharedSegmentsAreWhole`, without
  a hypothesis.

**NodeSyncProofs.** `NodeInv` adds to the types: outside a sync nothing is left to do
(`LoopsAreOver`), what is to be started is known, and a worker of an unknown channel is one the
sync in progress is about to stop (`WorkersAreKnown`). Hence `NodeRunsOnlyKnown`.

**NodeReportsProofs.** `CountInv` is a sum: what the workers have still to count, what `memStore` holds, what a post carries
and what the database has counted is no more than what failed. A drain moves a number and a lost
post drops one; none is doubled (`FailuresAreNotCountedTwice`).

**NodeHeartbeatProofs.** `SilentNodeIsOffline`: as long as the last sweep worked, the time since the last heartbeat and the
time to the next sweep add up to no more than the cutoff and an interval (`SweepComes`).
`OneFailureNeverCounts` has the hypothesis `Punctual`, four inequalities between the configured times and
the two numbers of its statement: `Unlucky` jobs of `Answer` that `select` prefers end before the next tick, and the cutoff leaves room for a heartbeat that waits for them
twice and for a job in between that times out. `DefaultsArePunctual` shows that the default times, in the units
of the run, meet it, two of the four with nothing to spare. The invariant bounds, at each point of the agent's loop, the time since the last heartbeat,
once for no failed job (`NoneFailed`) and once for one (`OneFailed`), each as long as luck lasts (`LuckRunsOut`); a heartbeat that waits was, without a failure, due after the last one was
sent or at the tick after it (`OnTime`).

**ApiCachesProofs.** What a lookup found is as young as the lookup (`PutTrue`, `FillTrue`), so an entry is as old as its own age
and the lookup's at most: `EntriesAreShortLived`, for every life of an entry and every delay. `LogoutHolds` needs
that a token is created once and before any logout of it (`TokensOnce`); `OldPasswordNeverStays`, that a login
under way counts as the session it will make (`NewPasswordIsIn`); `InvalidationHolds`, that the lock keeps lookups
and invalidations apart (`LockInv`), so that an answer under way is as good as an entry (`Current`).

Model-checked only: all liveness (`CancelledWorkerEnds`, `RunningIsShown`, `StoppedLoopEnds`, `UnassignedEnds`,
`AssignedRuns`, `RunningIsReported`), which rests on fairness and so on ENABLED, out of the prover's reach. That the four
`violation` runs fail is TLC's result too.

## 5. What is not modelled

- Read-only routes, ownership checks, sharing links, audit logs, validation of input, node tokens, a user's
  R2 settings: one statement per request, nothing shared. Their effects on what is shared are in the
  models (`SetR2Client`, `DeleteUser`, `ChangeUnnoticed`).
- Rewriter and signer: text and HMAC conversions; the models keep whether a rewrite succeeds.
- Viewer counting, configuration, frontend, deployment: display or static.
- `MAX_WORKERS` (PRD 10.2.6): read from the environment, compared with nothing.
- Slug renames outside the caches, channel ownership, `last_error`, timestamps, metrics of the control plane.
- On a node: transmux workers' reports, the playback routes.
- `ServeTransmuxSegment`: it opens a file of ffmpeg's directory, and changes nothing.
- The one second for which `m.transmux` spares a reader the file: any time may pass between two reads.
- The tags of a playlist's text; what ffmpeg does is its documented list, threshold and numbering.

## 6. Plan

1. *Built:* the modules of section 2, their runs, and the proofs of section 4.
2. *Next, proofs:* refinements: the workers of a node (NodeSync's slots) from WorkerSlot's promise, and abstract
   specifications of the asset cache (a map from refs to whole files) and of a session cache (a set of tokens that
   only shrinks by a logout) for which Delivery and ApiCaches are shown to be implementations.
3. *Possible extensions:* the rewriter as a function from lines to refs, transmux workers in NodeReports, two posts at
   a time.
