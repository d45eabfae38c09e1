# DjangoLux: models and proofs

TLA+ models of the parts of DjangoLux (`dlux`) whose correctness depends on the
order in which processes act: web workers, Celery workers, Celery beat, threads,
the operator and Composer, which share database rows, the cache, the file
storage and some JSON files. TLC checks each model on small instances; TLAPS
proves the safety properties TLC checks for every size.

| file | what it is |
| --- | --- |
| `UpdateRuns` | the updater's operations, the state tick, the hand-off to Composer |
| `OneAtATime` | what the updater promises, implemented by `UpdateRuns` |
| `ReleaseState` | which release runs and which is offered: volume, supervisor, reconcile, check, channel |
| `SystemBackups` | the life of a system backup: creation, runner, retries, reaper, operator |
| `BackupLifecycle` | what a backup row promises, implemented by `SystemBackups` |
| `BackupChains` | increments, closing, rotation, deletion, and what a restore brings back |
| `OpsRuns`, `AgentRequests`, `ControlLink` | operator commands, bridge requests and pairing, exchanged with Composer and its agent as files |
| `OcrQueue` | reading a document's file in the background |
| `SettingsStore`, `SettingsForms` | the settings row, its cache and its writers; settings kept in two forms |
| `ReportBackups` | report backups, their sweep, pruning and drawer item |
| `AssetLibrary`, `DocumentFiles` | managed assets and who points at them; a document's file and its history |
| `ArchivePipeline` | the threads that write one backup archive |
| `ModelSelection` | which models a backup covers and in which order |
| `Sessions` | one user's sign-ins, the eviction of the other sessions, presence history |
| `WeatherReadings` | the weather widget's cached reading and the worker that refreshes it |
| `Services` | the smaller components, side by side |
| `MC*.tla`, `MC*.cfg` | the instances for TLC |
| `UpdateRunsProofs`, `ReleaseStateProofs`, `SystemBackupsProofs`, `BackupChainsProofs`, `OperationsProofs` (`OpsRuns`, `AgentRequests`, `ControlLink`, `WeatherReadings`, `ModelSelection`, `ArchivePipeline`), `FilesProofs` (`OcrQueue`, `AssetLibrary`, `DocumentFiles`, `ReportBackups`), `SessionsProofs` (`Sessions`, `SettingsStore`, `SettingsForms`), `ServicesProofs` | the proofs |
| `PROJECT.json` | components, runs, mutants, map from definitions to source lines, findings, hazards, theorems |

Run `tlc -config MCUpdateRuns_faults.cfg MCUpdateRuns` (and so on) and
`tlapm UpdateRunsProofs.tla` in this directory.

## Inventory

`PROJECT.json` lists every component with its files and what is left out of it.
The ones that keep state and have a protocol:

| component | state | operations | who interacts | what is hard | what makes it correct |
| --- | --- | --- | --- | --- | --- |
| Updater operations (`updater/service.py`, `image_update.py`, `package_request.py`, `tasks.py`) | `DluxUpdateState` row with `active_run_token`, `DluxUpdateRun` and `DluxImageUpdate` rows, request, ack, status and maintenance files | queue a check, apply, rollback or image update; the tick's claim, hand-off, polls, time-outs, reconcile | views, agent bridge, beat, any Celery worker, Composer through files | overlapping ticks, workers killed by the very update they started, late answers | one operation at a time, token exact, backup before intent, site masked while containers are recreated and not after, verdicts are Composer's, everything ends |
| Updater policy and runtime volume (`runtime.py`, `supervisor.py`, `release_check.py`, `channel.py`) | pointer, generation, staged releases, state row, channel policy, report | reconcile, adopt, stand down, roll back, skip, change channel, finish a check, restart processes | supervisor, Composer, web and Celery start-up, operator, tick | a crash or a lost volume between two writes, a whole-row save against the operator's choice, a choice judged on a row read before it | every process ends up on one release that is there, an offer is one the policy admits, a rollback goes where it says |
| Ops runs (`ops.py`) | `DluxOpsRun` rows, request, ack and result files | queue, tick, expire | several web processes, tick, Composer | late results, two queues, a preview that is out of date | in order, one at a time, each result its own run's, a repair is one that was shown |
| Control link, agent bridge | pairing rows, request and result files, alert marker | pair, cancel, publish, consume, alert | web, tick, Composer's agent | repeated requests, rows deleted and inserted in two steps | the newest request wins, an admitted request is not reported as rejected |
| System backups (`backup/create.py`, `dispatch.py`, `retry.py`, `reporters.py`) | `SystemBackup` rows, Celery messages, archives on storage | create, claim, report, complete, fail, re-arm, sweep, resume, cancel, delete | create view, updater, command, beat, page poller, operator, Celery workers | a dead runner told only by silence, several starters of one row, saves of stale objects | one builder per row, retries counted, passphrase rows never unattended, archive kept exactly while its row wants it, everything ends |
| Backup chains (`backup/chain.py`) | parent links, `.idx` sidecars | take an increment, close, rotate, delete, upload | runner, scheduler, operator | retention and deletion against what depends on a member | a chain has one member at each place, what is kept can be restored, a restore is exact |
| Archive format (`backup/crypto.py`, `reporters.py`) | a ZIP stream, two queues, three threads | write, encrypt, report, cancel, seal, open | threads of one runner | a failing or cancelled thread while the others wait for it | nothing but a whole archive opens, a cancel stops the build, all threads end |
| OCR (`ocr/`) | `FileText` rows by content, messages, retries | save, Run OCR, scan, read, retry, give up | web, beat, workers, sidecar | a file replaced under a running read, a lost message | text belongs to its file, every file is read in the end |
| Settings (`models/base.py`, `models/settings.py`, forms, import) | one row, its cached copy, snapshots; newer and older keys | load, save whole or in part, test mail, import, revert | several requests | stale instances, a cache filled late, two forms of one value | what is saved sticks, the cache ends up with the row, both forms agree |
| Report backups (`reports/`) | `ReportBackup` rows, archives, drawer items | start, build, sweep, prune | pages, worker | the sweep against a slow worker | completed ones can be downloaded, nothing hangs |
| Assets, document files | rows, files, references; versions | upload, reuse, adopt, point at, delete, clean, prune; save, edit, delete, restore | requests, prune command | removal between choosing an asset and saving it | what is pointed at is there, what a document had is in its history |
| Sessions (`auth/trust.py`, `session_history.py`) | session store, `UserPresenceSession` rows | sign in, evict, write presence, trust a device, close stale presence, sign another session out | requests of several browsers | two lists of sessions, neither complete | the last sign-in is the only session |
| Weather (`weather.py`, `relay.py`) | a reading and its marks in the cache | read, ask a worker, refresh | web, workers, the agent | marks that outlive their cause | the widget shows a fresh reading in the end |
| Model selection (`backup/config.py`) | the installed models and their references | exclude, keep, order | none | cycles, references discovered round by round | what is covered is closed and comes in order |

The rest (forms, tables, ribbon, discovery, translations, PDF, front end,
migrations, companion tools, registration) works within one request or one call and
keeps no protocol, or one too loose to state; `PROJECT.json` says so of each.

How the modelled components interact: the tick takes its pre-update backup by
calling `run_system_backup` in its own process (`UpdateService._create_backup`).
In `UpdateRuns` that is the step `BackUp` or `FailHandoff`; in `SystemBackups`
it is `CreateForUpdate` followed by an in-process call. `UpdateRuns` carries an
update out and leaves open what it is an update to, which `ReleaseState` says;
there Composer activates a release in one step. `SystemBackups` says who builds
a row and when, `BackupChains` what the archive of each row holds, and
`ArchivePipeline` how one is written. `AgentRequests` admits image updates and
backups whose life is in the first two. The state tick runs the steps of
`UpdateRuns`, `OpsRuns`, `AgentRequests` and `ControlLink` one after the other
and hands nothing from one to the next.

## UpdateRuns

A `DluxUpdateRun` and a `DluxImageUpdate` are both an operation, numbered in
creation order; the number is also its token. `ops` holds the rows, `token` is
`active_run_token`, `lock` the cache key of the tick, `tick[w]` where worker
`w`'s tick is and the locals it carries, `request`/`ack`, `checkReq`/`checkAck`,
`trigger`/`trigAck` and `deploy` the files, `busy` and `did` what Composer is
doing and did. A transaction that holds the state row's lock is one step; every
other read or write that another process may get between is its own step.

- `QueueRun`, `QueueImage`: the two admission transactions.
- `TickStart` ... `ReleaseLock`: `dlux_state_tick_task`, in the code's order:
  reconcile, claim, check hand-over or package hand-off, then the three polls.
- `Composer*`: external. Composer is seen only through the files the code reads
  and writes, and may fail, be late, or act on a request whose row already ended.
- Faults: `crash` (a worker is killed at any step), `long` (a backup or
  collectstatic outlives the 120 s lock), `late` (a time-out elapses), `tardy`
  (Composer acts on a row that already ended).

| run | bounds | shows |
| --- | --- | --- |
| `updateruns_faults` | 2 operations, 2 workers; crash, late, tardy | type, one tick, one operation, exact token, backup before intent, owned maintenance flag, no request overwritten, finished stays finished |
| `updateruns_composer` | 3 operations, 2 workers; crash | verdicts are Composer's, Composer has one thing to do, an awaited image update is masked, `OneAtATime` is implemented |
| `updateruns_live` | 2 operations, 1 worker; late | every operation ends |

Refinement (`KeepsThePromise`). `OneAtATime` has one operation under way, which
may be carried out once and ends with a truthful verdict. The mapping takes the
active row for the one under way and forgets ticks, files and Composer. It holds
with crashes; with "late" or "tardy" Composer acts for operations already ended.

Bounds. Two operations are the least with which one can be mistaken for the
other, and a third gives a stale ack or status a place between two others; two
workers are the least that overlap. Admission needs the earlier operation to
have ended, so more operations repeat the same pattern.

Fairness (`Fairness`). Beat fires the tick every five seconds and Celery runs
it: weak fairness of each worker's next step. The cache drops an expired key and
clocks advance. Nothing is assumed of Composer or of the web tier: the time-outs
must suffice. The liveness run excludes `crash`: a run claimed by a worker that
is then killed never ends (see Boundaries).

## ReleaseState

Versions are numbers in release order. `baked` is the image's release,
`releases` what is staged on the volume, `active` the pointer, `generation` its
counter, `procs` what each supervised process runs, `row` the `DluxUpdateState`
fields, `policy` and `request` the channel files, `report` Composer's report and
`copy` what a check has read of both. Operators skip, unskip and change channel,
Composer reports and activates, images are replaced. A choice in the panel is a
request of web in steps: `form` holds the row it has loaded, without a lock, and
it saves the columns that follow from that (`SaveChannel` and then `DropOffer`,
`SaveSkip`, `SaveUnskip`); a restart of web ends it where it is. A check reads,
then saves the whole row; the supervisor restarts processes whose generation is old;
`Reconcile` is the start-up command with its order of writes.
Mishaps: `wipe` (the volume is recreated), `lost` (a staged release
disappears), `damage` (the pointer becomes unreadable).

| run | bounds | shows |
| --- | --- | --- |
| `release` | 3 releases, the second a prerelease; 4 events; all mishaps | an offer is one the channel and the skips admit, unless it was saved while a choice was at work; what is recorded as previous is what a rollback offers, every process ends on the release the volume resolves to |

Bounds. Three releases are the least with one below, one between and one above
the running one; one of them a prerelease makes channels matter. Four events
let a release be activated, lost and replaced and the channel change in between.
One request of the panel at a time is enough for a check to come between its steps.
Fairness: the supervisor polls and beat runs the reconcile and the check; the
channel request is reconciled under strong fairness, since a newer request may
replace it.

## SystemBackups

`rows` are the `SystemBackup` rows: status, trigger, whether a passphrase is
required, `attempt_count`, `next_attempt_at` as none, "later" or "due", whether
the heartbeat is older than `stall_timeout_minutes` (`stale`), and the file,
named by the number of the attempt that wrote it. `calls` are queued Celery
messages and calls about to be made in process (the agent bridge's repeated call
for a pending row is one), as a set: a second equal message, redelivered or sent
again, is the fault "twice"; `runs[r]` is where runner `r` is
in `run_system_backup`; `stored` is the storage; `sweeps[p]` what a sweep found
stale and has not failed yet; `deleting` what a delete request has read.

- `CreateManual`, `CreateForUpdate`, `CreateScheduled`: who makes a row, with
  the checks each one makes.
- `Claim`, `Pass`: the conditional `pending -> running` update, and the return
  without it. `Report`, `Store`, `Finish`, `Conclude`: the build in the steps
  between which its row may change. `Raise`, `Discard`, `FailRun`: the two
  `except` clauses. `Requeue`, `EndCommand`: what the task and the command do next.
- `Fails` is `fail_system_backup`, whose save looks at nothing but the key.
- `SweepStart`, `SweepFail`, `DispatchDue`, `SweepEnd`: the reaper from the page
  and from beat. `Resume`, `Cancel`, `DeleteRead`, `DeleteRow`: the operator.
- `BecomeDue`, `BecomeStale`: time. A running build in its `building` step
  reports every few seconds and is never stale. Otherwise a row becomes stale
  when nothing attends to it, or, with `silence`, also while a runner stores its
  archive or a message waits. A due retry is started before it goes stale unless
  `late` (or an absent broker) lets it wait.

| run | bounds | shows |
| --- | --- | --- |
| `systembackups_retries` | 2 rows, 2 runners, 1 sweep, 2 attempts; crash, error, lost, twice | type, one builder per row, only dead attempts reaped, `BackupLifecycle` is implemented (attempts counted and bounded among the rest) |
| `systembackups_operator` | 1 row, 3 claims, 2 resumes; cancel, broker, twice | no archive outlives the row that does not want it, completed is final |
| `systembackups_stall` | 1 row, 3 claims, 1 resume; error, post, silence, delete | a displaced attempt keeps its hands off the archive of the one that completed; rows with a passphrase are never started unattended |
| `systembackups_live` | 1 row, 3 attempts, 4 claims; crash, error, post, delete | every backup ends |

Refinement (`FollowsTheLifecycle`). `BackupLifecycle` is one row's life without
actors: requested, attempted, retried while attempts are left, kept with its
archive or ended. The mapping takes status and attempt count from the row, and
calls a row archived when the file it names is stored. It does not hold with
"silence", nor with "cancel" and "error" together.

Bounds. Rows interact only through the two admission checks and a runner's or
sweep's time, so two rows suffice where both matter and one row elsewhere, which
leaves room for three attempts: one displaced, one failing, one completing. Two
runners are the least that can build the same row. `MaxClaims` bounds the
attempts ever made and is larger than `MaxAttempts` where Resume adds more, so
the retry limit is reached before the bound. `MaxResumes` bounds Resume.

Fairness. A live process goes on; a sweep is started again and again (beat while
scheduled backups are on, and the open page); time passes. Delivery is strongly
fair: a runner is free again and again, and the broker does deliver. The liveness
run has no "twice": a message redelivered for ever is not the code's doing.

## BackupChains

The data are rows by primary key, each with a version, which is also the value
of a unique column; an index is the data it describes, so that two have one
root exactly when they describe the same data. `rows` are the members, `files`
and `sidecars` what is stored, `uploads` copies that came back by hand, `build`
the index a running increment has read, `doomed` what a delete still has to
remove. Increments by hand and on schedule follow the head they find, refuse a
head whose schema or contents they cannot continue, and close a chain at
`max_chain_length`; retention rotates after a completion; a delete goes from
the last member; a Resume puts a failed row back, with the parent it was given
(`dispatch.py:109-145`), which `Start` then checks as `_chain_start` does. A restore resolves the chain from the files that are there and
applies member after member. Hazards: `crash`, `error`, `cut` (a delete stops
half-way), `upload`, and `overlap` (a backup, Resume or delete starts beside a
build).

| run | bounds | shows |
| --- | --- | --- |
| `chains` | 1 key, 3 members, 3 files, chains of 2, 1 kept; crash, error, cut | everything kept can be restored; a chain forks only where a row was resumed that had been requested before its rival completed; rotation leaves something that can be restored |
| `chains_anything` | 1 key, 2 members, 3 files, 1 migration; crash, cut, upload | a restore that is accepted brings back exactly the data its last member saw |
| `chains_unique` | 2 keys, 2 members, 2 files | **violated** (`KeptIsLoadable`): a complete chain that does not load |

Bounds. Three members are a chain of two and the next chain's head, with
rotation of the first; they are also a full backup, an increment that fails and
is resumed, and the one that continued their parent meanwhile. Exactness needs
one increment only, since members are applied one at a time, and treats the keys
apart (TLC passes with two keys as well, without the migration: both together
are too many states); what two keys do to each other is `chains_unique`.
The theorems have no bound.

Finding. `_apply_increment` saves changed rows before it deletes the ones that
are gone (`restore.py:182`); when another row has taken over a unique value,
the save raises and the whole restore is rolled back. `restore.py:198-199` says
the load order does not matter.

## The smaller components: Services

One run, `services`, checks the smaller components side by side. None reads
another's rows, so a behaviour exercises one of them, chosen at the start and
kept in `service`, in the shared variables `v1` ... `v10`. Every interleaving
inside a component is there; the states of two components do not multiply. Each
property names the component it is about.

| component | bounds | shows |
| --- | --- | --- |
| `OpsRuns` | 3 runs, 2 states of the deployment | `OperationsAreServedOnce`: one at a time reaches Composer, each keeps its own answer, a repair is of what a check showed; every run ends |
| `AgentRequests` | an image update and a backup, 3 sends | `OperationsAreServedOnce`: a repeated request finds its row; what became of an update is published |
| `ControlLink` | 3 requests, 1 lost connection | the newest pairing request is the one in force in the end; a lost connection is alerted |
| `OcrQueue` | 2 contents, 2 uploads, 2 workers, 1 retry, 1 mishap | `ReadingsStayApart`: a row's text is of its own content and, until a reading is asked for or a second message goes astray, one worker reads it; the document's file has been read in the end |
| `SettingsStore` | 2 processes, 3 requests | `SavesStick`: requests that do not overlap find what was saved in row and cache, an import included, and its revert as far as a redacted export restores; the cache holds the row in the end |
| `SettingsForms` | 2 values, any number of saves | `SavesStick`: after every save both forms say what was asked for |
| `ReportBackups` | 2 backups, 1 kept | `ReportsAreKept`: a completed one keeps its archive until a newer one replaces it; every one ends and its drawer item can be dismissed |
| `AssetLibrary` | 1 content, 2 assets | `ReferencedIsKept`: an asset that is pointed at is there, with its file |
| `DocumentFiles` | 2 forms, 3 files, 4 saves, 2 deletions | `HistoryIsKept`: a file the document had is in its history, deleted and restored with it |
| `ArchivePipeline` | 7 units in frames of 2, 2 reports | `ArchivesAreWhole`: a finished archive is whole, a cut one or a wrong key does not open, a cancelled build does not finish; all threads end |
| `ModelSelection` | every graph of 3 models | `SelectionIsComplete`: nothing that is kept refers to what is left out, and what is referred to comes first, cycles apart |
| `Sessions` | 2 sign-ins, either session engine | `NewestLoginWins`: the last sign-in is the only session, unless sign-ins overlap or a worker was killed over it |
| `WeatherReadings` | 2 visits, 1 worker, 1 mishap | once nothing goes wrong any more the widget shows a fresh reading |

`ServicesTypeOK` is the type invariant of the component that moves,
`ServicesSettle` collects what must eventually hold.

Bounds (`MCServices.cfg`). Each is the least with which two requests, workers, files or rows can be
confused, plus one where a third can come between. Contents of read documents
are alike, so the one of the first upload is called 1 (`FirstContentIsOne`, an action
constraint of `MCServices`). Seven units in frames of two give
full frames, a part of one at the end, and a queue that fills. Three models give
a cycle with one off it, and a chain of two rounds.

Fairness. Ticks, workers, threads and requests go on and time passes (weak, one
component moves at a time); scans and visits come again and again; a tick gets
through between one killed worker and the next, and a request queues a refresh
between one expiry of a mark and the next (strong: a mark lasts 30 or 60 s, what
happens between two of its uses takes seconds). Composer and the users owe
nothing, nor does the agent, except that it answers a weather call that does not
fail; failures are bounded.

## Boundaries

Each passing run leaves out what the code does not tolerate; TLC refutes the
property when the fault is put in. Differences from a document or comment are
quoted; the rest are limits of the guarantee that a reader should know.

Updater:

- `OneTick` with "long": the lock lasts 120 s (`tasks.py:90-92`) and one tick
  runs backups and collectstatic to their end (`tasks.py:98`), which nothing in
  the code bounds. No property covers what two overlapping ticks do: `OneTick`
  shows that kills, expiry and restarts alone do not make two.
- Two active operations: `tick` saves the whole state row it read before
  (`service.py:1575`) and so may clear the token of an operation admitted in
  between; `docs/inline-updater.md:224` says one at a time. Needs "long".
- A run claimed by a worker that is then killed stays claimed
  (`service.py:1336`, against `:1238` and `docs/inline-updater.md:278`).
- The 30 minutes of a package hand-off run from the claim, backup included
  (`service.py:1858`), not from the hand-off as `docs/inline-updater.md:277` has
  it: with "late" a long backup leaves Composer less than that.
- `VerdictIsComposers` with "late" and "tardy": an image update's status carries
  no request id (`service.py:2060`), so a `ready` that an earlier, timed out
  update earns late completes a later one.
- A retry armed for a failed pre-update backup runs although the update was given
  up (`service.py:1691`).
- `OfferIsAdmitted` exempts an offer that was saved while a choice was at work
  (`missed`). A channel change or a skip loads the row without a lock
  (`service.py:132-139`, `730-764`) and judges the offer it has loaded
  (`service.py:146-169`); when a check saves one in between (`service.py:1575`),
  a prerelease stays on offer on the stable channel, or a skipped release on
  offer, until the next check. `service.py:136-138` says "Drop it rather than let
  an opt-out leave a prerelease sitting in the Apply button". So does one when web
  is killed between the two saves of a channel change. The tick's own change of
  channel saves once, from a row it reads in the same step.
- `ReleaseState`: a check's whole-row save overwrites a skip or a channel chosen
  meanwhile until the next reconcile (`service.py:730-735`,
  `docs/inline-updater.md:615`); the generation may go back after a wipe and a
  process that polls slowly may miss that (the model polls in between); a pending
  command-line channel request overrides a newer choice in the panel; web
  restarted alone after a release was lost runs the baked one while Celery
  still names the lost one; a recorded release that is staged under an unreadable
  pointer is only marked degraded (`service.py:965-1013`, `1217`).
- The agent's result of a backup is written once (`agent_bridge.py:129-133`), and
  a tick killed between the alert of a lost connection and its marker alerts twice.

Backups:

- `OneBuilderPerRow` with "cancel" and one Resume: Resume (`dispatch.py:123`)
  puts a cancelled row back to pending while the runner that has not noticed the
  cancel still builds it (`create.py:349-350`). Also with two sweepers and
  "crash": a sweep fails a row it read as stale (`dispatch.py:61`, `88-90`)
  after the other re-armed it and a new runner claimed it.
- `ReapsOnlyTheDead` with "silence": a runner reports nothing while it stores a
  large archive (`create.py:416`); `docs/backups.md:241-242` takes silence for
  death. `CompletedIsFinal`: a stale sweep may fail a row that has just
  completed (`dispatch.py:46`), and its first archive then stays behind; so it
  does when a resumed build completes between the two steps of a delete.
- A due retry is re-armed instead of started when the sweep comes late
  (`dispatch.py:50`, `docs/backups.md:232`, `:248`).
- A cancel is overwritten by the failure path (`retry.py:67`,
  `docs/backups.md:269-270`).
- A runner killed between discarding the archive of a row it had completed and
  failing that row leaves a completed row without archive (`create.py:473`).
- One backup at a time (`docs/backups.md:92`) is checked where the create view
  makes a row; the updater's own backup (`service.py:1685`) makes no check.
- After a Resume with another passphrase the previous message, with the old one,
  may be the one that starts the build (`tasks.py:39`).
- Chains fork without any overlap (`LinearWhenApart` says where): increment m1 on
  full h fails; m2 on h completes at place 1; a Resume of m1
  (`dispatch.py:109-145`) passes `_chain_start` (`create.py:309-327`), which does
  not ask whether h has been continued, and completes at place 1 as well.
  `docs/backups.md:194-195`: "Earlier members of a chain cannot be picked, so a
  chain stays linear." Both members can be restored (`KeptIsRestorable`).
- A deletion that stops between an archive and its sidecar leaves a completed
  row that increments still continue, though none of them can be restored
  (`_chain_start` looks for the sidecar only); `KeptIsRestorable` exempts it.
- An increment built while its parent is rotated or deleted completes without a
  parent ("overlap", `create.py:465`).
- A `SystemRestore` row whose worker dies stays running (`restore.py:344`).
- Progress reports: the reporting thread keeps an error nobody reads; cuts inside
  a frame's length prefix are cuts of that frame here; a container cut exactly
  between frames is refused only because the ZIP has no end record.
- A model excluded by name may be referred to by one that is kept; rows of
  excluded models that refer to users replaced by a full restore are reconciled
  only for portable restores.

Settings:

- A revert does not undo its import entirely. It feeds a redacted export to the
  importer, which keeps the current mail password
  (`utils/import_export.py:399-413`; `docs/system-configuration.md:397-399` says
  so) and weather key (`391-398`), drops the mail verification, and skips an
  empty logo, favicon or login image (`375-376`), so that an imported image stays
  where there was none. `models/settings.py:388-395` calls revert "a real action
  rather than a promise — the payload is a full `export_system_settings_payload()`
  result", and the notice says "Configuration restored from the snapshot."
  `SavesStick` states what is restored (`Reverted`). Passwords are kept in the
  database there (`encrypted_db`); with another storage none is in the settings.
- `save(update_fields=...)` writes some columns and caches the whole, possibly
  stale, instance, up to 24 h (`base.py:258`); a later whole-row save reverts
  another's change (`config.py:537`, the ScanLink switch); an import refreshes
  the cache before it commits; a test mail may mark an address verified that
  was changed meanwhile; killed between `get_or_create` and the seeding save
  the row never gets `DLUX_CONFIG` (`base.py:133-251`).
- Two forms (`SettingsForms` has the documented writers): a partial save of
  `titlebar_config` while search is off forgets the display "always"; a row from
  before migration 0016 shows older values until the first unrelated save
  replaces them by defaults (`models/settings.py:337-341`,
  `docs/deprecation-countdown.md:9`, `docs/system-configuration.md:91`); what a
  rolled-back release wrote to the older keys is lost on the next save, as is an
  older density changed together with columns.

Other services:

- OCR: a skipped row is not read again by itself; killed between commit and
  `on_commit` nothing is scheduled until the scan; invalidation may take the
  current mark from a newer manual row; after a worker has given a row up that another
  reads, Run OCR or a third message makes two readers (`tasks.py:158-`, `give_up` in `ocr/service.py`; two messages
  astray and two retries are enough, which the run's one mishap does not reach: the
  proof found it).
- Reports: the sweep lists and then updates without looking at the status
  (`views/reports.py:259-271`), by `created_at`; progress re-locks the drawer
  item of a swept row; a worker that was swept leaves an archive no row names; a
  dismissed item does not come back.
- Assets: `dlux_prune_assets` removes the file before the row, which PROTECT may
  refuse, so that a reference saved meanwhile points at an asset without its file
  (`struck`, which `ReferencedIsKept` exempts); its docstring says "referenced
  assets are never touched" (`dlux_prune_assets.py:10-13`); the 24 h grace does not protect a reused upload; equal simultaneous
  uploads make two rows; relations with `related_name='+'` are not seen; an
  adoption that overlaps a deletion, or a kill between row and file, leaves one
  without the other.
- Documents: the modal form saves the whole row it read, over a newer file or a
  deletion; deleting twice stamps again, so that a restore misses what the first
  deletion took; killed between the row and its cascade they disagree.
- Ops runs and the bridge rely on Composer acknowledging by token.
- Sessions (`NewestLoginWins` excludes these by `disturbed` and `missed`;
  `docs/reference.md:449` and `:297` make no exception): two sign-ins without a
  code that overlap both stay, because a session has no user in the store until
  its response ends (`views/users.py:143-147`); two with a code evict each other;
  with a session engine in the cache a session that has made no request since its
  sign-in has no presence row and is not found (`auth/trust.py:171-183`); a
  profile page that overlaps a sign-in may close the presence row of a session
  whose user is not stored yet. A request under way when its session is evicted
  reopens its presence row, until the profile page closes it.

## What is proved

All proofs are checked by TLAPS 1.4.5 without assumptions other than the named
`ASSUME` on the constants and the hypotheses stated in the theorems. Each
hypothesis on `Faults` or `Hazards` is what the run of that property assumes or
weaker, and Boundaries says what happens without it.

`UpdateRunsProofs`, for any number of operations and workers:

- `TypeCorrect`, under all faults.
- `OperationsDoNotOverlap`, `TokenIsExact`, `MaintenanceHasAnOwner`,
  `BackupComesFirst`, each under `"long" \notin Faults`: no single step outlives
  the tick lock. With "long" two ticks run and a stale save admits a second
  operation (see Boundaries), so the hypothesis is needed. That ticks then do
  not overlap is part of the invariant and stated as no theorem: the hypothesis
  is all that it says.
  The invariant is `IInv`: a worker that is inside a tick owns the lock
  (`LockHeld`), what each step's locals name is the row in the status that step
  expects (`Holds`), and the rows agree with token, flag and files (`RowInv`).
  Neither half is inductive alone: `OneOperation` needs that the save of a stale
  token cannot happen, which needs the snapshot to equal the token, which needs
  that only one tick runs.
- `VerdictsAreFinal` and `RequestsAreNotOverwritten`, under the same hypothesis.
  `StatusInv` says that a row is active exactly while its status says so, so that
  no step finds an ended row to change; `HandoffInv` that Composer works on no
  change of the application's but the one whose request is unacknowledged, and
  that a tick about to write a request has seen none pending.
- `HandoffsAreMasked`, when Composer leaves alone what has ended as well.
  `MaskInv` follows the flag through the steps between its rise and the trigger,
  and says which reconciles may lower it.
- `VerdictsAreComposers`, `ComposerIsAlone` and the refinement
  `ImplementsThePromise`, when workers may be killed but nothing times out.
  `ComposerInv` ties what Composer does, its acks and its status to the one
  operation that waits for them; each step then is a step of `OneAtATime` on the
  active row, or none.

`SystemBackupsProofs`, for any number of rows, runners, sweepers and attempts:

- `TypeCorrect` and `SecretsStayAttended`, under all faults. The invariant
  `SecretInv` says that the passphrase travels with every call and run exactly
  when the row requires one, and that no call or run is for an unused row.
- `ArchivesSurvive`: a completed row has its archive, unless its own run is
  about to fail it. It assumes that `"post"` and `"crash"` do not occur together:
  a runner killed while it undoes a backup it had completed leaves a completed
  row without its file. The invariant `ArchiveInv` is about attempt numbers: two
  live runs of one row have different ones, none exceeds `attempt_count`, only
  the run that finishes writes its own into the row, and a run discards only its
  own. So a displaced attempt, however late, cannot touch the archive that
  counts. It holds with two builders on one row, which happens (see Boundaries).
- Under `Timely` (no "silence", "late" or "broker", one sweep at a time, no
  Resume): `OneBuilder`, `SweepsSpareTheLiving`, `CompletedStaysCompleted`
  (without "post"), `FailuresLeaveNothing` (without "post", "crash" and "delete":
  `SettledInv` says that an archive is a completed row's file or held by the run
  that has still to settle it, however attempts fail) and the refinement
  `ImplementsTheLifecycle` (without "post" and "cancel"). `OwnerInv` says who attends to each row: a run that builds it,
  a call, a schedule, or nobody, and that what a sweep holds was rightly found
  stale; one builder is inductive only with all of it. `EndInv` adds, row by row,
  what the runs, sweeps and deletions that hold it may assume of its status,
  attempt count and archive.
- Under `Smooth` (builds neither fail nor are killed, nothing is lost, silent or
  deleted; cancels, Resumes, repeated messages and an absent broker in any
  number): `NothingLingers` and `CompletedSurvivesTheOperator`. `SmoothInv` says
  that every stored archive is a completed row's file or in the hands of the run
  that has still to settle it, and that a pending row has its call and a running
  one its run. TLC checks this with two Resumes; the theorem has no bound.
- These hypotheses are needed: TLC refutes the properties without them. With an
  absent broker a due retry that nobody could start goes stale, is dispatched
  after all, and a sweep that had read it fails the live run: two builders. With
  errors as well as cancel and Resume a failing run writes over the row that its
  successor has completed. Killed runners leave their archives, and a delete that
  read a cancelled row leaves the archive of the retry its failing run had armed.

`BackupChainsProofs`, for any keys, values, members, files and policies:

- `TypeCorrect` and `RestoresAreExact`, under all hazards: a restore of any
  archive that resolves gives the data its index describes. `ArchiveInv` says
  that each stored archive turns the data of its parent's root into its own
  (`Exact`), whoever left it there. The chain may have any length: the prover has
  no induction over data, so the proof takes the least member of a chain that
  would load wrongly, and the member before it refutes it.
- Under `Orderly` (no "overlap"; failures, kills, Resumes, uploads and deletions
  given up half-way may happen): `ForksAreResumed`, `KeptStaysRestorable`,
  `RetentionSparesOne`. `OrderInv` says that one row at a time is asked for, built
  or pruned after (`AloneInv`), that whatever follows a member that is to go goes
  as well, and the row pruned after is spared (`DoomInv`), that files are distinct,
  each completed member has one at the place before it, and archives say what their
  rows say (`ChainInv`), and that the index the runner of an increment has read is
  still its parent's (`ParentInv`). For forks the order of completion counts. A
  parent, when its row was requested, was the last of its chain to complete among
  those after it (`Follows`, kept for failed rows, which a Resume may run), and what
  had completed by then can only go (`BornInv`). So of two members at one place
  which are apart, what the later one continues completed after the earlier one as
  well (`Behind`): a fork one place down, and so on without end, were all apart.
  With "overlap" an increment completes without its parent.

`ReleaseStateProofs`, for any number of releases and events, any prereleases, and
all mishaps: `TypeCorrect`; `OffersAreAdmitted`, for which `FormAgrees` says that
a choice at work has loaded the offer that is there, unless a check has saved one
over it, so that the choice's judgement is of that offer; and
`RollbacksAreWhatIsOffered`, from `SettledInv`: the row is never reconciled with a
generation still to come, what a check has read is the row as it was, and a row
reconciled with the present generation names the release the pointer does.

`OperationsProofs`, for any number of runs, states and operations:
`OpsRunsAreServed` and `AdmittedStays`. `OpsInv`: rows fill up and are served in
order, so that whatever is below a row that left the queue, or below the run a
request names, has ended (`OrderInv`, `Grounded`). That gives one request at a time although two
processes may queue at once, and keeps the check an apply rests on the last one
before it. `AgentInv` keeps a request in the spool until its answer is written.
`LinkIsTyped` and `WeatherIsTyped` are the type invariants of pairing and weather.

`OperationsProofs`, for any number of models with any references among them:
`SelectionCompletes`. `SelectionInv`: what has been visited and what is being
visited are kept, apart, and in each list once; each model being visited is
referred to by the one before it (`Linked`); and what a finished model refers to is
finished before it or leads back to it (`Accounted`). The last needs that
everything on the path leads to its end. What is kept is what the backup's models
reach: no more than that is ever taken back, and when a round finds nothing the
kept models are closed under reference, in at most as many rounds as there are
models (`GrowthExists`, `ReachedIs`).

`OperationsProofs`, for an archive and frames of any size: `ArchivesAreComplete`.
`PipelineCore` says what each thread knows: the stop is the last thing in the queue
and the encrypting thread ends with it (`StopIsLast`), frames are not empty and no
more than what was written (`FramesHoldUnits`), the last report is the seal's and a
cancel before it is heard unless that report fails (`SealIsLast`). `InSequence`
says that, while nothing fails, the frames appended, being encrypted, queued and
offered are consecutive pieces of the ZIP, each starting where the one before it
ends, and the buffer is the rest. It is the cuts between them, a function of the
frames' numbers, that each step keeps or extends. When the threads have joined,
`PlainIsReadable`, `EncryptedIsReadable` and `BeginningIsRefused` read the file
back frame by frame: the whole of it gives the ZIP, any beginning of it or any
other key a refusal (or, unencrypted, the whole).

The recursive functions of these two models (`Reached`, the copying of frames and
their decryption) are proved about in first-order steps: such a function exists
for every length (`GrowthExists`, `CopyingExists`, `DecipheringExists`), and what is
false of no first number is false of none (`NoneIsFirst`, `NoneIsLast`, from the
well-foundedness of the numbers).

`FilesProofs`, for any contents, workers, saves and retries:
`ReadingsAreApart`. `QueueInv` counts, for each row, the messages that wait and
the readers against what was lost or sent twice; one reader per row is not
inductive without that count.

`FilesProofs`, for any contents and any number of assets:
`ReferencesAreKept`. `LibraryInv` says what each form and removal may count on: a
chosen asset may go, and is looked up again when it is saved; a removal past its
check has its row gone; and the file it is about to delete is that of no row that
is there, unless it was adopted meanwhile.

`FilesProofs`, for any forms, saves, files and clock: `DocumentsAreKept`. `InHistory`
says where each file the document had is, open forms' included; `TimesHavePassed`
that no deletion's mark is of a time still to come, without which a file deleted on
its own could be taken for one hidden with the document, and `HiddenTogether` that
what is hidden has the document's mark or was deleted alone.

`FilesProofs`, for any number of report backups and any retention: `BackupsAreKept`.
A row's message, worker and request say which status it may have (`Follows`); what
a page is about to fail is old (`ListedAreOld`); what a worker still has to prune
has been replaced by as many newer ones as are kept, or failed long ago
(`DoomedAreReplaced`), and stays so, whatever other workers prune meanwhile.

`SessionsProofs`, for any number of sign-ins and either engine:
`LastSignInIsAlone`. Until something disturbs the sign-ins, one session at a time
evicts (`AloneInv`); the presence of a session that is in or signing in is open,
so that an eviction finds it (`FreshInv`, which needs that stale pages close
nobody's who lives, `ClosedInv`, and that what is marked as ended is deleted,
`RequestInv`); and what remains in the store is on the evictor's list, missed, or
the winner (`SweptInv`).

`SessionsProofs`, for any number of web processes and requests: `StoreSavesStick`.
`AllInStep` says that both home-page settings agree wherever a save or a load has
been: in the row, the cache, the snapshots and what a request holds. `OneAtATime`,
until two requests overlap: what the request in progress holds is the row, or
what it will be (`Serves`), and each snapshot is the export of what its import
replaced, so that a revert of the row gives what `Reverted` asks for.

`SessionsProofs`, for any values of the other settings: `BothFormsAgree`.
`FormsInv` adds to the property that what was asked of a search that is off says
nothing of its display.

`ServicesProofs`: what these three modules prove of single components are
properties of `Services`, under `ServicesAssumption` (ids and contents differ from
what stands for none, bounds are numbers, an archive and its frames hold something):
each of its invariants is a theorem. The component chosen at the start is the only
one that moves (`OneServiceMoves`), by its own next-state relation, and both
instances of its module say the same (`OpsAlike` ... `WeatherAlike`).

Only model-checked: liveness (`EveryOperationEnds`, `EveryBackupEnds`, `Converges`,
`ServicesSettle`) and `ENABLED`, which are outside the prover's reach, and
`KeptIsLoadable`, which is false. Every other invariant and action property of a run
is a theorem, under the hypotheses named above.

## Abstractions

- Clocks are replaced by elapsed time-outs (`age`, `late`, `old`), by "later" and
  "due", and by `stale`; an action that lets time pass is guarded by what the
  code writes in the meantime.
- A report, an archive, a manifest, a file and a target version are reduced to
  what the conditions test: an outcome, an attempt number, a number of a release,
  a content.
- Whether an update is on offer is left open in `UpdateRuns`; schedule intervals
  and `auto_retry_enabled = False` (which only removes retries) are left open in
  `SystemBackups`.
- Wording, logging, progress percentages and translations are left out.
- Ciphers, the ZIP format, Django's ORM and Celery's delivery are external.
- `wanted`, `tested`, `alone`, `replaced`, `struck` and the like are kept for the
  properties and read by no action of the code.

## Not modelled

- Most of the lines of this repository are forms, tables, templates' context,
  translations (5,400 lines of strings), configuration schema and normalisers,
  PDF conversion and generated migrations. They transform one request's input
  and keep no state; a state machine of them would restate them line by line.
  The map therefore covers a small part of the lines.
- Normalisers of settings with one form are functions whose round trip the tests
  check; two known limits are in `PROJECT.json`'s notes.
- The login throttle: counters in the cache are read and written back without a
  lock, so a limit is approximate and no exact property holds. Two-factor marks
  and reset codes are single-request guards. Approval, rejection and verification
  of a registration overlap without a lock or a transaction, so none holds there.
- Mail relay: what is not forwarding is the arithmetic of socket time-outs. Its
  time-out is per socket operation, so that two slow steps make the application
  give up first, although `utils/mail.py:112-131` says the relay always answers first.
- Whatever `PROJECT.json` gives as left out of a component that is `partly`
  modelled.

## Plan

The `SystemRestore` row and the steps after the load; the
composition of `UpdateRuns` and `SystemBackups` at `_create_backup`.
