# AutoPkg Runner in TLA+

Specifications of the concurrent core of AutoPkg Runner, checked with TLC on
small instances and, where stated, proved with TLAPS for every instance. Paths
are relative to the repository.

AutoPkg Runner is a Django application served by one or more gunicorn worker
processes (`run.py` starts two by default) over one SQLite database. A trigger
(browser, API or scheduler) creates a run and a background thread in the worker
that served it; the thread executes a pipeline of stages, of which the central
one starts `autopkg` as a child process; viewers follow the run through event
streams. There is no job queue and there are no transactions around requests
(`ATOMIC_REQUESTS` is off): the database rows, the memory of each worker and the
mount point of the Munki repository are related only by the order in which the
code touches them. That is what the models are about.

## Inventory

| Component | State | Operations | Hard behaviour | What makes it correct |
|---|---|---|---|---|
| **Run lifecycle** `webapp/runner.py`, `webapp/views/runs.py`, `webapp/apps.py` | rows `Run`, `Task`, `StageExecution`; per worker `_cancel_events`, `_active_procs` | `trigger_manual_run`, `_execute_run`, `cancel_run`, `RunCancelView`, `RunDeleteView`, `_mark_interrupted_runs` | check-then-create; every query is a step of its own; workers share the rows and not the registry; crashes between any two steps | no active row without somebody to settle it; run, task and stages agree; a cancelled run stops and stays cancelled |
| **Orchestrator and stages** `libs/orchestrator.py`, `libs/stage.py`, `stages/*`, `libs/run_command.py` | list of completed stages, cancel flag, result | `execute`, `Stage.__call__`, seven stages | failure anywhere, cancellation between stages, clean-up in reverse order | the result says whether every stage was completed; clean-up undoes what was done and nothing else |
| **Mount of the repository** `stages/mount_repo.py`, `libs/hosts.py` | mount point directory, what is mounted on it | `mount`, `unmount`, `is_mount_point_available`, checks | shared by all pipelines of all workers; survives crashes | one owner at a time; everybody works on and unmounts its own share |
| **Live view** `webapp/run_broadcaster.py`, `run_stream` and `run_status` in `webapp/views/runs.py`, `templates/webapp/runs/detail.html` | per worker and run: cached events and a polling thread; per viewer: cursor, rows on the page | `_run`, `events_since`, `_BroadcasterManager.get`, `startSSE`, `_fetchRunStatus` | rows written around the end of the run; polls that fail; reconnects to another worker or a new broadcaster | no gaps, complete when told so, the end is not missed |
| **Scheduler** `webapp/scheduler.py`, `webapp/views/schedule.py`, `autopkgrunner/gunicorn_conf.py` | `Schedule` row, `scheduler.lock`, per worker an APScheduler with a job | `acquire_scheduler_lock`, `start_scheduler`, `reschedule_job`, `ScheduleView.post` | election among workers; saves served by any worker, interleaved | an enabled schedule has a job; the holder of the lock has the stored one, and nobody else has any |
| **Notifications** `stages/notify.py`, `notifiers/webpush.py`, `webapp/views/notifications.py`, `webapp/encryption.py` | `Notifier`, `WebPushSubscription` rows, encrypted passwords, `SECRET_KEY` | the notify stage; create, edit, toggle, delete, subscribe, unsubscribe | one of several failing, inside and outside a `try`; subscriptions deleted under the loop; a form saved over a row that changed or is gone | nobody is left out where the code guards against it; what is deleted stays deleted; a password survives a save |
| **API and login authentication** `api/authentication.py`, `api/views/auth.py`, `api/challenge_auth.py`, `webapp/auth_backends.py` | `AuthChallenge`, `UsedNonce`, `APIToken` rows | challenge, token, session, signed request, pruning | checks and updates in separate queries; clock windows | a signed request counts once, a challenge is redeemed once |
| **Recipe list** `webapp/views/recipes.py`, `recipe_list.html` | per worker `_RECIPES_CACHE`, `_RECIPES_BUILDING`; repositories, overrides and the run list on disk | repository and override pages, `_start_cache_build`, `_invalidate_recipe_cache`, `RecipeDataView`, save | a change during a build; a stamp that lies; other workers change the disk | one build; a fresh cache matches the disk; a save applies the clicks |
| **Recipe index** `webapp/recipe_index.py`, `webapp/views/recipe_index.py`, `webapp/apps.py` | per worker `_cache`; warm-up lock and sentinel file | `ensure_fresh`, `_fetch`, boot, hourly refresh, search page | many callers, failing fetches, crashes | one fetch; the index never goes back; a search is answered |
| **Users and permissions** `webapp/views/users.py`, `webapp/perms.py`, `setup` | `User`, `UserPermission` rows | create, update, delete, permissions | counting and removing in separate queries | an administrator stays; what is deleted stays deleted |
| **Daemon installation** `service_daemon.py`, `purge.py` | plist, launchd's registrations, stray servers, artefacts | `--install`, `--remove`, `purge`, as root or through a dialog | commands killed or failing half-way, failures that are ignored; legacy registrations | reports are true but for those; a plist is not taken from under its service |
| Icon cache and proxy `webapp/views/runs.py:30-81,373-410` | icon map with a time to live, semaphore | fetch, proxy | unsynchronised threads, limit of three | slots are given back |
| Share links `webapp/views/share.py` | `RunShareToken` rows | create, open, expire | - | an expired link shows nothing |
| Settings `libs/config.py`, `webapp/views/config.py` | `Setting` rows | read, save, snapshot | a save while a pipeline starts | - |
| Service discovery, set-up, other management commands, middleware, file browser, translations, PWA | little or none | | I/O and presentation | - |

How they interact: the scheduler and the views call `trigger_manual_run`; the run
thread drives the orchestrator, which calls back into the run lifecycle for each
stage (`stage_callback`) and for the `autopkg` child (`register_active_proc`);
the cancel request reaches the orchestrator through an event shared in memory;
broadcasters see the run only through the database; pipelines see each other only
through the mount point. The repository stage of the pipeline and the other
workers change the recipes on disk behind the back of a worker's recipe list; the
scheduler of one worker refreshes that worker's index only; the notify stage reads
the subscriptions that the requests of all workers change.

## Modules

| Module | Models | Read it with |
|---|---|---|
| `RunLifecycle` | trigger, run thread, cancel, delete, boot, crash | `runner.py`, `views/runs.py:195-240`, `apps.py:134-163` |
| `RunRecord` | abstract: how the rows of runs and tasks go through their statuses | |
| `MCRunLifecycle` | symmetry of `RunLifecycle` for TLC | |
| `RunLifecycleProofs` | theorems of `RunLifecycle`, the refinement of `RunRecord` | |
| `Pipeline` | `Orchestrator.execute` and the mount point, for several pipelines | `orchestrator.py`, `mount_repo.py`, `hosts.py` |
| `PipelineProofs` | its theorems | |
| `MountLock` | abstract: a lock that a dead holder leaves stuck | |
| `MCPipeline` | symmetry of `Pipeline` for TLC | |
| `RunStream` | broadcaster, stream and page | `run_broadcaster.py`, `detail.html` |
| `RunView` | abstract: what a page promises to its viewer | |
| `Scheduler` | lock, schedulers and saves | `scheduler.py`, `views/schedule.py` |
| `RecipeCache`, `RecipeCacheProofs` | the recipe list of one worker, the disk, the page | `views/recipes.py`, `recipe_list.html` |
| `RecipeIndex`, `RecipeIndexProofs` | the index of every worker, boot, the search page | `recipe_index.py`, `apps.py:105-130`, `recipe_index.html` |
| `ApiAuth`, `ApiAuthProofs` | signed requests, nonces, challenges, tokens | `api/authentication.py`, `api/views/auth.py`, `auth_backends.py` |
| `Accounts`, `AccountsProofs` | user pages and permissions | `views/users.py`, `perms.py` |
| `Notifications` | notify stage, notifiers, subscriptions, passwords | `stages/notify.py`, `notifiers/webpush.py`, `views/notifications.py`, `encryption.py` |
| `Installation` | installation, removal and purge of the daemon | `service_daemon.py`, `purge.py` |
| `FeedbackProofs` | theorems of `Notifications` and `RunStream`, the refinement of `RunView` | |
| `ServiceProofs` | theorems of `Installation` and `Scheduler` | |
| `MCRecipeCache`, `MCApiAuth`, `MCAccounts`, `MCNotifications`, `MCInstallation` | the data and symmetries of the instances | |

The models compose along abstractions. `RunLifecycle` treats the pipeline as
numbered stages that succeed or raise; `Pipeline` details them. `Pipeline` starts
any number of pipelines at once, since `RunLifecycle` shows that nothing keeps
them apart. `RunStream` treats the run as rows that appear and a status that
becomes terminal, with late rows, since `RunLifecycle` shows that a cancelled run
goes on writing. `Scheduler` ends where a job fires, which is `TriggerCheck` of
`RunLifecycle`. `Notifications` details the last stage of `Pipeline`, as `RecipeCache`
details what the repository pages do to the list from which a run's recipes are
chosen. `ApiAuth` and `Accounts` share the rows of users: the first models what
becomes of tokens and challenges when an account changes, the second who may
change one.

### RunLifecycle

`run`, `task` and `stage` are the rows. `pc[r]` is the next step of the trigger of
run `r`, and once the thread is started of its thread: they never overlap. One
action is one query, one access to the registry under `_cancel_lock`, or one
action on the child process. `registered`, `procReg` are the registry of the
worker `home[r]`; `signal[r]` is the event, and remembers in which stage the
thread was when it was set. A cancel request holds what it has read so far
(`cancel[c].event`, `.proc`): that is the window between `cancel_run`'s lock and
its `set` and `terminate`. `Crash` removes a worker with all of its threads,
requests and memory; the child process stays. `RunQueryFails` and
`OtherQueryFails` let each query raise, with the error path of the code around it.

A deletion, by `RunDeleteView` or by the database clean-up, is two steps, since
Django reads the rows that match the filter (`CollectRun`) and then deletes them by
key (`DeleteRun`), without looking at their status again; `deleting[r]` is the worker
where the request has collected run `r`. The run goes
with the rows that cascade, in one transaction of Django's; that the clean-up has deleted
its log rows and stages before is left out.

`RunRecord` is what is left of this for those who poll the two rows over the API. The
mapping reduces `pc[r]` to a phase (`PhaseOf`: waiting, executing, reported, over) and
the outcome to what the thread has reported (`ResultOf`, set by `FinalRun`). A crash, a
failed query and a trigger whose run is gone are `Die`, the two repairs at boot are
`Repair`, a collected run is `doomed`, and everything that happens between `StartRun`
and `FinalRun` except `StartTask` is a stutter. The promise is about what cannot happen:
an outcome reported twice, a run's success taken back by anything but a cancellation, a
task whose outcome is not that of its run's executor, a row that returns after it was
deleted - the last although a cancel request saves what it read before, because
`save(update_fields=...)` does not insert. Of deletions it promises less than
`views/runs.py:199`: one is granted (`Grant`) only to a settled run, and carried out
(`Delete`) whatever the run's status is by then.

### Pipeline and MountLock

A step is one system call or command on the mount point. `mounts` is the stack of
what is mounted there, by the pipeline that mounted it; `completed` the stages
whose clean-up is owed. The refinement mapping sends a pipeline to the holders of
`MountLock` from its successful `mkdir` to its `rmdir` (`Holds`), and `stuck` is a
directory that nobody holds. `ImplementsLock` says that every step is `Acquire`,
`Release`, `Abandon`, `Clear` or a stutter of that lock: looking for the directory
first is not what excludes others, `os.mkdir` is.

### RunStream

Log rows are 1, 2, ..., stage changes too (their sum over all stages). Each query
of a poll, and each extension of `_events`, is a step. A viewer is `away`,
`loading` (its view has read the run, not yet the log rows), `open`, `broken`, and
finally `complete` (told so by the stream), `closed` (told so by `run_status`, or
opened when the run was over) or `disconnected`. `shown` counts how often each row
is on the page.

`RunView` knows no workers, broadcasters or events: pages are away, following, complete,
over or disconnected, and the rows of each are a growing prefix of what the run has
written. The mapping (`PageOf`, `OnPage`) takes `loading`, `open` and `broken` for
following, so that polls, frames, reconnections and rows sent twice are stutters, and
every message is one `Show` or the end. `Show` leaves the stage open: a new broadcaster
sends the stage changes again, so that a page may for a while show an older one.

### Scheduler

Requests and booting workers are the threads that execute `reschedule_job`.
`get_scheduler` has no lock, so that a worker can have several schedulers, of which all
but the latest can no longer be reached; `mine` is the one a thread got. The history
variables `saver`, `overlap` and `strayed` say who served the last save, whether two
requests have been in `reschedule_job` of a worker at once, and whether a save was
served by a worker without the lock.

### RecipeCache

One worker, its request threads, the build thread that each of them may start, and
one page. `data`, `ts` and `building` are the module's variables, each access a
step; the lock makes the second check and the flag one step. `ts` keeps what the
code compares: `0.0`, recent or old; `upLong` says whether the machine is up for
longer than the time to live, since `0.0` is compared with `time.monotonic()`. A
build scans paths (`found`), reads the files that still exist, stores the data,
then the stamp. Overrides are read live. `Entries` is `_build_recipe_entries`: which
files have a row, from the stems, identifiers and parents of recipes and
overrides. The history variable `lost` says that the cache is behind for a reason
the worker cannot notice, and until which scan. `known` of the page is what was on
disk when it was filled.

### RecipeIndex

Versions of the published index are numbers. `building[w]` and `fetch[w]` are the flag
and the threads of worker `w`; `boot[w]` is `_start_services_in_worker`, which
fetches without the flag, under a file lock and a sentinel. `Crash` forgets a
worker's memory and its lock. The page is `stuck` when the poll of a refresh failed:
nothing catches that, and the button stays disabled.

### ApiAuth

A thread's `pc` is the next query. `accepted` and `granted` count outcomes. `ahead`,
`stalled` and `overlapped` record the races in which the code lets a second copy
through: a request recorded before its own time stamp, whose row is pruned while its
window is still open; a copy that passed the check of the time stamp and then slept
until the row was pruned; two requests that both read a challenge before either
marked it. The signing string and the hashes are ideal: a signature verifies or not.

### Accounts

A request reads its target (`get`), counts (`count`), saves the account, and looks for
and saves the row of permissions (`row`, `fill`); `disturbed` says that another request
has changed a row since this one read its target.

### Notifications

`stage` is the loop of `NotifyOnCompletion.run` and, inside it, of `webpush.send`; `due`
and `told` are its history, and `spoilt` says what raised where nothing catches it:
the preparation of a message (`DispatchRaises`: `_render` lets everything but `ValueError`
and `KeyError` out, an import everything but `ModuleNotFoundError`), which ends the
stage, or the deletion of a gone device (`RemovalRaises`), which ends `send` and with it
the loop over the devices. A stored text has the version of the key it was
encrypted with, 0 for plain text. A request holds what it read until it saves:
`SaveEdit` writes all fields (and inserts a row that is gone), `SaveToggle` only one.

### Installation

`plist`, `loaded` (what launchd has registered in each domain), `strays` (servers that
launchd does not track) and `files` survive commands; `cmd` is the command that runs,
which can be killed between any two steps. The failures that end a command (`failed`)
are steps; those that the code does not look at are steps as well, and the ones of a
removal or purge are kept in `cmd.ignored`: a `bootout` or `unload`, `dscl`, of which a
removal gets its list of users (`ListDomains`), and `pkill`. `dscl` lists all users or
none. What `launchctl` does is external and modelled from how the code uses it.

## What the runs show

| Run | Instance | Shows |
|---|---|---|
| `lifecycle_safety` | 1 run, 2 workers, 1 cancel request at a time, a deletion, 2 stages and the notify stage, 1 crash, 1 failing query | `NoOrphanRun`, `NoOrphanTask`, `RunAndTaskAgree`, `NoOpenStageAfterThread`, `CancelledStays`, `ImplementsRecord` |
| `lifecycle_live` | 1 run, 1 worker, 2 cancel requests, a deletion, 1 crash, fairness | `SingleWorkerCancelledIsSignalled`, `SignalStopsPipeline`, `RunsSettle` |
| `pipeline_mount` | 2 pipelines, 2 faults | `WorksOnOwnMount`, `UnmountsOnlyOwn`, `NothingLeftBehind`, `SuccessIsComplete`, `ImplementsLock` |
| `stream_viewers` | 1 worker, 1 viewer, 2 log rows, 1 stage change, 2 faults, fairness | `CompleteIsComplete`, `NoGap`, `SeesTheEnd`, `ImplementsView` |
| `scheduler_election` | 2 workers, 2 requests at a time, 1 fault, fairness | `EnabledIsCovered`, `HolderFires`, `LockIsTakenAgain` |
| `recipe_cache` | 2 request threads, 1 repository with 2 recipes, 1 override, 1 change, 1 fault, fairness | `OneBuild`, `CacheMatchesDisk`, `SaveAppliesClicks`, `PageIsAnswered` |
| `recipe_index` | 2 workers, 2 versions, 2 faults, fairness | `OneFetch`, `NeverOlder`, `SearchIsAnswered` |
| `api_auth` | 2 threads, 3 messages, 1 challenge, 1 edit, 4 ticks, window and lifetime 1 | `AcceptedOnce`, `RedeemedOnce` |
| `accounts` | 3 users, 2 threads | `LastAdminStays`, `DeletedStaysDeleted` |
| `notifications` | 2 notifiers, 2 devices, 2 threads, 3 requests, 2 keys | `EveryoneIsTold`, `DeletedNotifierStays`, `PasswordIsKept` |
| `installation` | 2 users, 3 configurations, any number of commands | `SuccessIsTrue`, `PlistOutlivesService` |
| `lifecycle_overlap` | 2 runs | violated, `OneActiveRun`: two runs become active |

`stream_viewers`, `scheduler_election` and `notifications` check the types as well
(`StreamTypeOK`, `SchedulerTypeOK`, `TypeOK`); they are proved for every module.

The violated property is what a comment of the repository says; `PROJECT.json` quotes it.
Other disagreements are listed under Divergences.

**What the history variables excuse.** Some races are real, are part of the models, and
are named by the property they break, which then says what remains. `LastAdminStays`
leaves out two removals that count at the same time (`disturbed`), `AcceptedOnce` a
request recorded ahead of its time stamp and a copy that slept (`ahead`, `stalled`),
`RedeemedOnce` two requests that hold a challenge unmarked (`overlapped`),
`CacheMatchesDisk` an invalidation that a build overwrites or that comes just after the
machine has booted (`lost`), `DeletedNotifierStays` and `PasswordIsKept` an edit that
works on an old row (`disturbed`), `EveryoneIsTold` what raises outside a `try`
(`spoilt`), `HolderFires` saves served without the lock or at the same time (`strayed`,
`overlap`). None of these properties says that the race cannot happen: it can.

**Bounds.** The hazards of the lifecycle are between one run's rows, its thread,
requests and workers: one run and two workers (home and another one) give every pairing,
and a cancel request can be followed by another. Two that overlap are in
`lifecycle_live`, where their signals matter; with two workers they were tried as well,
without the failing query, and satisfy the same properties. Runs interact only through
the check of the trigger, which `lifecycle_overlap` needs two for. Two stages are a
plain one and the one with the child process. Two pipelines give every conflict over the
mount point that one can have with another; three were tried as well and satisfy the
same properties. In `stream_viewers` two log rows tell order from loss, and one worker
is enough because its broadcaster can expire and be replaced, which is to a viewer what
another worker's is. Schedules can be stored any number of times. Two threads give every
overlap that the recipe list, the authentication, the user pages and the notifiers know:
all their races are between one request and another that changes what it has read. In
`recipe_cache` two recipes, one the parent of the other, and an override with or without
a parent give every kind of row; one change and one fault suffice to find each mutant,
and `RecipeCacheProofs` covers longer histories. In `api_auth` the first message is in
time and grows stale, the second comes ahead of the clock, the third is wrongly signed;
four ticks let a record be pruned and its message leave the window. In `installation`
sequences of commands are not bounded. The bounds of crashes, failing queries and broken
connections are constants (`MaxCrashes`, `MaxDbErrors`, `MaxFaults`), zero where a
property is about their absence (`dbErrors = 0`, `faults = 0`); `MaxChanges`,
`MaxEdits`, `MaxRequests`, `MaxRows`, `MaxKeys`, `MaxTime` and `MaxVersions` bound what
users, clients and time do. All theorems hold for every value of these.

**Fairness.** `FairSpec` of `RunLifecycle`: a thread, a request and a boot take
their next step while their process lives (operating system and interpreter
schedule them), gunicorn replaces dead workers, and child processes end; nothing
is assumed of users, crashes or errors. The last one is an assumption about
`autopkg` and `git`: `run_cmd` has no timeout. `RunStream`: the polling thread and
the page's script go on. `Scheduler`: workers that died are replaced and their
boot goes on. `RecipeCache`: request and build threads go on and an open page polls
again. `RecipeIndex`: fetches end (`urlopen` has a time-out), boots go on, and the page's
timer fires, at whichever worker: that every worker gets a share of the requests is
not assumed. No action needs strong fairness.

**Deadlock.** Runs cannot be triggered twice and pipelines end, every account can be
deleted, and requests are bounded, so the instances of `RunLifecycle`, `Pipeline`,
`RunStream`, `Accounts`, `ApiAuth` and `Notifications` stop in the end, and deadlock is
not checked there; it is checked for `Scheduler`, `RecipeCache`, `RecipeIndex` and
`Installation`.

## What is proved

`RunLifecycleProofs`, for any sets of runs, workers and requests, any number of
stages, crashes and errors, from `LifecycleAssumption` only:

- `TypeCorrect`: `TypeOK` is an invariant;
- `NoRunOrphaned`: `NoOrphanRun` is an invariant;
- `NoTaskOrphaned`: `NoOrphanTask` is an invariant;
- `OutcomesAgree`: `RunAndTaskAgree` is an invariant;
- `CancelledIsFinal`: `CancelledStays` holds of every step;
- `SignalIsObeyed`: `SignalStopsPipeline` is an invariant;
- `StagesAreClosed`: `NoOpenStageAfterThread` is an invariant;
- `CancelReachesItsRun`: `SingleWorkerCancelledIsSignalled` is an invariant;
- `RowsAreKeptAsRecorded`: `RunLifecycle` implements `RunRecord`.

So every safety property of the module that its passing runs check is proved.

`NoOrphanRun` says that an active run has a live thread or a worker whose boot is
still to repair it. It is not inductive: it does not say that the thread's own last
update settles the row, nor that a cancel request in flight cannot bring a row back
to life, nor that whoever runs has a home that can crash. `OrphanInv` adds exactly
these: `HomeKnown` (a run that is not idle has a worker), `CancelKnowsRun` (a
request concerns a run that was created) and `RowsFollowThread` (no rows before
they are created, no active run behind `FinalRun`, no active task behind
`FinalTask`). Its preservation is proved per process - run thread, cancel request,
deletion, worker, failing query - one action at a time. `TypeOK` is proved first
and used in each of them.

The others have invariants of their own. `OutcomesAgree` needs to know what the run
holds between the two final updates (`RunFinal`), `StagesAreClosed` where an open
stage is at any time: the one its thread is in, or died in (`OpenStageIsCurrent`).
`CancelReachesItsRun` rests on the registry: the event is registered all the while the
pipeline executes (`RegisteredWhileOn`), and the only worker is both the run's home
and the one that serves the request (`CancelAtWorker`, and `Workers` finite for its
cardinality to say so). `SignalStopsPipeline` is inductive as it stands, and
`CancelledIsFinal` needs only that a row cannot be created twice, from
`RowsFollowThread`.

`RowsAreKeptAsRecorded` combines three of them and adds `RecordInv`: a thread keeps its
task (`ThreadHasTask`), and no row says `success` before the final update that may
write it (`SuccessIsLast`). Both are needed because the thread's updates do not look at
what they replace: that `StartRun`, `StartTask` and `FinalTask` never overwrite a
success, or write to a row that was never there, is not in any guard. The step lemmas
follow the processes again: each maps its actions to one action of `RunRecord` or to a
stutter; a crash becomes one `Die` of all the runs it kills (`DeathShows`).

`PipelineProofs`, for any number of pipelines and faults, from
`PipelineAssumption` only:

- `TypeCorrect`: `TypeOK` is an invariant;
- `OwnMount`, `OwnUmount`, `Result`: `WorksOnOwnMount`, `UnmountsOnlyOwn` and
  `SuccessIsComplete`;
- `MountPointIsLock`: `Pipeline` implements `MountLock`.

`PipelineInv` has two parts besides the types. `LoopInv` looks at one pipeline at
a time: in the loop, exactly the stages before the current one are completed and
the result is still `TRUE`; afterwards the result says whether all of them are.
`MountInv` relates the pipelines: at most one of them has to remove the mount
point (`Holds`), then the directory exists, and nothing is mounted on it except
that pipeline's share, or not even that where it has not mounted it yet or has
unmounted it. The argument for every step is the action formula `HolderStep`: a
pipeline becomes the holder only if there was no directory (`os.mkdir` decides),
and one that neither is nor becomes the holder does not touch the mount point.
From `HolderStep` follow both that `MountInv` is preserved and that the step is
one of `MountLock`'s or a stutter. `OwnUmount` then needs no more: whoever is at
`umount` is the holder.

`MachineLeftClean` proves `NothingLeftBehind`. Its own invariant `CleanInv` says that
without faults a directory always has a holder, and that a pipeline about to remove
it has unmounted; together with `PipelineInv` it is inductive.

The other proof modules have the same shape: types, an inductive invariant, one lemma
per action, and the theorems at the end. What each invariant adds to its properties:

- `RecipeCacheProofs` (`BuildsAreUnique`, `FreshCacheMatches`, `SaveIsTheSelection`):
  `CacheMatchesDisk` speaks of the moment when the cache passes as fresh, so the
  invariant follows the build before that: what has been scanned, and then stored, is
  what is on disk unless the cache is behind (`ScanIsGood`, `DataIsGood`), a stamp is
  only written after the data (`StampIsLast`), and an invalidation that a stamp
  overwrites is counted as lost (`Overwritten`). `SaveIsTheSelection` says what becomes of
  the recipes that had to have a row when the page was filled, and that nothing else is
  added; what was put on the run list later is outside it. It rests on a lemma about the
  rows, for any files: every identifier on disk has a row, unless a recipe with it is
  superseded by an override. Deduplication makes the last clause necessary even for
  a file that is not superseded itself.
- `RecipeIndexProofs` (`TypeCorrect`, `FetchesAreUnique`, `IndexIsNeverOlder`): per worker, at
  most one fetch, the flag set while it runs unless it is the one at boot, and what a
  fetch has received is at least what is stored and at most what is published.
- `ApiAuthProofs` (`TypeCorrect`, `RequestsCountOnce`, `ChallengesAreUsedOnce`): counting once
  is not inductive. `Guarded` says why a second copy cannot come through: either the
  row is there and was used at or after the message's own time, so it stays until the
  message is out of its window; or the message is out of its window and nobody is past
  the check of its time stamp. `Once` adds the copy that is recorded and not yet
  counted, `Redeemed` the thread that holds a challenge and has not yet marked it.
- `AccountsProofs` (`TypeCorrect`, `AnAdminStays`, `DeletedForGood`): a request that is about to
  save and is not disturbed knows of another administrator (`Safe`), and a deleted
  account has no permissions (`Bare`).
- `FeedbackProofs` on `Notifications` (`TypeCorrect`, `NobodyIsForgotten`, `DeletedStays`,
  `PasswordsAreKept`): the
  stage has told, or has still before it, everyone it must tell, unless a message or a
  deletion has raised (`Told`); an
  undisturbed edit holds the row as it is (`Known`); no text with the prefix `enc:` is
  ever encrypted (`Clean`), which is what makes decrypting what was encrypted give the
  same text back, also when the key has changed in between.
- `ServiceProofs` on `Installation` (`TypeCorrect`, `ReportsAreTrue`, `PlistIsNotTaken`): what a
  removal has left in the domains that are not before it (`Visited`, `AllVisited`), when
  strays are gone (`NoStrays`), that an installation past `write` has written its plist
  (`Written`), and when a purge has unloaded the system's service (`Unloaded`).

**The live view** (`FeedbackProofs`: `StreamTypeCorrect`, `PagesHaveNoGap`,
`CompletePagesAreComplete`). `NoGap` and `CompleteIsComplete` are about pages, and follow
from what the broadcasters have in their lists. `StreamInv` therefore says of each worker
(`WorkersInv`): the events, with the frames a poll has collected behind them, contain no
log row without all earlier ones (`LogsInv`; rows sent twice are allowed, which is why it
is not an equality with `1..lastLog`); the last stage frame is the last change the
broadcaster has seen, and nothing behind it is older (`StagesInv`); and a `complete` frame
has all rows before it that there were at the end (`EndInv`), which holds because the
status is read before the rows and the late pass comes before the frame. `PagesInv`
says that an open page shows what it has received up to its cursor: the page, the
cursor and the worker's list have to be related, since a reconnection begins from an empty
cursor at a list the page knows nothing of. The lemmas on sequences of frames (`NoHole`,
`Covered`, `StageFrom` under concatenation) carry both.

`PagesKeepTheirPromise`: `RunStream` implements `RunView`. It needs in addition that
nothing is invented (`ViewInv`): whatever is in a list, in the frames of a poll or on a page
was written before. Then a log frame extends the page's prefix by a row that exists,
`complete` comes when the page has all there was at the end, and the status fallback closes
a page only when the run is over.

**The scheduler** (`ServiceProofs`: `SchedulerTypeCorrect`, `EnabledScheduleIsCovered`,
`OnlyTheHolderFires`). `EnabledIsCovered` speaks of a quiet moment, when all is up and
answered. `CoverInv` extends it to any moment without faults: there is a job, or some
thread is at a step from which it will add one (`Pending`), having read an enabled
schedule or being still before the read. This needs that a thread past `start` holds a
scheduler that runs (`RunningInstance`), and that a second scheduler, created because
`get_scheduler` has no lock, does not count as the first (`BootInv` bounds the instances
by who can still create one). `HolderFires` needs `HolderInv`: as long as the holder has
served every save, whoever is in `reschedule_job` is in its process, and only its
scheduler has a job. Its second half needs `AloneInv` as long as requests have not
overlapped: one thread per worker in `reschedule_job`, one scheduler, and from the
removal of its job to the addition of the new one nothing but what is stored in that
thread's hand (`ServedLast`).

The proofs use the assumption named in each module and nothing else. Bounds are
constants in them, so they hold for any.

Only model-checked: the liveness properties (`RunsSettle`, `SeesTheEnd`, `LockIsTakenAgain`,
`PageIsAnswered`, `SearchIsAnswered`), since TLAPS does not prove liveness under fairness.
Every other property of the passing runs is proved, and `OneActiveRun` is refuted by its
run.

## Divergences

Seen while modelling, besides the finding in `PROJECT.json`. Each is part of the models,
or of what they leave out, as the code has it.

- A deletion can remove a running run, though "Active runs (pending / running) are silently
  skipped" (`webapp/views/runs.py:199`): Django collects the settled runs and then deletes
  them by key (lines 207-211). A run that was cancelled before its thread marked it can be
  collected, become running (`webapp/runner.py:132`) and be deleted; its pipeline goes on,
  and the next trigger is accepted beside it (`CollectRun`, `StartRun`, `DeleteRun`).
- A worker without `scheduler.lock` fires scheduled jobs after it has served a save
  (`webapp/views/schedule.py:171`: `reschedule_job` starts a scheduler there, whoever holds
  the lock), beside the holder's. `README.md:284` says that "only the worker that holds
  `scheduler.lock` fires scheduled jobs", and `webapp/apps.py:99-101` that this prevents
  "duplicate scheduled runs when workers > 1". `HolderFires` holds as long as no save
  has strayed that way.
- Not all notifiers are told (`stages/notify.py:4`: "to all configured notifiers"): a
  template such as `{run.id}` raises `AttributeError`, which `_render` (lines 79-83) does not
  catch and which ends the loop (lines 131-143), and so does a module that cannot be
  imported for another reason than that it is missing (lines 112-116).
- A boot marks every active run as failed, also one that another worker executes
  (`webapp/apps.py:150`; its docstring, lines 136-137, speaks of runs left over from a
  previous process). The thread later overwrites the mark.
- With two workers, a cancel request served by the other one does not signal the run
  (`webapp/views/runs.py:231-233`): it is marked as cancelled and goes on.
- A run on a local repository uses `mount_path` where `libs/config.py:17-18` says it uses
  the local path (`stages/run_autopkg.py:21`, `stages/garbage_collector.py:20`).
- The final pass of the broadcaster sends the rows of its last poll again
  (`webapp/run_broadcaster.py:172`, 133-135): a viewer can see a row twice.
- A saved schedule does not take effect in other workers, though `README.md:17` promises
  changes without a restart (`webapp/views/schedule.py:171`): the holder of the lock goes
  on with the old one. When it dies, none of the workers that stand by takes over, as
  `README.md:284` has it; the replacement does.
- When the row of a gone device cannot be deleted (`notifiers/webpush.py:90`), the devices
  behind it are not told.
- A removal reports `Service removed` although `dscl` listed no users, so that a legacy
  registration stays, or `pkill` failed (`service_daemon.py:349-357`, 368-373).
- When the poll of a refresh fails, the button of the recipe index stays disabled
  (`recipe_index.html:529`).
- A save of the recipe page replaces the whole run list (`webapp/views/recipes.py:585-587`):
  what another page has put on it since this one was filled is dropped.
- The signing guide of the API page and `api/authentication.py:7-8` leave out the line for
  the query string that the server adds (`api/authentication.py:124`).
- The refresh of the recipe index page does not wait for the fetch it started: any data
  will do (`recipe_index.html:527`).
- A purge by a user removes the plist of the system service without being able to stop
  it (`purge.py:111`); `--remove` then finds nothing, and a new installation fails because
  the label is registered. A purge is reported as complete though removals failed
  (`purge.py:133`, 165-170). When `bootstrap` fails, the installation through the dialog
  keeps the plist and the direct one removes it.
- A recipe file that shares its identifier with a superseded one may have no row
  (`views/recipes.py:388-404`, 496-497), so that a save may drop it from the run list.
- A page whose list could not be loaded can be saved, which empties the run list.
- A password that begins with `enc:` is stored as it is and decrypts to nothing.
- The test button of a Web Push notifier passes no `_notifier_pk` and always fails.
- A disabled user keeps the session (`webapp/auth_backends.py:61-65`).

## What is not modelled, and why

Components with status `not_modelled` in `PROJECT.json`: they read what others write
(API endpoints, share links, dashboard), or are I/O and presentation. Within the
modelled ones: the run list stream, deletion of a run that is being watched, the mobile
page; what `autopkg` does to recipes and results; the text of notifications and the
services that get one message each; the resolution of a recipe's requirements, a pure
function of the index; three of the four permissions; the Task row of the database
clean-up; `NotifierTestView` and the VAPID keys.

## Plan

Done: the run lifecycle under `RunRecord`, the pipeline over its lock, the live view under
`RunView`, scheduler, recipe list, recipe index, authentication, accounts, notifications
and installation, with proofs for all of them. Left, in this order:

1. What remains true of "one active run": an invariant that names the ways to two of them
   (two triggers past the check, a cancelled run that its thread marks as running, a boot
   that repairs a run another worker executes), and its proof.
2. The icon cache with its semaphore, and the run list stream in `RunStream`.
