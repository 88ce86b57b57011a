# Verification of OpenI-Octopus

TLA+ models of the parts of OpenI-Octopus that decide what runs on the cluster,
the TLC configurations that check them on small instances, and TLAPS proofs of
their main invariants for instances of any size.

Paths below are relative to the repository; `J/` stands for
`frameworklauncher/src/main/java/com/microsoft/frameworklauncher/`.

## 1. The system and its parts

OpenI-Octopus lets users run deep learning jobs on a YARN or Kubernetes cluster.
A job travels: web portal -> REST server -> launcher WebServer -> ZooKeeper ->
launcher Service -> YARN -> one Application Master per framework -> containers.

| part | state it keeps | operations | interacts with | what is hard | what makes it correct |
|---|---|---|---|---|---|
| Application Master: StatusManager (`J/applicationmaster/StatusManager.java`) | status of every task, four inverted indexes, set of live hosts, container requests by task and by priority, changed flags, gang round; a copy of the statuses on ZooKeeper | `transitionTaskState`, `updateTaskNumbers`, the connection-lost counters, `pushStatus`, `recover`, `reviseCorruptedTaskStates` | called by the AM's handlers; pushed by a thread of its own; read back by the next attempt | eight maps changed together, writes role by role that fail half way, restarts that mix roles of different age | indexes agree with statuses; no container has two tasks; a skipped role is already persisted |
| Application Master (`J/applicationmaster/ApplicationMaster.java`, RM and NM callback handlers, `RMResyncHandler`) | the system task queue, delayed system tasks, exceed counts, the RM client's requests and releases, NM start requests | one handler per system task: request, allocate, launch, started, complete, retry, remove, resync, gang timeout, stop | YARN RM and NMs through callbacks; StatusManager and RequestManager | callbacks in any order, timeouts that race allocations, a push or a crash between any two calls of one handler, users who resize and migrate meanwhile | every task is always driven on; released containers are not in use; gangs are all or nothing and time out; placement promises hold; it stops when it should |
| AM RequestManager (`J/applicationmaster/RequestManager.java`) | the last pulled FrameworkRequest and migrate requests | pull, hand task numbers and migrations over once | polls ZooKeeper, queues system tasks | stale pulls, completed or repeated migrations | each request handed over once |
| AM SelectionManager, `ResourceDescriptor`, `ValueRangeUtils` | nodes, GPU bitmaps, port ranges | select a node, GPUs and ports | called by `addContainerRequest` | boundary cases of ranges and topologies | what is selected is available and disjoint |
| Launcher WebServer (`J/webserver/`) | all framework requests in memory, the total number of tasks, the last pulled statuses | PUT, DELETE, stop, resize, migrate; garbage collection of completed frameworks | HTTP clients; writes requests to ZooKeeper, reads statuses from it | parent and child frameworks deleted and stopped together, across crashes; ZooKeeper written but memory not; statuses that are stale when they are collected | requests on ZooKeeper and in memory agree; orphans are deleted and stopped; the total stays within its limit; nothing that runs is collected |
| Launcher Service (`J/service/`) | framework statuses, applications by framework, event queue | create, launch, retry, complete, stop and delete the application of each framework | polls requests and RM reports; writes framework statuses | asynchronous launch checked against snapshots, crash between submission and push, deletion while creating | at most one AM per framework; retries are counted; status, YARN and request agree in the end |
| ZookeeperStore (`J/zookeeperstore/`) | tree of small and large objects | set, get, recursive delete; large objects as numbered payloads of many parts | used by WebServer, Service and AM, concurrently | writers of different speed, readers during garbage collection, crashes between parts | a large object reads as a register |
| `SystemTaskQueue` and `AbstractService` (`J/common/service/`) | a queue with one worker, delayed tasks, stop status | submit, delay, start, stop | base of Service and AM | start and stop of threads | tasks run in order, none before recovery has ended |
| HdfsStore, client, common model | - | file upload, HTTP client, validation, exit codes | - | - | - |
| model-hub (`model-hub/lib/upload`, `model-hub/router/upload.go`) | rows of projects and tasks, a temporary directory for each task, the published models, a map of live tasks | init, upload a block, merge, commit, clean | serves model-client over HTTP | blocks stored beside merges, commits against each other, against restarts and against the cleaner | a published model is whole; what was acknowledged is kept; a model is never lost |
| model-client (`model-client/lib`, `model-client/command`, `model-client/utils/file`) | the working directory, `.ms/v<version>` of the other versions, `project.json`, `download.lock` | init, clone, pull, push, version create, version switch | model-hub | commands that move directories entry by entry and may be killed, downloads that race a publication | no version's work is lost; a pull brings what was published |
| REST server (`rest-server/app`) | users in a database; jobs are the launcher's | submit, stop, delete jobs; users and their virtual clusters | launcher WebServer, HDFS, database | handlers that interleave at every `await`; checks and writes that are separate calls | a change applies to what was checked; a framework runs with its own files |
| openi-management | cluster object model | deploy, start, stop, replace an etcd member | Kubernetes, etcd | order of steps, half failed repairs | quorum kept |
| webportal, model-exchange, model-compression, pylon, prometheus, grafana, hadoop-ai, hadoop-fpga, hice, cluster-configuration | - | user interface, converters, exporters, configuration and images | - | - | - |

The hazards (what a test of this code would hardly reach) are listed in
`PROJECT.json` at the lines where they bite, each with the properties that would
catch it or the reason why none does.

## 2. Plan

Done, the most important behaviour first: the first two decide what happens to
running containers, the next three are what everything else reads and writes,
and the last ones are the services around them.

1. `StatusManager`: the data structure everything in the AM relies on, as the
   most general client of its methods; proved.
2. `ApplicationMaster`, which extends it with the AM's handlers, its queue,
   timers and threads, YARN, users, and restarts of the process; shown to call
   the StatusManager only as `SMSpec` allows.
3. `LauncherRequests`: the WebServer.
4. `LargeObject`, and `AtomicObject`, the specification it implements.
5. `LauncherService`: the Service, from the request of a framework to its application.
6. `ModelHub`, and `ModelPush`, which composes it with the client's push.
7. `Workspace`: the other commands of model-client and the directories they move.
8. `RestServer`: users and jobs.

9. Proofs about all of them (section 5): the safety properties the runs check, the
   refinement of `SMSpec` by the AM and of `AtomicObject` by large objects.

Left:

10. `LargeObject` with the deletion of the object, after which ZooKeeper counts
    from 0 again, and readers that take a failed listing for an absent object.
11. `SystemTaskQueue`: start, stop, and the condition awaited without predicate.
12. Port ranges and GPU selection as operators, checked against reference
    definitions over bounded inputs; the replacement of an etcd member.

## 3. Modules and the code

**`StatusManager.tla`** (`J/applicationmaster/StatusManager.java`). One variable per
map of the class (names kept), `zkNumber` and `zkStatus` for the copy on
ZooKeeper. Every method is `synchronized`, so each is one action:
`TransitionTaskState` with its event and the asserts as guard, the edges listed
at `TaskState` as named actions (`Request`, `Allocate`, `Launch`, ...),
`UpdateTaskNumbers`, `IncreaseLostCount`/`ResetLostCount`, `PushStatus(rs)` and
`Recover(rs, lost)`. A push writes role by role and stops at the first failure, so
`rs`, the roles written, is any subset of the changed ones. `AllocateFails` is
`transitionTaskState` with a container that cannot be associated. After a
restart `Recover` reads what is on ZooKeeper of each role, revises the states
that only make sense inside one attempt and rebuilds the indexes. A recovery
that meets statuses of another FrameworkVersion, or any exception, deletes the
framework's statuses and begins anew (`StatusManager.java:154-184`): `lost` are the
roles whose statuses are deleted, all of them or those the deletion reached
before the process died in it. A role is skipped only if it has no TaskStatuses
there, because nothing of it was pushed (`zkNumber[r] = 0`) or because it was
deleted. Two things end the attempt without a change and are left to the next
one: a FrameworkStatus that is gone (the Service has deleted the framework) and an
exception of ZooKeeper itself.
`SMNext` is the most general client that respects the asserts.

**`ApplicationMaster.tla`** extends it. `queue` is the system task queue, `todo` what is
left of the running system task, `timers` the delayed system tasks. A handler
calls the StatusManager several times, and the push thread or a crash may come
between any two calls, so each call is one step (`Do...`); calls of the RM
client, which only append to lists inside the process, go with it. Callbacks
are `inbox` messages delivered in any order (`Deliver`), users are
`PullNumbers`, `AskMigrate` and `PullMigrate`; `CrashAndRestart` keeps what
YARN and ZooKeeper keep. The RM and the NMs are external: `Grant`, `Release`,
`StartOnNode`, `Exit`, `Expire`. The constant `Faults` switches on failing
request setup, failing association, failing starts, expiry, an RM that cannot
be reached, one that has just restarted and does not know all containers, and
(`reinitialize`) a restart whose recovery cannot read the statuses and deletes them.

**`LauncherRequests.tla`** (`J/webserver/`). `requests`, `marks` (migrate and progress
requests) and `totalTaskNumber` are memory, `zkRequests` and `zkMarks`
ZooKeeper. A modifying call holds one fair write lock but writes several times
when it stops or deletes child frameworks; `phase` names the call that holds
the lock and each write is a step. A write may fail after it was made (the HTTP
caller gets status 503): `doubtful` and `interrupted` record that, and
properties that hold only without such failures say so. `puller` is the thread
of the StatusManager, from the choice of the statuses it need not pull again
(`ChooseReusable`) over `Pull` to `Collect`, between which users, the Service
and time act. The launcher Service is abstract here: it follows what it last
pulled (`pulled`, possibly stale), adds, upgrades, completes and removes statuses.
Statuses of different frameworks are pulled in one step, since nothing relates
them. `frameworklauncher/doc/USERMANUAL.md:164` asks users for versions never used
before; nothing enforces it, and `rest-server/app/service/job.js:215` submits every
job with version 10. So users ask for any version at any time; the ghost `asked`
is what they have asked for, and `again` what they asked for once more after a
deletion or another version.

**`LauncherService.tla`** (`J/service/`). The life of one framework: other frameworks
only delay the tasks of the queue. `request` and `saved` are the two nodes on
ZooKeeper, `apps` is YARN, the rest is the process: `pulled` and `status` in
memory, `queue` the tasks of `transitionFrameworkStateQueue`, `delayed` those
with a delay, `threads` the setup of application contexts and the retrieval of
diagnostics, which take a snapshot along and queue a task when they end. A
task begins with an action (`UpdateRequests`, `LaunchApplication`, `ResyncWithRM`,
`RetrieveExitCode`, `RetryDelayed` and the three startup tasks), which decides from
memory alone what is to be done. That is `work`, a sequence of accesses to
ZooKeeper or YARN (`DoSave`, `DoAdd`, `DoCreate`, `DoDrop`, `DoKill`, `DoSubmit`,
`DoAttempt`), each a step, between any two of which the process may die (`Crash`; a task
that throws ends the process too) and be started again (`Recover`). A submission
that fails may or may not have reached YARN; the kill that follows sees what
did. YARN may forget an application that has ended, and may not answer.
`submitted` is a ghost that counts submissions. YARN hands out one of the ids it has
not handed out before (`NextApp`), and there is a bound `MaxApps` on them: an action that
may ask for one waits for `FreeApps # {}`. Users change the request at any moment
(`SetRequest`, `DeleteRequest`), a version they have used before included.

**`LargeObject.tla`** (`J/zookeeperstore/ZooKeeperClient.java`). Every access to ZooKeeper
in `setLargeObject`, `gcOldVersions`, `deleteRecursively`, `getLatestVersion` and
`getLargeObject` is a step of one of several writers or readers. The contents
of a part are its payload and index. Preparing the paths is left out: it is
idempotent, and an object without them reads as one without ready versions.
**`AtomicObject.tla`** is what the comments promise: writes take effect at one
moment while they run or are overtaken by a write that began later, reads
return the value of one moment.

**`ModelHub.tla`** (`model-hub/lib/upload`, `model-hub/router/upload.go`). `info` and `rows` are the
database, `temp` and `project` the disk, `taskMap`, `handlers`, `pending`, `merging` and
`commit` the process. The handlers of the hub are goroutines; a task's mutex is held
by merges only. So a block is received (`ReceiveBlock`) and stored (`StoreBlock`,
the renaming, which takes no mutex) in two steps, a merge opens its part (`MergeBegin`) and
renames it (`MergeEnd`) in two, or an error of the disk ends it between (`MergeFails`), a
commit is `CommitBegin`, the check, `CommitMerge`, the removal of the old model entry by entry
(`CommitRemove`, `RemoveEntry`, `RemoveEnds` or `RemoveFails`), which excludes no other
commit, and `CommitRename`, and the cleaner `ListDead`, `CleanCheck`, `CleanDir` and
`CleanRow`. A file is the sequence of the numbers of its blocks, `Torn` a block that
was appended in part. `GrowOld` lets hours pass for a task, `Restart` ends the
process. A commit checks the info of whoever called init last (`info`), which need not be its
own. `project.torn` says that an entry of the published directory has been removed. Ghosts:
`damaged` (files a merge of which failed, was cut short by a restart, or was overtaken by
a block stored once more), `cut` (pushes whose commit an error, a restart or the cleaner
ended between the start of the removal and the renaming), `published`.

**`ModelPush.tla`** (`model-client/lib/upload`) extends it with the client of each push:
`client` is where it is (init, rounds of blocks, commits, the end), `block` what it
knows of each block. A request may fail to arrive, its answer may be lost while the hub
still serves it, and the hub may restart; two pushes of one version run at once.
The client fails at the first upload if a block does, but sends what a commit finds
missing at most `MaxTry` times and then reports success.

**`Workspace.tla`** (`model-client/command`, `lib/download`, `utils/file`). `top` is the directory,
`cache[v]` is `.ms/v<v>`, `hub` what is published. Every entry that is moved,
fetched or removed is a step, in the order of `Listing`, which stands for the
order of `readdir`; `cmd` is the command that runs and what it read before. `Kill`
ends it between two steps, `DownloadFails` is a request that fails, `Withdraw` and
`Republish` are others who publish. A download fetches what the hub lists: the row in
`ms_projects`, which an init of any push overwrites, so it is that of the published
model (`AskHub`) or of a push that is not, or never, committed (`AskAnnounced`, any list of
files). The client looks at no status code, so whatever body comes back is the file
(`Fetch` for what the hub does not have, `FetchError` for errors of the hub, refused tokens
and bodies that are cut). A file without content has no block and is not fetched (`Sent`).
`version create` copies the `synced` mark it has read into all the others and the new one.
A push is one step and starts from a tidy directory. Ghosts: `wanted[v]`, what the
user's work on a version is; `torn`, the cases the code does not survive (see
`WorkKept`); `republished`, the download was told of another model than the published one,
or answered with an error.

**`RestServer.tla`** (`rest-server/app`). `users` is the table, `files` the contexts of jobs on
HDFS, `framework` the launcher, `tokens` what logins signed. A handler is a record
`req[r]`: what it has read and what it is about to write, one action for each await
that changes something. The files of a job are written all at a time, so
`WritePart` and `PartFails` come in any order, and go on after the request has been
answered with the first failure. The launcher's answer to the framework is not
looked at (`PutRefused`). The repository does not create the users' table: it is
taken to hold a name once. `modifyTime`, which `where: row` compares too, is left
out (rows that differ in it alone count as equal, so a change that the code
leaves out, the model may apply); of the execution types only STOP is modelled.
The ghost `done` is the set of requests answered when a submission began.

`...Proofs.tla` modules hold the theorems of section 5, one for each module but
`AtomicObject` (with `LargeObject`) and `ModelHub` (with `ModelPush`).

`MC...` modules give the constants values. Operators under a comment "Mutation of X",
"Mutant" or "Faulty" are variants of the definition that follows as a plausible
mistake would make it, kept to show that a property notices; no specification
uses them.

## 4. What is checked

| run | shows | bounds, and why they are enough |
|---|---|---|
| `am_faults` | `TasksDriven`: some queued task, timer or callback will move every task on; `ReleasedNotLive`: nothing that is being released is in use; `NoForgottenRequest` and `IndexesExact` while a user resizes or migrates; `StatusesWellFormed`, `TypeOK` | one task or none, one user operation, all faults but two: failing request setup, which only delays a request, is in `am_placement`, and unreadable statuses need a restart; one retry; two containers, so that events of the old one meet the new one |
| `am_gang` | `GangDriven`, `GangLaunch`, `CompletionPersists` | two tasks and two containers, which may expire before the gang is complete; one restart, whose recovery may find the statuses unreadable; `MaxQueue = 2`, so that the timeout of a round can be behind another event |
| `am_placement` | `AntiAffinityEnsured`, `SamePortsEnsured` within one attempt, and `HostIndexSound`; `TasksDriven` of two tasks | two tasks, failing request setup, three requests and three containers on two hosts, one with other ports: one task is retried in any order with the other; states are told apart by `MCMemory`, which leaves out the copy on ZooKeeper, since without restarts and users only the last push reads it |
| `am_restart` | `ImplementsStatusManager` (no assert of the StatusManager ever fires, its every use is one of `SMSpec`) and `ChangedExact` across a crash at any step, `OrphansReleased`, `StopsWhenUndisturbed` | one task, one restart, which may delete the statuses, two containers: one forgotten, one new |
| `launcher_requests` | `RequestsConsistent`, `TotalExact`, `StopReachesChildren`, `RecoveredWithoutOrphans` | three generations, the first perhaps a child of the second (a circle); five calls, two restarts (the second may cut the recovery of the first short), one failing write |
| `launcher_collect` | `ReusedStatusCurrent`, `OnlyCompletedCollected`, `CompletedCollected` | one framework, three versions, so that a status, the request and what the Service has seen can be of three versions, each of which may be asked for again; one restart |
| `launcher_reuse` (a violation) | `ReusedStatusImmutable`, which is what the comment at `J/webserver/StatusManager.java:153` says of a completed status, fails | one framework, one version, a deletion and two puts of it: the least that shows it |
| `large_object` | `LatestComplete`, `ImplementsAtomicObject`, `ReadsEnd` | two writers and a reader, three payloads of one or two parts (a slow writer, one that overtakes it, one after both), one failure |
| `launcher_service` | `OneApplication`, `RetriesCounted`, `EventuallySatisfied` | two versions, one retried for free on transient failures and once on unknown ones, the other never; three changes of the request (put, upgrade or delete, put again); one crash and one fault (of an application, a submission or a report), so that a crash meets a fault at every step; a seventh application is never asked for, so `MaxApps = 6` cuts nothing off |
| `model_push` | `PublishedWhole`, `LostOnlyWhenCut`, `AcknowledgedKept` | two pushes of one version, a file of three blocks (the least in which a merged part meets a later block and a run of parts is merged) against the same file in one block with an empty one; two tries; one restart, lost request, expiry or error of the disk in a merge or a removal |
| `workspace` | `WorkKept`, `PulledWhole` | three versions, two of them published, two files, one before and one after `project.json` in the directory; three commands, three revisions; one of the commands is killed, fails, is answered an error or is told of an announced push |
| `rest_server` | `ContextCurrent`, `PasswordFollows` | four requests (a removal and an addition between the two steps of a third; two submissions, a failing one and a stop), two users, one of them an administrator, one job of two files, one failure or restart |

Each type invariant is checked in one run of its module (`SMTypeOK` is a conjunct of the
`TypeOK` of `am_faults`); those of `LargeObject`, `ModelPush` and `Workspace` state what the variables hold and are
part of no run of their own.

Bounds are constants named `Max...` and `LostBound`; each is a guard of the actions
it bounds. `MaxQueue` is not a bound of the code: events wait outside the queue
while it is that long, which only postpones them. With `MaxQueue = 1` no event
is ever queued behind another, hence 2 in `am_gang`, where the timeout of a round is.
With two places `am_faults` is too large; its properties are proved for any, and so is
`IndexesExact` after a restart and of several tasks. Symmetry is used only in runs
without liveness, over containers or requests that are alike.

Exceptions in the properties are what the code really does not guarantee, and each
says when: `CompletionPersists` excepts the roles whose statuses a recovery deletes
(`Reinitialized`), `ReusedStatusCurrent` and `OnlyCompletedCollected` the versions asked
for `again`; `PublishedWhole` and `AcknowledgedKept` except files in `damaged`, and
`PublishedWhole` a model that is being removed or whose removal was cut (`torn`);
`LostOnlyWhenCut` names `cut`, `WorkKept` excepts `torn`, what a pull replaces and a version
that is created again after a pull made the project forget it, `PulledWhole` excepts
`republished`, `ContextCurrent` speaks of submissions that had ended (`done`) and
leaves those that overlap alone.

Fairness. `ApplicationMaster!Fairness`: the queue's thread runs what is queued (weak);
callbacks and the resync timer get into the queue (strong, since in the model
the queue may be full now and then), a process that stops goes on stopping, the RM
acts on a release. Nothing is assumed of grants, exits, users or pushes.
`LauncherRequests!FairSpec`: the holder of the lock goes on, and so does the
thread that pulls statuses, which the fair `ReentrantReadWriteLock` serves in turn.
`LargeObject!FairSpec`: a thread that reads goes on reading; nothing is assumed
of writers. `LauncherService!Fairness`, all weak: the thread that pulls, the queue's
thread, the setup and diagnostics threads and the timers go on while the process
lives, and a process that died is started again (`J/service/Service.java:114-117`:
"Restart by external system"). Users, applications and YARN owe nothing: an
application may run or wait forever.

CHECK_DEADLOCK is off where the system may stop: an AM that has unregistered,
a WebServer, a hub or a REST server of which nobody asks anything more, and a
project whose `project.json` a killed command has taken away.

### What the code does not promise

Met while modelling, and allowed by the models; no property of the code could
say otherwise.

* An AM that dies after its last push and before it has unregistered is
  followed by an attempt that recovers only completed tasks and queues nothing
  that would evaluate `attemptToStop`: it runs on. The same happens, by
  `ApplicationMaster.java:1223`, when a user removes the only task that has not
  completed. `StopsWhenUndisturbed` excludes both.
* A recovery that meets an exception while it reads, or the statuses of another
  version, deletes what was persisted: completed tasks run again. (That the statuses are
  of another version means that the Service has begun a new attempt for another request;
  what an AM that is outdated in this way writes before it notices is outside the model.)
* After a restart the tasks that were recovered and the ones allocated meanwhile
  can share a host in spite of antiaffinity; `AntiAffinityEnsured` is about one attempt.
* The result of `deleteFrameworkRequestInternal` is inverted where it is used: the
  deletion of a framework that exists leaves its children until the next start
  or a second deletion.
* A framework that completed, is deleted and submitted again with the same version between
  two pulls of the WebServer keeps the completed status of the run before:
  the web shows it as completed, and it may be collected while it runs. The jobs of the
  REST server all have version 10 (`launcher_reuse`; a finding in `PROJECT.json`).
* A submission that reaches YARN after the kill of its application would run
  without a status. `LauncherService` decides at the failed call, so it has no
  such submission.
* A commit uses the info of the last init of the version. A restart while a merge
  appends leaves a part that is taken for whole, and so does an error of the disk in a
  merge, which may also remove a part with acknowledged blocks. A commit that is cut short
  while it removes the old model leaves a part of it, and after that none; two commits may
  remove each other's.
* The client's push reports success after `maxTryTime` commits that left something.
* `version switch` marks a version as synced whatever its download came to, and
  downloads the version that was current before; `version create` gives every version
  the mark it has read, so after a switch whose download ended the command all of
  them are downloaded over; a pull replaces
  `project.json`; a lock that a killed download left empty names the working directory
  itself. A download lists the files of the last push that was announced, stores the
  text of an error as a file, leaves empty files out, and reports success.
* The REST server reports success for an update that matched no row, replaces
  another user's framework of the same name, ignores the launcher's status, and
  sets the virtual clusters of an existing user back when an administrator sets
  the password.

## 5. What is proved

Of every safety property of section 4, be it an invariant, an action property or a
refinement, there is a theorem for all values of the constants; of the liveness
properties there is none. `PROJECT.json` lists the theorems.

| module | theorems | properties of the runs they state |
|---|---|---|
| `StatusManagerProofs` | `TypesHold`, `StatusesStayWellFormed`, `IndexesAgree`, `ContainersExclusive`, `HostsSound`, `PushSkipsNothing` | `StatusesWellFormed`, `IndexesExact`, `HostIndexSound`, `ChangedExact` |
| `ApplicationMasterProofs` | `AMImplementsStatusManager`, `AMTypesHold`, `AMKeepsStatusManager`, `AMForgetsNoRequest`, `AMDrivesTasks`, `AMDrivesGang`, `AMLaunchesWholeGangs`, `AMKeepsPortsSame`, `AMKeepsTasksApart`, `AMKeepsCompleted`, `AMReleasesNoneLive` | `ImplementsStatusManager`, `TypeOK`, `StatusesWellFormed`, `NoForgottenRequest`, `TasksDriven`, `GangDriven`, `GangLaunch`, `SamePortsEnsured`, `AntiAffinityEnsured` (until a restart), `CompletionPersists`, `ReleasedNotLive` |
| `LauncherServiceProofs` | `TypesHold`, `OneApplicationAtMost`, `RetriesAreCounted` | `TypeOK`, `OneApplication`, `RetriesCounted` |
| `LauncherRequestsProofs` | `TypesHold`, `MemoryIsStored`, `TotalIsExact`, `StopsReachChildren`, `RecoveryLeavesNoOrphans`, `ReusedStatusesCurrent`, `CollectsOnlyCompleted` | `TypeOK`, `RequestsConsistent`, `TotalExact`, `StopReachesChildren`, `RecoveredWithoutOrphans`, `ReusedStatusCurrent`, `OnlyCompletedCollected` |
| `LargeObjectProofs` | `TypesHold`, `LatestStaysComplete`, `LargeObjectIsAtomic` | `LatestComplete`, `ImplementsAtomicObject` |
| `ModelPushProofs` | `PublishedIsWhole`, `ModelsLostOnlyWhenCut`, `AcknowledgedBlocksKept` | `PublishedWhole`, `LostOnlyWhenCut`, `AcknowledgedKept` |
| `WorkspaceProofs` | `TypesHold`, `PulledIsWhole`, `WorkIsKept` | `PulledWhole`, `WorkKept` |
| `RestServerProofs` | `TypesHold`, `ContextStaysCurrent`, `PasswordsFollow` | `TypeOK`, `ContextCurrent`, `PasswordFollows` |

Assumptions are those the modules name and every run evaluates: bounds are naturals,
`None` (null in the code) is not one of the things it stands for the absence of, the
frameworks the Launcher may know are finitely many (their tasks are summed), and so are
the versions the hub has at first (a clone lists them), a directory of `Workspace` has
files of other names than those the client uses itself, and of the AM `MaxExceed >= 1`:
with 0 the first resync after a restart would release containers that are yet to be
allocated. No theorem assumes anything of the size of an instance.

Each proof has one inductive invariant, whose `Init`, step and consequence are three
lemmas; the step has one lemma for every action.

**StatusManager.** `IInv` is the conjunction of the six properties. None is inductive
alone: a transition removes a task from the set of its old state and its container
from the live index, which leaves them exact only if they were and if the status
named a container exactly in the associated states (`StatusesWellFormed`); a restart
gives the exclusive containers of memory and ZooKeeper a new mixture, roles that were
deleted left out, hence `ContainerExclusive` speaks of both copies at once; and `ChangedExact` makes the roles a
push skips the ones it may skip. The lemmas follow the code: `EdgeHasEffects` expands
`transitionTaskState` once into the effects of an edge, `Edge...` show what those do to
each conjunct, and one `...KeepsIInv` per method is cited by `NextIInv`.

**ApplicationMaster.** `AMInv` adds to `IInv` what a step of the queue's thread relies on
and somebody else established: `TodoSound` (each part that is left of the running task is
about tasks in the state it needs, which another part, a push or a callback must not
have changed, and the parts come in an order in which none spoils a later one),
`TimersSound` (a timeout finds its own request or none), `GrantsSound` (a container that was
granted and not yet handled is unknown to every task, told of once, and not
started) and `AsksSound`. From it follow the refinement of `SMSpec`, step by step (each of
the twenty handlers is an edge of `TaskState`, `AllocateFails`, a change of the task
numbers, a count of lost containers, or leaves the StatusManager alone), and with it all
that is proved of the StatusManager. The other theorems see the handlers through
four shapes only (`WorkerShapes`): an edge, a quiet step, a failed association, a change of
numbers; `OutsideShape` is what everything else does, which only adds to what is pending;
a restart starts over. On these rest

* `DrivenInv` for `TasksDriven`: every task that needs somebody is driven by something
  pending, and a resync is always pending or about to be queued. A step that takes a
  part away shows that what follows it drives the same tasks.
* `GangInv` and `LaunchInv`: a launch that was begun finds no task outstanding until its last
  part, for only a system task makes one outstanding and the thread runs one at a time;
  a round that begins queues its timeout, one that ends its launch.
* `SameInv`: the ports are the same in memory and on ZooKeeper each, since a restart takes a
  whole role from ZooKeeper, or nothing of it.
* `ApartInv`: while there was no restart, live tasks are on different hosts and every
  one of those hosts is in `liveAssociatedHostNames`. `AntiAffinityEnsured` itself is not an
  invariant of an AM that restarts (section 4, last part), so the theorem is
  `crashes = 0 => AntiAffinityEnsured`.
* `CompletedInv` for `CompletionPersists`: until a user acts, memory has a task as completed
  when ZooKeeper has, and no numbers that are queued remove one. A recovery keeps both of
  the roles it reads and takes both from those it deletes.
* `CountsInv` and `TakenInv` for `ReleasedNotLive`. Whatever is released, or is to be
  completed and released, is `Taken`: the AM has been told of its grant, so no callback
  will give it to a task again. What could break this is a resync that
  counts a container as exceeding before the callback of its grant is handled.
  `CountsInv` says it does not: there is one resync at a time (armed, queued or running), and
  for a grant behind it the count is below `MaxExceed`. It rests on the guard
  `HeartbeatInTime` of the resync timer, an assumption about the configuration of the AM: a
  heartbeat brings a grant before `MaxExceed` resyncs have passed.

**LauncherService.** `IInv`: what is saved is well formed and within its policy (`SavedSound`),
memory is what is saved or the process is down (`MemorySound`), what is queued or set up is
a snapshot that may still be launched (`TasksSound`), each application is submitted by one
thread, one queued task or the running one, and not counted before (`SubmittedOnce`), and what
is left of a task is one of a few sequences (`WorkSound`), after each of whose steps the process
may die.

**LauncherRequests.** `StopsSound`, `RecoverySound`, `PullerSound` and `VersionsSound` say what a call or
the thread that pulls still owes. A version that is new to all of them is
one that was never asked for; while the request keeps a version that was asked for once, the
Service that has seen it sees no other, so its completed status stays. That the total is exact
needs the sum over a finite set to be independent of its order: `SumIsCount` equates the fold of the community modules with
the cardinality of a set of units, by a minimal counterexample (`SmallestSubset`), since
induction with an operator parameter is not available. Type
correctness found an error of the model: where the deletion of an orphan writes although its
call fails, the model put STOP into the request as ZooKeeper had it, while the code writes
the request of memory, and the two differ when an earlier call failed in doubt (ZooKeeper
may not even have it); the model was corrected.

**LargeObject.** `WriterSound` and `ReaderSound` say what a thread has found that is still so if
nothing newer is ready. The refinement maps the value of the abstract object to the newest
version that is ready: a write takes effect when it makes its version the newest (never, if a
newer one was ready before), and a read at the moment it listed the version that is still
the newest when it checks.

**ModelPush.** `OneSound` of every push: the parts of a file have names of their own and hold
the blocks they are named for, but where `damaged` says otherwise (`DirSound`, `MergeSound`); a
commit that was checked has its files or is cut (`CommitSound`); blocks arrive where there is
a directory (`PushSound`); a model an entry of which is gone is being removed or its removal
was cut; an acknowledged block is in a part (`Acknowledged`). A merge takes the run
of blocks that follows its head: `RunEnds` and `UptoJoins` are what it relies on, for any number
of blocks.

**Workspace.** `WInv` has three parts. `WTypes`: directories hold things of their kind, and
the command that runs finds what it read before where it is about to use it (`PlacesThere`,
`CreateSound`, `StepsSound`). `FetchSound`: what a download has put into its directory, what
is still to be fetched, and later what has been installed and what has not, together are the
hub's model, if nobody published meanwhile; this is `PulledWhole` at the last step.
`WorkInv`, for `WorkKept`: while nothing is torn, every version but one is whole in its cache,
and that one (`Holder`, which follows from the command and the step it is at) is whole in the
directory (`KeptWith`), but while its files go from one place to the other (`Moving`: no entry
is in both, and together they are the version) or are copied for a new version (`Copying`).
Between two commands the holder is the version `project.json` names (`Settled`). So the
invariant has to say of every `project.json`, in the directory, in a cache, in what was
fetched and in the variables of a command, that it is of the version whose it is taken for
(`HubJsons`, `CacheJsons`, `StepJsons`): that is what keeps a switch from saving a model in
the cache of another version. `BegunSound` says a directory that was begun is not taken for
a fresh one. There is a lemma for each action in each of the three parts.

**RestServer.** Between two awaits a handler holds what its next step needs (`HandlerSound`);
a file that a submission no longer has to write is not older than it
(`WrittenCurrent`), and stays so because whoever wrote it was not answered before it began.

Only model-checked is liveness: `OrphansReleased`, `StopsWhenUndisturbed`,
`CompletedCollected`, `ReadsEnd`, `EventuallySatisfied`. They need fairness and ENABLED, which the proof system does not
support.

## 6. Not modelled

Within the modelled parts: choice of nodes, GPUs and ports, local resources, security
tokens, wording of diagnostics, access control, the read-only HTTP interfaces, the
three one-line updates of the LauncherRequest, the deletion of a large object while
it is in use; of the Service the files on HDFS and the nodes of task roles below a
status; of the hub logins and listings; of the client the blocks of a download, the
shell commands and the conversion; of the REST server listings, scripts and the
limits of resources.

Of the rest: see the notes of the components in `PROJECT.json`. The task queue and
the selection algorithms are planned; the web portal, converters, exporters, images
and configuration files keep no state a model could say anything about.

By lines, most of the repository's JavaScript is of that kind: copies of
libraries (`jquery.dataTables.js`, `bootstrap.js`, `selectize.js`, `wysiwyg*.js`) are
almost three quarters of it, and most of what remains draws pages of the portal. The parts
that decide what runs are written in Java and Go, and of the JavaScript it is the
model client and the REST server that keep state; those are what the models cover.
