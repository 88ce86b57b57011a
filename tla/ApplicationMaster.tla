------------------------- MODULE ApplicationMaster -------------------------
(***************************************************************************)
(* The Application Master of one framework: the handlers that run one      *)
(* after the other on the thread of its SystemTaskQueue, the delayed system *)
(* tasks, the push thread and the pull thread, with the YARN ResourceManager*)
(* and NodeManagers it talks to and the restarts of its own process.       *)
(*                                                                         *)
(* A handler makes several calls of the StatusManager.  The push thread may *)
(* take the StatusManager's lock between any two of them, and the process   *)
(* may die there, so each call is a step of its own: todo holds what the    *)
(* running system task still has to do.  Calls of the RM client only queue  *)
(* messages inside the process and go with the StatusManager call beside    *)
(* them.                                                                    *)
(***************************************************************************)
EXTENDS StatusManager, Sequences

CONSTANTS
    Gang, AntiAffinity,  \* gangAllocation, antiaffinityAllocation
    SamePort, PortsOf,   \* samePortAllocation, the ports of each container
    Fancy, MaxRetryCount,  \* TaskRetryPolicy, -1 and -2 as in the code
    MinFailed, MinSucceeded,  \* ApplicationCompletionPolicy, None when not set
    MaxLost,             \* containerConnectionMaxLostCount
    MaxExceed,           \* containerConnectionMaxExceedCount
    Numbers,             \* task numbers a user asks for: a set of functions
    Exits,               \* how containers exit by themselves
    Faults,              \* which faults of the environment happen
    MaxQueue,            \* bound: events wait outside while the queue is this long
    MaxCrashes,          \* bound: restarts of the AM process
    MaxUserOps           \* bound: changes of task numbers and task migrations

ASSUME ApplicationMasterAssumption ==
    /\ Gang \in BOOLEAN /\ AntiAffinity \in BOOLEAN
    /\ SamePort \in BOOLEAN /\ Fancy \in BOOLEAN
    /\ MaxRetryCount \in Int /\ MaxRetryCount >= -2 /\ MaxRetryCount <= MaxRetried
    /\ MinFailed \in Nat \cup { None } /\ MinSucceeded \in Nat \cup { None }
    /\ MaxLost \in Nat /\ MaxExceed \in Nat \ { 0 } /\ MaxQueue \in Nat \ { 0 }
    /\ Numbers \subseteq [ Roles -> 0 .. MaxTasks ]
    /\ Exits \subseteq ExitTypes
    /\ Faults \subseteq { "setup", "associate", "start", "expire",
                          "unreachable", "incomplete", "reinitialize" }
    /\ MaxCrashes \in Nat /\ MaxUserOps \in Nat

VARIABLES
    phase,      \* "running", "stopping", "unregistering" or "finished"
    queue,      \* submitted system tasks, in order
    todo,       \* what is left of the running system task
    timers,     \* delayed system tasks
    exceed,     \* containerConnectionExceedCount
    numbers,    \* the task numbers last pulled from the FrameworkRequest
    migrate,    \* MigrateTaskRequests on ZooKeeper
    notified,   \* those already handed to the AM in this attempt
    container,  \* RM: container -> "free", "granted", "running" or "done"
    asks,       \* RM: priorities of outstanding container requests
    releasing,  \* release messages on their way to the RM
    starting,   \* start requests on their way to the NMs
    inbox,      \* callbacks of RM and NM not yet delivered
    crashes, userOps

amVars  == << phase, queue, todo, timers, exceed, numbers, migrate, notified >>
envVars == << container, asks, releasing, starting, inbox >>
cntVars == << crashes, userOps >>
vars    == << smVars, amVars, envVars, cntVars >>

-----------------------------------------------------------------------------
(* System tasks, and the parts a running one is left with *)

Plain(op)         == [ op |-> op ]
OnContainer(op, c) == [ op |-> op, container |-> c ]
\* completeContainer(c, exit, release); why tells a migration from the rest.
Completion(c, exit, release, why) ==
    [ op |-> "Complete", container |-> c, exit |-> exit, release |-> release, why |-> why ]
Allocation(c, p)  == [ op |-> "Allocate", container |-> c, priority |-> p ]
TimeoutOf(p, t)   == [ op |-> "Timeout", priority |-> p, task |-> t ]
AgainFor(t)       == [ op |-> "Again", task |-> t, status |-> taskStatus[t] ]
GangTimeout(n)    == [ op |-> "GangTimeout", round |-> n ]
NumbersTo(n)      == [ op |-> "Numbers", numbers |-> n ]
ForEach(op, s)    == IF s = {} THEN <<>> ELSE << [ op |-> op, all |-> s ] >>

Elements(s) == { s[i] : i \in DOMAIN s }
Pending     == Elements(queue) \cup Elements(todo) \cup timers

HasWork == phase = "running" /\ (todo # <<>> \/ queue # <<>>)
Work    == IF todo # <<>> THEN Head(todo) ELSE Head(queue)
Doing(op) == HasWork /\ Work.op = op

\* The system task goes on with then; submitted goes to the end of the queue.
Proceed(then, submitted) ==
    /\ todo'  = then \o (IF todo # <<>> THEN Tail(todo) ELSE <<>>)
    /\ queue' = (IF todo # <<>> THEN queue ELSE Tail(queue)) \o submitted

\* A delayed system task that would find its request gone, or its round over,
\* does nothing: it is forgotten at once.
Armed(delayed) ==
    { d \in delayed :
        /\ d.op = "Timeout"     => priorityLocators'[d.priority] # None
        /\ d.op = "GangTimeout" => d.round = round' }

\* The callbacks onOutstandingTaskDisappeared and onOutstandingTaskAppeared of
\* a step of the StatusManager, with the delayed tasks the handler adds.
ProceedWithCallbacks(then, recover, delayed) ==
    /\ Proceed(then, IF Gang /\ Disappears(recover) THEN << Plain("LaunchAll") >> ELSE <<>>)
    /\ timers' = Armed(timers \cup delayed \cup
           IF Gang /\ Appears(recover) THEN { GangTimeout(round) } ELSE {})

Transit(t, dst, event, then, delayed) ==
    /\ TransitionTaskState(t, dst, event)
    /\ ProceedWithCallbacks(then, FALSE, delayed)

Ignore ==
    /\ Proceed(<<>>, <<>>)
    /\ UNCHANGED << smVars, timers >>

quietVars == << numbers, notified, container, inbox, cntVars >>

-----------------------------------------------------------------------------
(* addContainerRequest *)

WaitingTasks == taskStateLocators["TASK_WAITING"]

DoAllWaiting ==
    /\ Doing("AllWaiting")
    /\ Proceed(ForEach("Request", WaitingTasks), <<>>)
    /\ UNCHANGED << smVars, timers, phase, exceed, migrate, asks, releasing, starting, quietVars >>

\* The tasks are sorted by index.
NextToRequest == { t \in Work.all : \A u \in Work.all : t[2] <= u[2] }

\* Mutation of DoRequest: a request that cannot be set up is not tried again.
DoRequestGivingUp ==
    /\ Doing("Request")
    /\ \E t \in NextToRequest :
          LET rest == ForEach("Request", Work.all \ { t }) IN
          \/ /\ nextPriority < MaxRequests
             /\ asks' = asks \cup { nextPriority }
             /\ Transit(t, "CONTAINER_REQUESTED", NoEvent, rest, { TimeoutOf(nextPriority, t) })
          \/ /\ "setup" \in Faults
             /\ Proceed(rest, <<>>)
             /\ UNCHANGED << smVars, asks, timers >>
    /\ UNCHANGED << phase, exceed, migrate, releasing, starting, quietVars >>

DoRequest ==
    /\ Doing("Request")
    /\ \E t \in NextToRequest :
          LET rest == ForEach("Request", Work.all \ { t }) IN
          \/ /\ nextPriority < MaxRequests
             /\ asks' = asks \cup { nextPriority }
             /\ Transit(t, "CONTAINER_REQUESTED", NoEvent, rest, { TimeoutOf(nextPriority, t) })
          \/ /\ "setup" \in Faults
             /\ timers' = timers \cup { AgainFor(t) }
             /\ Proceed(rest, <<>>)
             /\ UNCHANGED << smVars, asks >>
    /\ UNCHANGED << phase, exceed, migrate, releasing, starting, quietVars >>

\* The request setup that was not available is tried again on an equal status.
DoAgain ==
    /\ Doing("Again")
    /\ IF taskStatus[Work.task] = Work.status
       THEN Proceed(ForEach("Request", { Work.task }), <<>>)
       ELSE Proceed(<<>>, <<>>)
    /\ UNCHANGED << smVars, timers, phase, exceed, migrate, asks, releasing, starting, quietVars >>

RequestsOf(ts) == { containerRequests[t] : t \in ts }

DoTimeout ==
    /\ Doing("Timeout")
    /\ IF priorityLocators[Work.priority] # None
       THEN /\ asks' = asks \ RequestsOf({ Work.task })
            /\ Transit(Work.task, "TASK_WAITING", NoEvent,
                       ForEach("Request", { Work.task }), {})
       ELSE Ignore /\ UNCHANGED asks
    /\ UNCHANGED << phase, exceed, migrate, releasing, starting, quietVars >>

-----------------------------------------------------------------------------
(* allocateContainer, launchContainer and the callbacks of the NM *)

TestContainerNode(c) == AntiAffinity => ~IsHostLiveAssociated(HostOf[c])

\* Mutation of TestContainerPorts: only the running tasks are compared with.
TestContainerPortsOfRunning(c, r) ==
    LET live == { u \in TasksIn({ "CONTAINER_RUNNING" }) : u[1] = r }
    IN  SamePort /\ live # {} =>
            \E u \in live : PortsOf[c] = PortsOf[taskStatus[u].container]

\* getAnyLiveAssociatedContainerPorts takes the first of an unordered list.
TestContainerPorts(c, r) ==
    LET live == { u \in TasksIn(LIVE_STATES) : u[1] = r }
    IN  SamePort /\ live # {} =>
            \E u \in live : PortsOf[c] = PortsOf[taskStatus[u].container]

\* Mutation of TestContainer: what the RM allocates is not tested.
TestContainerSkipped(c, r) == TRUE

TestContainer(c, r) == TestContainerNode(c) /\ TestContainerPorts(c, r)

DoAllocate ==
    /\ Doing("Allocate")
    /\ LET c == Work.container
           p == Work.priority
           t == priorityLocators[p]
       IN  IF t = None
           THEN /\ releasing' = releasing \cup { c }
                /\ Ignore
                /\ UNCHANGED << exceed, asks >>
           ELSE
           /\ asks' = asks \ { p }
           /\ \/ /\ ~TestContainer(c, t[1])
                 /\ releasing' = releasing \cup { c }
                 /\ Transit(t, "TASK_WAITING", NoEvent, ForEach("Request", { t }), {})
                 /\ UNCHANGED exceed
              \/ /\ TestContainer(c, t[1])
                 /\ Transit(t, "CONTAINER_ALLOCATED", [ NoEvent EXCEPT !.container = c ],
                            IF Gang THEN <<>> ELSE ForEach("Launch", { t }), {})
                 /\ exceed' = [ exceed EXCEPT ![c] = 0 ]
                 /\ UNCHANGED releasing
              \/ /\ TestContainer(c, t[1])
                 /\ "associate" \in Faults
                 /\ FailToAssociate(t)
                 /\ Proceed(ForEach("Withdraw", { t }), <<>>)
                 /\ timers' = Armed(timers)
                 /\ releasing' = releasing \cup { c }
                 /\ UNCHANGED exceed
    /\ UNCHANGED << phase, migrate, starting, quietVars >>

\* Mutation of DoWithdraw: the request is not made again.
DoWithdrawOnly ==
    /\ Doing("Withdraw")
    /\ \E t \in Work.all : Transit(t, "TASK_WAITING", NoEvent, <<>>, {})
    /\ UNCHANGED << phase, exceed, migrate, asks, releasing, starting, quietVars >>

\* The task whose association failed goes back to TASK_WAITING.
DoWithdraw ==
    /\ Doing("Withdraw")
    /\ \E t \in Work.all :
          Transit(t, "TASK_WAITING", NoEvent, ForEach("Request", { t }), {})
    /\ UNCHANGED << phase, exceed, migrate, asks, releasing, starting, quietVars >>

DoLaunch ==
    /\ Doing("Launch")
    /\ \E t \in Work.all :
          /\ starting' = starting \cup { allocated[t] }
          /\ Transit(t, "CONTAINER_LAUNCHED", NoEvent,
                     ForEach("Launch", Work.all \ { t }), {})
    /\ UNCHANGED << phase, exceed, migrate, asks, releasing, quietVars >>

\* Mutation of DoLaunchAll: a task may have become outstanding again.
DoLaunchAllUnchecked ==
    /\ Doing("LaunchAll")
    /\ Proceed(ForEach("Launch", taskStateLocators["CONTAINER_ALLOCATED"]), <<>>)
    /\ UNCHANGED << smVars, timers, phase, exceed, migrate, asks, releasing, starting, quietVars >>

\* The system task of onOutstandingTaskDisappeared.
DoLaunchAll ==
    /\ Doing("LaunchAll")
    /\ Proceed(IF Outstanding = {}
               THEN ForEach("Launch", taskStateLocators["CONTAINER_ALLOCATED"])
               ELSE <<>>, <<>>)
    /\ UNCHANGED << smVars, timers, phase, exceed, migrate, asks, releasing, starting, quietVars >>

\* The system task of onOutstandingTaskAppeared; stopping unregisters the AM.
DoGangTimeout ==
    /\ Doing("GangTimeout")
    /\ Ignore
    /\ phase' = IF Work.round = round /\ Outstanding # {} THEN "stopping" ELSE phase
    /\ UNCHANGED << exceed, migrate, asks, releasing, starting, quietVars >>

DoStarted ==
    /\ Doing("Started")
    /\ IF IsLiveAssociated(Work.container)
       THEN Transit(liveLocators[Work.container], "CONTAINER_RUNNING", NoEvent, <<>>, {})
       ELSE Ignore
    /\ UNCHANGED << phase, exceed, migrate, asks, releasing, starting, quietVars >>

DoStartFailed ==
    /\ Doing("StartFailed")
    /\ Proceed(IF IsLiveAssociated(Work.container)
               THEN << Completion(Work.container, "TRANSIENT_NORMAL", TRUE, "start") >>
               ELSE <<>>, <<>>)
    /\ UNCHANGED << smVars, timers, phase, exceed, migrate, asks, releasing, starting, quietVars >>

-----------------------------------------------------------------------------
(* completeContainer, attemptToRetry, attemptToStop *)

DoComplete ==
    /\ Doing("Complete")
    /\ releasing' = IF Work.release THEN releasing \cup { Work.container } ELSE releasing
    /\ migrate' = IF Work.why = "migrate" THEN migrate \ { Work.container } ELSE migrate
    /\ LET t == liveLocators[Work.container] IN
       IF t = None THEN Ignore
       ELSE Transit(t, "CONTAINER_COMPLETED", [ NoEvent EXCEPT !.exit = Work.exit ],
                    ForEach("Retry", { t }), {})
    /\ UNCHANGED << phase, exceed, asks, starting, quietVars >>

\* Mutation of DoRetryAll: tasks whose container is live are retried as well.
DoRetryAllAssociated ==
    /\ Doing("RetryAll")
    /\ Proceed(ForEach("Retry", TasksIn(ASSOCIATED_STATES \ FINAL_STATES)), <<>>)
    /\ UNCHANGED << smVars, timers, phase, exceed, migrate, asks, releasing, starting, quietVars >>

DoRetryAll ==
    /\ Doing("RetryAll")
    /\ Proceed(ForEach("Retry", taskStateLocators["CONTAINER_COMPLETED"]), <<>>)
    /\ UNCHANGED << smVars, timers, phase, exceed, migrate, asks, releasing, starting, quietVars >>

TRANSIENT == { "TRANSIENT_NORMAL", "TRANSIENT_CONFLICT" }

FancyRetries(s)   == Fancy /\ s.exit \in TRANSIENT
FancyCompletes(s) == Fancy /\ s.exit = "NON_TRANSIENT"
NormalRetries(s)  ==
    \/ MaxRetryCount = -2
    \/ s.exit # "SUCCEEDED" /\ (MaxRetryCount = -1 \/ s.retried < MaxRetryCount)

\* Mutation of CompletionReached: only the configured policy is looked at.
CompletionReachedByPolicy(t) ==
    \/ /\ taskStatus[t].exit # "SUCCEEDED" /\ MinFailed # None
       /\ MinFailed <= Cardinality(FailedTasks(t[1]))
    \/ /\ taskStatus[t].exit = "SUCCEEDED" /\ MinSucceeded # None
       /\ MinSucceeded <= Cardinality(SucceededTasks(t[1]))

\* attemptToStop(t) after the transition of t to TASK_COMPLETED.
CompletionReached(t) ==
    \/ /\ taskStatus[t].exit # "SUCCEEDED" /\ MinFailed # None
       /\ MinFailed <= Cardinality(FailedTasks(t[1]))
    \/ /\ taskStatus[t].exit = "SUCCEEDED" /\ MinSucceeded # None
       /\ MinSucceeded <= Cardinality(SucceededTasks(t[1]))
    \/ IsAllTaskInFinalState

DoRetry ==
    /\ Doing("Retry")
    /\ \E t \in Work.all :
          LET s    == taskStatus[t]
              rest == ForEach("Retry", Work.all \ { t })
              retry(count) ==
                  Transit(t, "TASK_WAITING", [ NoEvent EXCEPT !.retried = count ],
                          ForEach("Request", { t }) \o rest, {})
          IN  IF FancyRetries(s) THEN retry(s.retried) /\ UNCHANGED phase
              ELSE IF ~FancyCompletes(s) /\ NormalRetries(s)
              THEN /\ s.retried < MaxRetried
                   /\ retry(s.retried + 1)
                   /\ UNCHANGED phase
              ELSE /\ Transit(t, "TASK_COMPLETED", NoEvent, rest, {})
                   /\ phase' = IF CompletionReached(t)' THEN "stopping" ELSE phase
    /\ UNCHANGED << exceed, migrate, asks, releasing, starting, quietVars >>

-----------------------------------------------------------------------------
(* onTaskNumbersUpdated, with onTaskToRemove of every removed task *)

ContainersOf(ts) == { c \in Containers : liveLocators[c] \in ts }

\* Mutation of DoNumbers: the requests of the removed tasks stay with the RM.
DoNumbersKeepingRequests ==
    /\ Doing("Numbers")
    /\ UpdateTaskNumbers(Work.numbers)
    /\ releasing' = releasing \cup ContainersOf(Removed(Work.numbers))
    /\ ProceedWithCallbacks(<< Plain("AllWaiting") >>, ~triggered, {})
    /\ UNCHANGED << phase, exceed, asks, migrate, starting, quietVars >>

DoNumbers ==
    /\ Doing("Numbers")
    /\ LET gone == Removed(Work.numbers) IN
       /\ UpdateTaskNumbers(Work.numbers)
       /\ releasing' = releasing \cup ContainersOf(gone)
       /\ asks' = asks \ RequestsOf(gone)
    /\ ProceedWithCallbacks(<< Plain("AllWaiting") >>, ~triggered, {})
    /\ UNCHANGED << phase, exceed, migrate, starting, quietVars >>

-----------------------------------------------------------------------------
(* RMResyncHandler *)

AliveContainers == { c \in Containers : container[c] \in { "granted", "running" } }

\* The RM cannot be asked: no container is counted as lost around this time.
DoResyncFails ==
    /\ Doing("Resync") /\ "unreachable" \in Faults
    /\ ResetLostCount(LiveAssociatedContainers)
    /\ Proceed(<<>>, <<>>)
    /\ timers' = timers \cup { Plain("Resync") }
    /\ UNCHANGED << phase, exceed, migrate, asks, releasing, starting, quietVars >>

\* An RM that has just restarted may not yet know every container.
DoResync ==
    /\ Doing("Resync")
    /\ \E live \in IF "incomplete" \in Faults THEN SUBSET AliveContainers
                   ELSE { AliveContainers } :
          Proceed(ForEach("Seen", live)
                  \o ForEach("Missing", LiveAssociatedContainers \ live)
                  \o << Plain("QueueResync") >>, <<>>)
    /\ UNCHANGED << smVars, timers, phase, exceed, migrate, asks, releasing, starting, quietVars >>

\* Mutation of DoSeen: a container without a live task is none of its business.
DoSeenIgnoringOthers ==
    /\ Doing("Seen")
    /\ ResetLostCount(Work.all \cap LiveAssociatedContainers)
    /\ Proceed(<<>>, <<>>)
    /\ UNCHANGED << timers, phase, exceed, migrate, asks, releasing, starting, quietVars >>

\* Mutation of DoSeen: the count goes on after the container is released.
DoSeenCountingOn ==
    /\ Doing("Seen")
    /\ \E c \in Work.all :
          LET rest == ForEach("Seen", Work.all \ { c }) IN
          IF IsLiveAssociated(c)
          THEN ResetLostCount({ c }) /\ Proceed(rest, <<>>) /\ UNCHANGED exceed
          ELSE /\ exceed' = [ exceed EXCEPT ![c] = @ + 1 ]
               /\ Proceed((IF exceed[c] + 1 > MaxExceed
                           THEN << Completion(c, "NON_TRANSIENT", TRUE, "exceed") >>
                           ELSE <<>>) \o rest, <<>>)
               /\ UNCHANGED smVars
    /\ UNCHANGED << timers, phase, migrate, asks, releasing, starting, quietVars >>

DoSeen ==
    /\ Doing("Seen")
    /\ \E c \in Work.all :
          LET rest == ForEach("Seen", Work.all \ { c }) IN
          IF IsLiveAssociated(c)
          THEN ResetLostCount({ c }) /\ Proceed(rest, <<>>) /\ UNCHANGED exceed
          ELSE /\ IF exceed[c] + 1 > MaxExceed
                  THEN /\ exceed' = [ exceed EXCEPT ![c] = 0 ]
                       /\ Proceed(<< Completion(c, "NON_TRANSIENT", TRUE, "exceed") >> \o rest,
                                  <<>>)
                  ELSE /\ exceed' = [ exceed EXCEPT ![c] = @ + 1 ]
                       /\ Proceed(rest, <<>>)
               /\ UNCHANGED smVars
    /\ UNCHANGED << timers, phase, migrate, asks, releasing, starting, quietVars >>

\* Mutation of DoMissing: the lost container is released before it is completed.
DoMissingReleasesFirst ==
    /\ Doing("Missing")
    /\ \E c \in Work.all :
          LET rest == ForEach("Missing", Work.all \ { c }) IN
          /\ taskStatus[liveLocators[c]].lost < LostBound
          /\ IncreaseLostCount(c)
          /\ releasing' = IF taskStatus[liveLocators[c]].lost + 1 > MaxLost
                          THEN releasing \cup { c } ELSE releasing
          /\ Proceed(rest, <<>>)
    /\ UNCHANGED << timers, phase, exceed, migrate, asks, starting, quietVars >>

DoMissing ==
    /\ Doing("Missing")
    /\ \E c \in Work.all :
          LET rest == ForEach("Missing", Work.all \ { c }) IN
          /\ taskStatus[liveLocators[c]].lost < LostBound
          /\ IncreaseLostCount(c)
          /\ Proceed(IF taskStatus[liveLocators[c]].lost + 1 > MaxLost
                     THEN << Completion(c, "TRANSIENT_NORMAL", TRUE, "lost") >> \o rest
                     ELSE rest, <<>>)
    /\ UNCHANGED << timers, phase, exceed, migrate, asks, releasing, starting, quietVars >>

\* The next resync is delayed from the end of this one.
DoQueueResync ==
    /\ Doing("QueueResync")
    /\ timers' = timers \cup { Plain("Resync") }
    /\ Proceed(<<>>, <<>>)
    /\ UNCHANGED << smVars, phase, exceed, migrate, asks, releasing, starting, quietVars >>

WorkerStep ==
    \/ DoAllWaiting \/ DoRequest \/ DoAgain \/ DoTimeout
    \/ DoAllocate \/ DoWithdraw \/ DoLaunch \/ DoLaunchAll \/ DoGangTimeout
    \/ DoStarted \/ DoStartFailed
    \/ DoComplete \/ DoRetryAll \/ DoRetry
    \/ DoNumbers
    \/ DoResyncFails \/ DoResync \/ DoSeen \/ DoMissing \/ DoQueueResync

-----------------------------------------------------------------------------
(* The queue: delayed system tasks, callbacks, and the pull thread *)

HasRoom == phase = "running" /\ Len(queue) < MaxQueue

\* The AM is configured so that a heartbeat brings onContainersAllocated before
\* MaxExceed resyncs, one at least, have counted the container as exceeding.
HeartbeatInTime ==
    \A n \in inbox : n.op = "Allocate" => exceed[n.container] < MaxExceed

Fire(d) ==
    /\ HasRoom
    /\ d \in timers
    /\ d = Plain("Resync") => HeartbeatInTime
    /\ timers' = timers \ { d }
    /\ queue' = Append(queue, d)
    /\ UNCHANGED << smVars, phase, todo, exceed, numbers, migrate, notified, envVars, cntVars >>

Deliver(c) ==
    /\ HasRoom
    /\ \E n \in inbox :
          /\ n.container = c
          /\ inbox' = inbox \ { n }
          /\ queue' = Append(queue, n)
    /\ UNCHANGED << smVars, phase, todo, timers, exceed, numbers, migrate, notified,
                    container, asks, releasing, starting, cntVars >>

\* A user changes the task numbers and the AM pulls the FrameworkRequest.
PullNumbers ==
    /\ HasRoom /\ userOps < MaxUserOps
    /\ \E n \in Numbers \ { numbers } :
          /\ numbers' = n
          /\ queue' = Append(queue, NumbersTo(n))
    /\ userOps' = userOps + 1
    /\ UNCHANGED << smVars, phase, todo, timers, exceed, migrate, notified, envVars, crashes >>

\* A user, who sees the statuses on ZooKeeper, asks to migrate a live task.
AskMigrate ==
    /\ userOps < MaxUserOps /\ phase # "finished"
    /\ \E t \in Locators :
          /\ zkStatus[t].state \in LIVE_STATES
          /\ zkStatus[t].container \notin migrate
          /\ migrate' = migrate \cup { zkStatus[t].container }
    /\ userOps' = userOps + 1
    /\ UNCHANGED << smVars, phase, queue, todo, timers, exceed, numbers, notified,
                    envVars, crashes >>

\* updateMigrateTaskRequests hands over what was not in the map pulled before.
PullMigrate ==
    /\ HasRoom /\ migrate # notified
    /\ notified' = migrate
    /\ \E new \in { s \in [ 1 .. Cardinality(migrate \ notified) -> migrate \ notified ] :
                       Elements(s) = migrate \ notified } :
          queue' = queue \o [ i \in DOMAIN new |->
              Completion(new[i], "TRANSIENT_NORMAL", TRUE, "migrate") ]
    /\ UNCHANGED << smVars, phase, todo, timers, exceed, numbers, migrate, envVars, cntVars >>

-----------------------------------------------------------------------------
(* The push thread, stop, and restart *)

Push ==
    /\ phase = "running"
    /\ ChangedRoles # {}
    /\ PushStatus(ChangedRoles)
    /\ UNCHANGED << amVars, envVars, cntVars >>

\* rollbackStatus: a live container no reader of ZooKeeper will know of.
RolledBack ==
    { taskStatus[t].container : t \in { u \in Locators :
        /\ u[1] \in ChangedRoles'
        /\ taskStatus[u].state \in LIVE_STATES
        /\ zkStatus'[u].state \notin LIVE_STATES } }

\* stop pushes for the last time before the AM unregisters from the RM.
StopPush ==
    /\ phase = "stopping"
    /\ phase' = "unregistering"
    /\ \E rs \in SUBSET ChangedRoles :
          /\ PushStatus(rs)
          /\ releasing' = IF rs = ChangedRoles THEN releasing ELSE releasing \cup RolledBack
    /\ UNCHANGED << queue, todo, timers, exceed, numbers, migrate, notified,
                    container, asks, starting, inbox, cntVars >>

\* The RM ends the application with all its containers.
Unregister ==
    /\ phase = "unregistering"
    /\ phase' = "finished"
    /\ container' = [ c \in Containers |->
           IF container[c] = "free" THEN "free" ELSE "done" ]
    /\ asks' = {} /\ releasing' = {} /\ starting' = {} /\ inbox' = {}
    /\ UNCHANGED << smVars, queue, todo, timers, exceed, numbers, migrate, notified, cntVars >>

StartupQueue(n) == << Plain("AllWaiting"), Plain("RetryAll"), NumbersTo(n) >>

Notices == { n \in inbox : n.op = "Complete" }

\* The roles of which a recovery deletes the statuses.
Unreadable == IF "reinitialize" \in Faults THEN SUBSET Roles ELSE { {} }

\* The process dies and the RM starts another attempt, which keeps the running
\* containers.  Messages inside the process are lost; completions the RM had not
\* handed over go to the new attempt, one possibly before its queue is set up.
CrashAndRestart ==
    /\ phase # "finished" /\ crashes < MaxCrashes
    /\ crashes' = crashes + 1
    /\ \E rs \in SUBSET ChangedRoles, lost \in Unreadable : Recover(rs, lost)
    /\ phase' = "running"
    /\ \E kept \in { {}, Notices } :
          \E early \in { <<>> } \cup { << n >> : n \in kept } :
             /\ inbox' = kept \ Elements(early)
             /\ queue' = early \o StartupQueue(numbers)
    /\ todo' = <<>>
    /\ timers' = { Plain("Resync") }
    /\ exceed' = [ c \in Containers |-> 0 ]
    /\ notified' = {}
    /\ container' = [ c \in Containers |->
           IF container[c] = "granted" THEN "done" ELSE container[c] ]
    /\ asks' = {} /\ releasing' = {} /\ starting' = {}
    /\ UNCHANGED << numbers, migrate, userOps >>

-----------------------------------------------------------------------------
(* External: the ResourceManager and the NodeManagers *)

SetContainer(c, state) == container' = [ container EXCEPT ![c] = state ]
Tell(n) == inbox' = inbox \cup { n }
Ends(c, exit) ==
    /\ SetContainer(c, "done")
    /\ Tell(Completion(c, exit, FALSE, "completed"))

Grant ==
    /\ phase # "finished"
    /\ \E p \in asks, c \in Containers :
          /\ container[c] = "free"
          /\ SetContainer(c, "granted")
          /\ asks' = asks \ { p }
          /\ Tell(Allocation(c, p))
    /\ UNCHANGED << smVars, amVars, releasing, starting, cntVars >>

Release ==
    /\ \E c \in releasing :
          /\ releasing' = releasing \ { c }
          /\ IF c \in AliveContainers THEN Ends(c, "TRANSIENT_NORMAL")
             ELSE UNCHANGED << container, inbox >>
    /\ UNCHANGED << smVars, amVars, asks, starting, cntVars >>

StartOnNode ==
    /\ \E c \in starting :
          /\ starting' = starting \ { c }
          /\ \/ /\ container[c] = "granted"
                /\ SetContainer(c, "running")
                /\ Tell(OnContainer("Started", c))
             \/ /\ container[c] # "granted" \/ "start" \in Faults
                /\ Tell(OnContainer("StartFailed", c))
                /\ UNCHANGED container
    /\ UNCHANGED << smVars, amVars, asks, releasing, cntVars >>

Exit ==
    /\ \E c \in Containers, exit \in Exits :
          container[c] = "running" /\ Ends(c, exit)
    /\ UNCHANGED << smVars, amVars, asks, releasing, starting, cntVars >>

\* A granted container that is not started in time expires.
Expire ==
    /\ "expire" \in Faults
    /\ \E c \in Containers :
          container[c] = "granted" /\ Ends(c, "TRANSIENT_CONFLICT")
    /\ UNCHANGED << smVars, amVars, asks, releasing, starting, cntVars >>

-----------------------------------------------------------------------------

Init ==
    /\ SMInit
    /\ phase = "running"
    /\ numbers \in Numbers
    /\ queue = StartupQueue(numbers)
    /\ todo = <<>>
    /\ timers = { Plain("Resync") }
    /\ exceed = [ c \in Containers |-> 0 ]
    /\ migrate = {} /\ notified = {}
    /\ container = [ c \in Containers |-> "free" ]
    /\ asks = {} /\ releasing = {} /\ starting = {} /\ inbox = {}
    /\ crashes = 0 /\ userOps = 0

Next ==
    \/ WorkerStep
    \/ \E d \in timers : Fire(d)
    \/ \E c \in Containers : Deliver(c)
    \/ PullNumbers \/ AskMigrate \/ PullMigrate
    \/ Push \/ StopPush \/ Unregister \/ CrashAndRestart
    \/ Grant \/ Release \/ StartOnNode \/ Exit \/ Expire

Spec == Init /\ [][Next]_vars

\* The queue's thread runs what is queued, callbacks and the resync timer reach
\* the queue (again and again there is room for them), a process that stops goes
\* on stopping, the RM acts on a release.  Nothing else has to happen.
Fairness ==
    /\ WF_vars(WorkerStep)
    /\ SF_vars(Fire(Plain("Resync")))
    /\ \A c \in Containers : SF_vars(Deliver(c))
    /\ WF_vars(StopPush) /\ WF_vars(Unregister)
    /\ WF_vars(Release)

FairSpec == Spec /\ Fairness

-----------------------------------------------------------------------------
(* Properties *)

\* Every variable of the AM and of its environment holds values of its type; the
\* system tasks refer to tasks, containers and requests that can exist.
TypeOK ==
    /\ SMTypeOK
    /\ phase \in { "running", "stopping", "unregistering", "finished" }
    /\ \A i \in Pending \cup inbox :
          /\ "container" \in DOMAIN i => i.container \in Containers
          /\ "priority" \in DOMAIN i => i.priority \in Priorities
          /\ "task" \in DOMAIN i => i.task \in Locators
          /\ "all" \in DOMAIN i => i.all # {} /\ i.all \subseteq Locators \cup Containers
    /\ exceed \in [ Containers -> 0 .. MaxExceed ]
    /\ numbers \in Numbers
    /\ migrate \subseteq Containers /\ notified \subseteq Containers
    /\ container \in [ Containers -> { "free", "granted", "running", "done" } ]
    /\ asks \subseteq Priorities
    /\ releasing \subseteq Containers /\ starting \subseteq Containers
    /\ crashes \in 0 .. MaxCrashes /\ userOps \in 0 .. MaxUserOps

\* Every step of the AM is a method of the StatusManager called with its asserts
\* satisfied, along an edge listed at TaskState, or leaves the StatusManager
\* alone: the AM never fires an assert, whatever callback comes when.  This is SMSpec
\* with its stuttering steps taken out first, which most steps of the AM are.
ImplementsStatusManager == SMInit /\ [][smVars' # smVars /\ SMNext]_smVars

Has(op, t)  == \E i \in Elements(todo) : i.op = op /\ t \in i.all
Waits(op)   == \E i \in Pending : i.op = op

\* Somebody will move a task on.  recoverTransitionTaskStateQueue claims this of
\* the tasks after a restart; it has to hold of every task at every moment.
Driven(t) ==
    CASE taskStatus[t].state = "TASK_WAITING" ->
            \/ Has("Request", t) \/ Waits("AllWaiting") \/ AgainFor(t) \in Pending
      [] taskStatus[t].state = "CONTAINER_REQUESTED" ->
            IF containerRequests[t] = None THEN Has("Withdraw", t)
            ELSE TimeoutOf(containerRequests[t], t) \in Pending
      [] taskStatus[t].state = "CONTAINER_ALLOCATED" ->
            Has("Launch", t) \/ (Gang /\ (Waits("Resync") \/ Waits("QueueResync")))
      [] taskStatus[t].state \in { "CONTAINER_LAUNCHED", "CONTAINER_RUNNING" } ->
            Waits("Resync") \/ Waits("QueueResync")
      [] taskStatus[t].state = "CONTAINER_COMPLETED" ->
            Has("Retry", t) \/ Waits("RetryAll")
      [] OTHER -> TRUE

TasksDriven == phase = "running" => \A t \in AllTasks : Driven(t)

\* Under gang allocation, tasks that are all allocated are going to be launched,
\* and as long as one is outstanding its round is going to time out: the gang
\* neither waits forever nor is left half launched.
GangDriven ==
    Gang /\ phase = "running" =>
        /\ Outstanding = {} /\ ~Waits("Numbers") =>
              \A t \in taskStateLocators["CONTAINER_ALLOCATED"] :
                  Has("Launch", t) \/ Waits("LaunchAll")
        /\ Outstanding # {} => GangTimeout(round) \in Pending \/ Waits("Numbers")

\* All or nothing: a container is launched only when no task is outstanding.
GangLaunch ==
    [][ \A t \in Locators :
          Gang /\ taskStatus[t].state = "CONTAINER_ALLOCATED"
               /\ taskStatus'[t].state = "CONTAINER_LAUNCHED" => Outstanding = {} ]_vars

\* The RM holds no request of the AM that the AM no longer tracks: a request that
\* was satisfied otherwise, timed out, or whose task was removed is withdrawn.
NoForgottenRequest ==
    phase # "finished" =>
        \A p \in asks : priorityLocators[p] # None /\ containerRequests[priorityLocators[p]] = p

\* A container on its way to be released is not associated with a live task,
\* nor can it become so later: no task runs in a container being taken away.
ReleasedNotLive ==
    phase = "running" => \A c \in releasing : ~IsLiveAssociated(c)

\* antiaffinityAllocation ensures that different tasks run on different nodes:
\* no host runs the containers of two tasks.
AntiAffinityEnsured ==
    AntiAffinity =>
        \A c, d \in LiveAssociatedContainers \cap AliveContainers :
            c # d => HostOf[c] # HostOf[d]

\* samePortAllocation keeps the ports of all live tasks of a role the same.
SamePortsEnsured ==
    SamePort =>
        \A c, d \in LiveAssociatedContainers :
            liveLocators[c][1] = liveLocators[d][1] => PortsOf[c] = PortsOf[d]

\* A recovery has deleted the statuses of role r: it does so of the whole role.
Reinitialized(r) ==
    "reinitialize" \in Faults /\ crashes' # crashes /\ zkNumber'[r] = 0

\* A task that has been seen as TASK_COMPLETED on ZooKeeper stays so through
\* every push and restart, unless its role was shrunk meanwhile or a recovery
\* could not read the statuses and began anew: then the whole role goes.
CompletionPersists ==
    [][ \A t \in Locators :
          zkStatus[t].state = "TASK_COMPLETED" /\ userOps = 0 =>
              zkStatus'[t] = zkStatus[t] \/ Reinitialized(t[1]) ]_vars

\* Every container the RM still grants the AM is associated with a task again or
\* given back: an attempt that dies, or a callback that finds its task gone, leaks
\* none.  (Or the model has run out of requests.)
OrphansReleased ==
    \A c \in Containers :
        c \in AliveContainers /\ ~IsLiveAssociated(c)
            ~> c \notin AliveContainers \/ IsLiveAssociated(c) \/ nextPriority = MaxRequests

\* The same of an AM that is neither restarted nor resized: here it holds.
StopsWhenUndisturbed ==
    <>[](AllTasks # {} /\ IsAllTaskInFinalState /\ crashes = 0 /\ userOps = 0)
        => <>(phase = "finished")

=============================================================================
