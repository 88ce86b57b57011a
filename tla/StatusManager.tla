--------------------------- MODULE StatusManager ---------------------------
(***************************************************************************)
(* The StatusManager of the Application Master (AM): the statuses of the   *)
(* tasks of one framework in memory (BaseStatus), the inverted indexes     *)
(* kept beside them (ExtensionStatus), what one application attempt alone  *)
(* knows (StateVariable), and the copy of the statuses on ZooKeeper.       *)
(*                                                                         *)
(* Every method of the class is synchronized, so each is one action.  SMNext*)
(* is the most general client that respects the asserts of the class and   *)
(* the edges listed at TaskState; ApplicationMaster is one such client.    *)
(***************************************************************************)
EXTENDS Integers, FiniteSets

CONSTANTS
    Roles,        \* names of the task roles
    MaxTasks,     \* bound: most tasks a role ever has
    Containers,   \* container ids, each used at most once by YARN
    Hosts,
    HostOf,       \* the host each container is on
    MaxRequests,  \* bound: container requests of one application attempt
    LostBound,    \* bound: containerConnectionLostCount of a task
    MaxRetried,   \* bound: retriedCount of a task
    None          \* null

ASSUME ConstantsAssumption ==
    /\ MaxTasks \in Nat /\ MaxRequests \in Nat
    /\ LostBound \in Nat /\ MaxRetried \in Nat
    /\ HostOf \in [Containers -> Hosts]
    /\ None \notin Containers

Locators   == Roles \X (0 .. MaxTasks - 1)   \* TaskStatusLocator
Priorities == 0 .. MaxRequests - 1

ASSUME NoneAssumption ==
    None \notin Locators /\ None \notin Priorities

ExitTypes == { "SUCCEEDED", "TRANSIENT_NORMAL", "TRANSIENT_CONFLICT",
               "NON_TRANSIENT", "UNKNOWN" }

TaskStates == { "TASK_WAITING", "CONTAINER_REQUESTED", "CONTAINER_ALLOCATED",
                "CONTAINER_LAUNCHED", "CONTAINER_RUNNING",
                "CONTAINER_COMPLETED", "TASK_COMPLETED" }

FINAL_STATES       == { "TASK_COMPLETED" }
OUTSTANDING_STATES == { "TASK_WAITING", "CONTAINER_REQUESTED" }
LIVE_STATES        == { "CONTAINER_ALLOCATED", "CONTAINER_LAUNCHED",
                        "CONTAINER_RUNNING" }
ASSOCIATED_STATES  == LIVE_STATES \cup { "CONTAINER_COMPLETED",
                                         "TASK_COMPLETED" }

\* The fields of TaskStatus that decide anything.  A locator beyond the end of
\* its role's taskStatusArray holds NoTask.
TaskStatuses == [ state     : TaskStates \cup { "ABSENT" },
                  container : Containers \cup { None },
                  exit      : ExitTypes \cup { "NONE" },
                  retried   : 0 .. MaxRetried,
                  lost      : 0 .. LostBound ]

NoTask  == [ state |-> "ABSENT", container |-> None, exit |-> "NONE",
             retried |-> 0, lost |-> 0 ]
NewTask == [ NoTask EXCEPT !.state = "TASK_WAITING" ]

VARIABLES
    taskNumber,          \* role -> size of its taskStatusArray
    taskStatus,          \* locator -> TaskStatus
    taskStateLocators,   \* TaskState -> locators in that state
    liveLocators,        \* container -> the task it is live associated to
    liveHosts,           \* liveAssociatedHostNames
    containerRequests,   \* locator -> priority of its current request
    priorityLocators,    \* priority -> locator
    nextPriority,        \* nextContainerRequestPriority
    allocated,           \* taskAllocatedContainers
    changed,             \* role -> taskStatusesesChanged
    triggered,           \* outstandingTaskCallbackTriggered
    round,               \* outstandingTaskAppearedRound
    zkNumber,            \* ZooKeeper: role -> size of its TaskStatuses
    zkStatus             \* ZooKeeper: locator -> TaskStatus

memVars  == << taskNumber, taskStatus >>
extVars  == << taskStateLocators, liveLocators, liveHosts >>
reqVars  == << containerRequests, priorityLocators, nextPriority >>
gangVars == << triggered, round >>
zkVars   == << zkNumber, zkStatus >>
smVars   == << memVars, extVars, reqVars, allocated, changed, gangVars, zkVars >>

-----------------------------------------------------------------------------
(* ReadInterface *)

TasksIn(states) == UNION { taskStateLocators[s] : s \in states }
AllTasks        == TasksIn(TaskStates)
Outstanding     == TasksIn(OUTSTANDING_STATES)

IsLiveAssociated(c)       == liveLocators[c] # None
IsHostLiveAssociated(h)   == h \in liveHosts
LiveAssociatedContainers  == { c \in Containers : IsLiveAssociated(c) }
IsAllTaskInFinalState     == TasksIn(FINAL_STATES) = AllTasks

FailedTasks(r) ==
    { t \in TasksIn(FINAL_STATES) : t[1] = r /\ taskStatus[t].exit # "SUCCEEDED" }
SucceededTasks(r) ==
    { t \in TasksIn(FINAL_STATES) : t[1] = r /\ taskStatus[t].exit = "SUCCEEDED" }

\* Mutation of Appears: a recovered attempt is treated like a running one.
AppearsUnrecovered(recover) == Outstanding = {} /\ Outstanding' # {}

\* onOutstandingTaskDisappeared / onOutstandingTaskAppeared, as seen by a step
\* that changes statuses: recover is TRUE when updateTaskNumbers finds that
\* neither callback has been triggered in this attempt.
Disappears(recover) == (recover \/ Outstanding # {}) /\ Outstanding' = {}
Appears(recover)    == (recover \/ Outstanding = {}) /\ Outstanding' # {}

OutstandingCallbacks(recover) ==
    /\ triggered' = (triggered \/ Disappears(recover) \/ Appears(recover))
    /\ round' = IF Disappears(recover) THEN round + 1 ELSE round

-----------------------------------------------------------------------------
(* ModifyInterface *)

NoEvent == [ container |-> None, exit |-> "NONE", retried |-> 0 ]

\* Mutation of Transitioned: a retried task is not disassociated.
TransitionedStillAssociated(s, dst, event) ==
    [ state     |-> dst,
      container |-> IF dst = "CONTAINER_ALLOCATED" THEN event.container ELSE s.container,
      exit      |-> IF dst = "CONTAINER_COMPLETED" THEN event.exit ELSE s.exit,
      retried   |-> IF s.state = "CONTAINER_COMPLETED" /\ dst = "TASK_WAITING"
                    THEN event.retried ELSE s.retried,
      lost      |-> s.lost ]

\* transitionTaskState on the TaskStatus itself: associate, disassociate,
\* record the exit, and keep the retry policy state with the retry.
Transitioned(s, dst, event) ==
    [ state     |-> dst,
      container |-> IF dst \notin ASSOCIATED_STATES THEN None
                    ELSE IF s.state \notin ASSOCIATED_STATES THEN event.container
                    ELSE s.container,
      exit      |-> IF dst \notin ASSOCIATED_STATES THEN "NONE"
                    ELSE IF dst = "CONTAINER_COMPLETED" THEN event.exit
                    ELSE s.exit,
      retried   |-> IF s.state = "CONTAINER_COMPLETED" /\ dst = "TASK_WAITING"
                    THEN event.retried ELSE s.retried,
      lost      |-> IF dst \in ASSOCIATED_STATES /\ s.state \in ASSOCIATED_STATES
                    THEN s.lost ELSE 0 ]

\* Mutation of WithoutRequests: the priority of the request is not forgotten.
WithoutRequestsOfTasks(ts) ==
    /\ containerRequests' = [ t \in Locators |->
           IF t \in ts THEN None ELSE containerRequests[t] ]
    /\ UNCHANGED priorityLocators

\* removeContainerRequest(locator) for every locator of ts.
WithoutRequests(ts) ==
    /\ containerRequests' = [ t \in Locators |->
           IF t \in ts THEN None ELSE containerRequests[t] ]
    /\ priorityLocators' = [ p \in Priorities |->
           IF priorityLocators[p] \in ts THEN None ELSE priorityLocators[p] ]

\* Mutation of ForgetLive: the host stays counted as live associated.
ForgetLiveContainers(cs) ==
    /\ liveLocators' = [ c \in Containers |->
           IF c \in cs THEN None ELSE liveLocators[c] ]
    /\ UNCHANGED liveHosts

\* updateExtensionTaskStatusWithContainerLiveness(locator, false).  The set of
\* host names does not count the tasks on a host: it forgets the host.
ForgetLive(cs) ==
    /\ liveLocators' = [ c \in Containers |->
           IF c \in cs THEN None ELSE liveLocators[c] ]
    /\ liveHosts' = liveHosts \ { HostOf[c] : c \in cs }

TransitionRequest(t, src, dst) ==
    IF dst = "CONTAINER_REQUESTED" THEN
        /\ nextPriority' = nextPriority + 1
        /\ containerRequests' = [ containerRequests EXCEPT ![t] = nextPriority ]
        /\ priorityLocators' = [ priorityLocators EXCEPT ![nextPriority] = t ]
    ELSE IF src = "CONTAINER_REQUESTED" THEN
        WithoutRequests({ t }) /\ UNCHANGED nextPriority
    ELSE UNCHANGED reqVars

TransitionLiveness(t, src, dst, event) ==
    IF src \notin LIVE_STATES /\ dst \in LIVE_STATES THEN
        /\ liveLocators' = [ liveLocators EXCEPT ![event.container] = t ]
        /\ liveHosts' = liveHosts \cup { HostOf[event.container] }
    ELSE IF src \in LIVE_STATES /\ dst \notin LIVE_STATES THEN
        ForgetLive({ taskStatus[t].container })
    ELSE UNCHANGED << liveLocators, liveHosts >>

TransitionTaskState(t, dst, event) ==
    LET src == taskStatus[t].state IN
    IF src = dst THEN UNCHANGED smVars
    ELSE
    /\ taskStatus' = [ taskStatus EXCEPT ![t] = Transitioned(@, dst, event) ]
    /\ taskStateLocators' = [ s \in TaskStates |->
           IF s = src THEN taskStateLocators[s] \ { t }
           ELSE IF s = dst THEN taskStateLocators[s] \cup { t }
           ELSE taskStateLocators[s] ]
    /\ TransitionRequest(t, src, dst)
    /\ TransitionLiveness(t, src, dst, event)
    /\ allocated' = [ allocated EXCEPT ![t] =
           IF dst = "CONTAINER_ALLOCATED" THEN event.container
           ELSE IF src = "CONTAINER_ALLOCATED" THEN None ELSE @ ]
    /\ changed' = [ changed EXCEPT ![t[1]] = TRUE ]
    /\ OutstandingCallbacks(FALSE)
    /\ UNCHANGED << taskNumber, zkVars >>

\* transitionTaskState to CONTAINER_ALLOCATED when associateTaskWithContainer
\* throws: the request is already removed, the state is not yet changed.
FailToAssociate(t) ==
    /\ WithoutRequests({ t })
    /\ changed' = [ changed EXCEPT ![t[1]] = TRUE ]
    /\ UNCHANGED << memVars, extVars, nextPriority, allocated, gangVars, zkVars >>

\* setContainerConnectionLostCount: an equal count marks nothing as changed.
SetLostCounts(count) ==
    /\ taskStatus' = [ t \in Locators |-> [ taskStatus[t] EXCEPT !.lost = count[t] ] ]
    /\ changed' = [ r \in Roles |->
           changed[r] \/ \E t \in Locators : t[1] = r /\ count[t] # taskStatus[t].lost ]
    /\ UNCHANGED << taskNumber, extVars, reqVars, allocated, gangVars, zkVars >>

ResetLostCount(cs) ==
    SetLostCounts([ t \in Locators |->
        IF \E c \in cs : liveLocators[c] = t THEN 0 ELSE taskStatus[t].lost ])

IncreaseLostCount(c) ==
    SetLostCounts([ t \in Locators |->
        IF liveLocators[c] = t THEN taskStatus[t].lost + 1 ELSE taskStatus[t].lost ])

\* decreaseTaskNumber pops the tail of the array, increaseTaskNumber pushes.
Removed(numbers) ==
    { t \in Locators : numbers[t[1]] <= t[2] /\ t[2] < taskNumber[t[1]] }
Added(numbers) ==
    { t \in Locators : taskNumber[t[1]] <= t[2] /\ t[2] < numbers[t[1]] }

UpdateTaskNumbers(numbers) ==
    LET gone == Removed(numbers)
        new  == Added(numbers)
    IN  /\ taskNumber' = numbers
        /\ taskStatus' = [ t \in Locators |->
               IF t \in gone THEN NoTask
               ELSE IF t \in new THEN NewTask ELSE taskStatus[t] ]
        /\ taskStateLocators' = [ s \in TaskStates |->
               (taskStateLocators[s] \ gone)
                   \cup (IF s = "TASK_WAITING" THEN new ELSE {}) ]
        /\ ForgetLive({ c \in Containers : liveLocators[c] \in gone })
        /\ WithoutRequests(gone)
        /\ allocated' = [ t \in Locators |->
               IF t \in gone THEN None ELSE allocated[t] ]
        /\ changed' = [ r \in Roles |->
               changed[r] \/ numbers[r] # taskNumber[r] ]
        /\ OutstandingCallbacks(~triggered)
        /\ UNCHANGED << nextPriority, zkVars >>

-----------------------------------------------------------------------------
(* Persistence *)

\* Writes the TaskStatuses of the roles rs.  pushStatus holds the lock while it
\* writes every changed role, one ZooKeeper write each.
WriteStatuses(rs) ==
    /\ zkNumber' = [ r \in Roles |-> IF r \in rs THEN taskNumber[r] ELSE zkNumber[r] ]
    /\ zkStatus' = [ t \in Locators |->
           IF t[1] \in rs THEN taskStatus[t] ELSE zkStatus[t] ]

ChangedRoles == { r \in Roles : changed[r] }

\* Mutation of PushStatus: the flags of roles whose write failed are cleared too.
PushStatusClearsAll(rs) ==
    /\ rs \subseteq ChangedRoles
    /\ WriteStatuses(rs)
    /\ changed' = [ r \in Roles |-> FALSE ]
    /\ UNCHANGED << memVars, extVars, reqVars, allocated, gangVars >>

\* pushStatus, whose writes succeed for the changed roles rs: all of them, or
\* those written before one throws.  A flag is cleared after its own write.
PushStatus(rs) ==
    /\ rs \subseteq ChangedRoles
    /\ WriteStatuses(rs)
    /\ changed' = [ r \in Roles |-> changed[r] /\ r \notin rs ]
    /\ UNCHANGED << memVars, extVars, reqVars, allocated, gangVars >>

\* Mutation of Revised: a completed task is to be completed once more.
RevisedCompleted(s) ==
    IF s.state = "TASK_COMPLETED" THEN [ s EXCEPT !.state = "CONTAINER_COMPLETED" ]
    ELSE IF s.state = "CONTAINER_REQUESTED" THEN [ s EXCEPT !.state = "TASK_WAITING" ]
    ELSE IF s.state \in { "CONTAINER_ALLOCATED", "CONTAINER_LAUNCHED" }
    THEN [ s EXCEPT !.state = "CONTAINER_RUNNING" ]
    ELSE s

\* reviseCorruptedTaskStates on one persisted TaskStatus.
Revised(s) ==
    IF s.state = "CONTAINER_REQUESTED" THEN [ s EXCEPT !.state = "TASK_WAITING" ]
    ELSE IF s.state \in { "CONTAINER_ALLOCATED", "CONTAINER_LAUNCHED" }
    THEN [ s EXCEPT !.state = "CONTAINER_RUNNING" ]
    ELSE s

\* What a new attempt leaves on ZooKeeper when it recovers.  The process it replaces
\* died while it was writing: the changed roles rs were written, the others not.  A
\* persisted FrameworkVersion that is not its own, or anything unreadable, makes it
\* delete the statuses of all roles, one after the other: lost are those that were
\* deleted, all of them unless the deletion died and the attempt after it could read
\* the rest.
RecoverStatuses(rs, lost) ==
    /\ zkNumber' = [ r \in Roles |->
           IF r \in lost THEN 0 ELSE IF r \in rs THEN taskNumber[r] ELSE zkNumber[r] ]
    /\ zkStatus' = [ t \in Locators |->
           IF t[1] \in lost THEN NoTask
           ELSE IF t[1] \in rs THEN taskStatus[t] ELSE zkStatus[t] ]

\* A new AM attempt: recover rebuilds the memory from what is left on ZooKeeper (a
\* role without a TaskStatuses there is skipped), and reviseCorruptedTaskStates
\* follows before any request is pulled, so before anything can be pushed.
Recover(rs, lost) ==
    /\ RecoverStatuses(rs, lost)
    /\ taskNumber' = zkNumber'
    /\ taskStatus' = [ t \in Locators |-> Revised(zkStatus'[t]) ]
    /\ taskStateLocators' = [ s \in TaskStates |->
           { t \in Locators : taskStatus'[t].state = s } ]
    /\ liveLocators' = [ c \in Containers |->
           LET ts == { t \in Locators : taskStatus'[t].state \in LIVE_STATES
                                        /\ taskStatus'[t].container = c }
           IN  IF ts = {} THEN None ELSE CHOOSE t \in ts : TRUE ]
    /\ liveHosts' = { HostOf[taskStatus'[t].container] :
                      t \in { u \in Locators : taskStatus'[u].state \in LIVE_STATES } }
    /\ containerRequests' = [ t \in Locators |-> None ]
    /\ priorityLocators' = [ p \in Priorities |-> None ]
    /\ nextPriority' = 0
    /\ allocated' = [ t \in Locators |-> None ]
    /\ changed' = [ r \in Roles |->
           \E t \in Locators : t[1] = r /\ taskStatus'[t] # zkStatus'[t] ]
    /\ triggered' = FALSE
    /\ round' = 0

-----------------------------------------------------------------------------
(* The most general client *)

SMInit ==
    /\ taskNumber = [ r \in Roles |-> 0 ]
    /\ taskStatus = [ t \in Locators |-> NoTask ]
    /\ taskStateLocators = [ s \in TaskStates |-> {} ]
    /\ liveLocators = [ c \in Containers |-> None ]
    /\ liveHosts = {}
    /\ containerRequests = [ t \in Locators |-> None ]
    /\ priorityLocators = [ p \in Priorities |-> None ]
    /\ nextPriority = 0
    /\ allocated = [ t \in Locators |-> None ]
    /\ changed = [ r \in Roles |-> FALSE ]
    /\ triggered = FALSE
    /\ round = 0
    /\ zkNumber = taskNumber
    /\ zkStatus = taskStatus

\* addContainerRequest        TASK_WAITING -> CONTAINER_REQUESTED
Request(t) ==
    /\ taskStatus[t].state = "TASK_WAITING"
    /\ nextPriority < MaxRequests
    /\ TransitionTaskState(t, "CONTAINER_REQUESTED", NoEvent)

\* rejected, timed out        CONTAINER_REQUESTED -> TASK_WAITING
Withdraw(t) ==
    /\ taskStatus[t].state = "CONTAINER_REQUESTED"
    /\ TransitionTaskState(t, "TASK_WAITING", NoEvent)

\* accepted                   CONTAINER_REQUESTED -> CONTAINER_ALLOCATED
Allocate(t, c) ==
    /\ taskStatus[t].state = "CONTAINER_REQUESTED"
    /\ \A u \in Locators : zkStatus[u].container # c /\ taskStatus[u].container # c
    /\ TransitionTaskState(t, "CONTAINER_ALLOCATED", [ NoEvent EXCEPT !.container = c ])

AllocateFails(t) ==
    /\ taskStatus[t].state = "CONTAINER_REQUESTED"
    /\ FailToAssociate(t)

\* startContainerAsync        CONTAINER_ALLOCATED -> CONTAINER_LAUNCHED
Launch(t) ==
    /\ taskStatus[t].state = "CONTAINER_ALLOCATED"
    /\ TransitionTaskState(t, "CONTAINER_LAUNCHED", NoEvent)

\* onContainerStarted         CONTAINER_LAUNCHED -> CONTAINER_RUNNING
Start(t) ==
    /\ taskStatus[t].state = "CONTAINER_LAUNCHED"
    /\ TransitionTaskState(t, "CONTAINER_RUNNING", NoEvent)

\* completed, lost, released  any live state -> CONTAINER_COMPLETED
CompleteContainer(t, exit) ==
    /\ taskStatus[t].state \in LIVE_STATES
    /\ TransitionTaskState(t, "CONTAINER_COMPLETED", [ NoEvent EXCEPT !.exit = exit ])

\* attemptToRetry             CONTAINER_COMPLETED -> TASK_WAITING
RetryTask(t, retried) ==
    /\ taskStatus[t].state = "CONTAINER_COMPLETED"
    /\ TransitionTaskState(t, "TASK_WAITING", [ NoEvent EXCEPT !.retried = retried ])

\* attemptToRetry             CONTAINER_COMPLETED -> TASK_COMPLETED
CompleteTask(t) ==
    /\ taskStatus[t].state = "CONTAINER_COMPLETED"
    /\ TransitionTaskState(t, "TASK_COMPLETED", NoEvent)

Lose(c) ==
    /\ IsLiveAssociated(c)
    /\ taskStatus[liveLocators[c]].lost < LostBound
    /\ IncreaseLostCount(c)

Find(cs) ==
    /\ cs \subseteq LiveAssociatedContainers
    /\ ResetLostCount(cs)

Restart(rs, lost) ==
    /\ rs \subseteq ChangedRoles
    /\ Recover(rs, lost)

SMNext ==
    \/ \E t \in Locators :
          \/ Request(t) \/ Withdraw(t) \/ AllocateFails(t) \/ Launch(t) \/ Start(t)
          \/ CompleteTask(t)
          \/ \E c \in Containers : Allocate(t, c)
          \/ \E exit \in ExitTypes : CompleteContainer(t, exit)
          \/ \E retried \in 0 .. MaxRetried : RetryTask(t, retried)
    \/ \E c \in Containers : Lose(c)
    \/ \E cs \in SUBSET Containers : Find(cs)
    \/ \E numbers \in [ Roles -> 0 .. MaxTasks ] : UpdateTaskNumbers(numbers)
    \/ \E rs \in SUBSET Roles :
          PushStatus(rs) \/ \E lost \in SUBSET Roles : Restart(rs, lost)

SMSpec == SMInit /\ [][SMNext]_smVars

-----------------------------------------------------------------------------
(* Properties *)

\* Every variable holds values of its type: a status on ZooKeeper or in memory
\* is one the class can write, a count stays within its bound.
SMTypeOK ==
    /\ taskNumber \in [ Roles -> 0 .. MaxTasks ]
    /\ taskStatus \in [ Locators -> TaskStatuses ]
    /\ taskStateLocators \in [ TaskStates -> SUBSET Locators ]
    /\ liveLocators \in [ Containers -> Locators \cup { None } ]
    /\ liveHosts \in SUBSET Hosts
    /\ containerRequests \in [ Locators -> Priorities \cup { None } ]
    /\ priorityLocators \in [ Priorities -> Locators \cup { None } ]
    /\ nextPriority \in 0 .. MaxRequests
    /\ allocated \in [ Locators -> Containers \cup { None } ]
    /\ changed \in [ Roles -> BOOLEAN ]
    /\ triggered \in BOOLEAN
    /\ round \in Nat
    /\ zkNumber \in [ Roles -> 0 .. MaxTasks ]
    /\ zkStatus \in [ Locators -> TaskStatuses ]

\* The arrays hold a status exactly below their size, and a status names a
\* container exactly in the states that are associated with one.
WellFormed(number, status) ==
    \A t \in Locators :
        /\ status[t].state # "ABSENT" <=> t[2] < number[t[1]]
        /\ status[t].container # None <=> status[t].state \in ASSOCIATED_STATES

StatusesWellFormed ==
    WellFormed(taskNumber, taskStatus) /\ WellFormed(zkNumber, zkStatus)

\* taskStateLocators inverts the states: getTaskStatus(states), the counts of
\* outstanding and final tasks and every list the AM works on are read from it.
StateIndexExact ==
    \A s \in TaskStates :
        taskStateLocators[s] = { t \in Locators : taskStatus[t].state = s }

\* liveAssociatedContainerIdLocators inverts the containers of the live tasks:
\* completeContainer and the RM resync find the task of a container by it.
LiveIndexExact ==
    \A c \in Containers, t \in Locators :
        liveLocators[c] = t <=>
            taskStatus[t].state \in LIVE_STATES /\ taskStatus[t].container = c

\* taskContainerRequests and priorityLocators invert each other, and track only
\* tasks that are CONTAINER_REQUESTED: findTask asserts it of the task it finds.
RequestIndexExact ==
    /\ \A t \in Locators, p \in Priorities :
          priorityLocators[p] = t <=> containerRequests[t] = p
    /\ \A t \in Locators : containerRequests[t] # None =>
          taskStatus[t].state = "CONTAINER_REQUESTED" /\ containerRequests[t] < nextPriority

\* The Container object kept for launching is the one the task is associated
\* with, and is kept exactly while the task is CONTAINER_ALLOCATED.
AllocatedIndexExact ==
    \A t \in Locators : allocated[t] =
        IF taskStatus[t].state = "CONTAINER_ALLOCATED" THEN taskStatus[t].container ELSE None

\* ExtensionStatus and the maps of the current requests and containers are always
\* consistent with BaseStatus, as the comments on them promise.
IndexesExact ==
    StateIndexExact /\ LiveIndexExact /\ RequestIndexExact /\ AllocatedIndexExact

\* No container belongs to two tasks, whichever of the two is read from memory
\* and whichever from ZooKeeper: so a restart, which mixes what was persisted of
\* each role at different times, cannot give one container to two tasks.
ContainerExclusive ==
    \A t, u \in Locators : t # u =>
        { taskStatus[t].container, zkStatus[t].container }
            \cap { taskStatus[u].container, zkStatus[u].container } \subseteq { None }

\* A host counted as live associated has a live associated task.
HostIndexSound ==
    liveHosts \subseteq { HostOf[c] : c \in LiveAssociatedContainers }

\* A role that is not marked as changed is on ZooKeeper as it is in memory: a
\* push that skips it loses nothing.
ChangedExact ==
    \A r \in Roles : ~changed[r] =>
        /\ zkNumber[r] = taskNumber[r]
        /\ \A t \in Locators : t[1] = r => zkStatus[t] = taskStatus[t]

=============================================================================
