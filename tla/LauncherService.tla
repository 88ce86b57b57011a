--------------------------- MODULE LauncherService ---------------------------
(***************************************************************************)
(* The Launcher Service: the daemon that drives the status of a framework  *)
(* until it satisfies the framework's request, by submitting applications  *)
(* to YARN (Service.java), with its StatusManager, RequestManager,         *)
(* RMResyncHandler and DiagnosticsRetrieveHandler.  The life of one        *)
(* framework; other frameworks only delay the tasks of the queue.          *)
(*                                                                         *)
(* Whatever changes a status is a task of one queue, run by one thread.    *)
(* What a task still has to do is `work`, a sequence of writes to          *)
(* ZooKeeper or YARN, each an action of its own: the process may die       *)
(* between two of them.  Setup and diagnostics run in threads beside it.   *)
(***************************************************************************)
EXTENDS Integers, Sequences

CONSTANTS
    Versions,     \* FrameworkVersion
    Policy,       \* the retry policy of each version: [fancy, max]
    MaxApps,      \* bound: application ids YARN hands out
    MaxRequests,  \* bound: changes of the request
    MaxCrashes,   \* bound: deaths of the process
    MaxFaults,    \* bound: failures of applications, submissions and reports
    None,         \* null
    Never         \* nothing pulled yet

ASSUME ServiceAssumption ==
    /\ Policy \in [ Versions -> [ fancy : BOOLEAN, max : Nat \cup { -1, -2 } ] ]
    /\ MaxApps \in Nat /\ MaxRequests \in Nat /\ MaxCrashes \in Nat /\ MaxFaults \in Nat

VARIABLES
    request,     \* the FrameworkRequest on ZooKeeper, or None
    saved,       \* the FrameworkStatus on ZooKeeper, or None
    apps,        \* what YARN knows of each application
    up,          \* the process runs
    pulled,      \* frameworkRequests of RequestManager: Never, a request or None
    status,      \* the FrameworkStatus in memory, or None
    queue,       \* transitionFrameworkStateQueue
    work,        \* what the running task has still to do
    delayed,     \* tasks queued with a delay
    threads,     \* setup and diagnostics threads
    submitted,   \* ghost: submissions for the current version of the framework
    requests, crashes, faults

zkVars    == << request, saved >>
memVars   == << up, pulled, status, queue, work, delayed, threads >>
countVars == << requests, crashes, faults >>
vars      == << zkVars, apps, memVars, submitted, countVars >>

ExitTypes == { "SUCCEEDED", "TRANSIENT_NORMAL", "TRANSIENT_CONFLICT",
               "NON_TRANSIENT", "UNKNOWN" }

APPLICATION_LIVE_ASSOCIATED_STATES ==
    { "APPLICATION_CREATED", "APPLICATION_LAUNCHED", "APPLICATION_WAITING",
      "APPLICATION_RUNNING" }
APPLICATION_ASSOCIATED_STATES == APPLICATION_LIVE_ASSOCIATED_STATES \cup
    { "APPLICATION_RETRIEVING_DIAGNOSTICS", "APPLICATION_COMPLETED", "FRAMEWORK_COMPLETED" }
FrameworkStates == APPLICATION_ASSOCIATED_STATES \cup { "FRAMEWORK_WAITING" }

Apps     == 1 .. MaxApps
LiveApps == { "ACCEPTED", "RUNNING" }
AppStates == { "FREE", "GIVEN", "FORGOTTEN" } \cup LiveApps \cup ExitTypes

Requests == [ version : Versions, execution : { "START", "STOP" } ]

\* The fields of FrameworkStatus that decide anything: `exit` is the type of
\* the exit code and diagnostics, `tries` the sum of the counts per exit type.
Statuses == [ version : Versions, state : FrameworkStates, app : Apps \cup { None },
              exit : ExitTypes \cup { None }, retried : Nat, tries : Nat ]

ASSUME NoneAssumption == None \notin Apps \cup Statuses

NewStatus(version) ==
    [ version |-> version, state |-> "FRAMEWORK_WAITING", app |-> None,
      exit |-> None, retried |-> 0, tries |-> 0 ]

IsLive(s)       == s.state \in APPLICATION_LIVE_ASSOCIATED_STATES
IsAssociated(s) == s.state \in APPLICATION_ASSOCIATED_STATES

\* The id of the next application YARN creates, of those the bound leaves.
FreeApps == { a \in Apps : apps[a] = "FREE" }
NextApp == CHOOSE a \in FreeApps : TRUE

\* tryGetFrameworkRequest finds the request of the status.
Requested(s) == pulled \in Requests /\ pulled.version = s.version

-----------------------------------------------------------------------------
(* What a task does, as a sequence of steps.                               *)

Task(kind)    == [ kind |-> kind ]
UpdateTask(r) == [ kind |-> "update", request |-> r ]
LaunchTask(s) == [ kind |-> "launch", snapshot |-> s ]
ExitTask(a)   == [ kind |-> "exit", app |-> a ]
RetryTask(s, next) == [ kind |-> "retry", snapshot |-> s, next |-> next ]

Save(s)   == << [ step |-> "save", status |-> s ] >>
Add(v)    == << [ step |-> "add", version |-> v ] >>
Drop      == << [ step |-> "drop" ] >>
Kill(a)   == << [ step |-> "kill", app |-> a ] >>
Submit(a) == << [ step |-> "submit", app |-> a ] >>
Create    == << [ step |-> "create" ] >>
Attempt   == << [ step |-> "attempt" ] >>

KillLive(s) == IF IsLive(s) THEN Kill(s.app) ELSE << >>

\* Mutant: the counts are kept as they were.
RetriedUncounted(s, normally) ==
    [ NewStatus(s.version) EXCEPT !.retried = s.retried, !.tries = s.tries ]

\* A new policy state and the state FRAMEWORK_WAITING are persisted together.
Retried(s, normally) ==
    [ NewStatus(s.version) EXCEPT !.retried = s.retried + (IF normally THEN 1 ELSE 0),
                                  !.tries = s.tries + 1 ]

\* Mutant: no placeholder application.
StoppedAsItIs(s) ==
    [ s EXCEPT !.state = "FRAMEWORK_COMPLETED", !.exit = "NON_TRANSIENT" ]

\* stopFramework: one write, whatever states are passed through; a framework
\* without an application is given one that is never submitted.
Stopped(s) ==
    [ s EXCEPT !.state = "FRAMEWORK_COMPLETED", !.exit = "NON_TRANSIENT",
               !.app = IF IsAssociated(s) THEN s.app ELSE NextApp ]

\* createApplication for a framework that waits.
CreateWork(s) == IF s # None /\ s.state = "FRAMEWORK_WAITING" THEN Create ELSE << >>

Replace(r) ==
    CASE status = None                -> Add(r.version)
      [] status # None /\ status.version # r.version
                                      -> KillLive(status) \o Add(r.version)
      [] OTHER                        -> << >>

Stop(r, s) ==
    IF r.execution = "STOP" /\ s.state # "FRAMEWORK_COMPLETED"
    THEN KillLive(s) \o Save(Stopped(s)) ELSE << >>

UpdateWork(r) ==
    IF r = None
    THEN IF status = None THEN << >> ELSE KillLive(status) \o Drop
    ELSE LET replace == Replace(r)
             s    == IF replace = << >> THEN status ELSE NewStatus(r.version)
             stop == Stop(r, s)
         IN  replace \o stop \o (IF stop = << >> THEN CreateWork(s) ELSE << >>)

CompletedWork(s) == Save([ s EXCEPT !.state = "APPLICATION_COMPLETED" ]) \o Attempt

RetrieveWork(exit) ==
    Save([ status EXCEPT !.state = "APPLICATION_RETRIEVING_DIAGNOSTICS", !.exit = exit ])

Transition(state) == IF status.state = state THEN << >> ELSE Save([ status EXCEPT !.state = state ])

\* resyncFrameworksWithLiveApplications, from what YARN reports of `app`.
ResyncWork ==
    IF status = None \/ ~IsLive(status) \/ status.state = "APPLICATION_CREATED" THEN << >>
    ELSE CASE apps[status.app] = "ACCEPTED" -> Transition("APPLICATION_WAITING")
           [] apps[status.app] = "RUNNING"  -> Transition("APPLICATION_RUNNING")
           [] apps[status.app] \in ExitTypes -> RetrieveWork(apps[status.app])
           [] OTHER                          -> RetrieveWork("TRANSIENT_NORMAL")

-----------------------------------------------------------------------------
(* The threads.                                                            *)

SetupThread(s)    == [ kind |-> "setup", snapshot |-> s ]
DiagnoseThread(a) == [ kind |-> "diagnose", app |-> a ]

\* setupApplicationContext: of no use once the status or the request changed.
Setup ==
    \E t \in threads :
        /\ t.kind = "setup"
        /\ threads' = threads \ { t }
        /\ queue' = IF status = t.snapshot /\ Requested(t.snapshot)
                    THEN Append(queue, LaunchTask(t.snapshot)) ELSE queue
        /\ UNCHANGED << zkVars, apps, up, pulled, status, work, delayed, submitted, countVars >>

\* retrieveDiagnosticsAsync, then onDiagnosticsRetrieved.
Diagnose ==
    \E t \in threads :
        /\ t.kind = "diagnose"
        /\ threads' = threads \ { t }
        /\ queue' = Append(queue, ExitTask(t.app))
        /\ UNCHANGED << zkVars, apps, up, pulled, status, work, delayed, submitted, countVars >>

\* pullRequest; the first one also arms the resync and starts the queue.
Pull ==
    /\ up /\ pulled # request /\ (pulled = Never => work = << >>)
    /\ pulled' = request
    /\ queue' = Append(queue, UpdateTask(request))
    /\ delayed' = IF pulled = Never THEN delayed \cup { Task("resync") } ELSE delayed
    /\ UNCHANGED << zkVars, apps, up, status, work, threads, submitted, countVars >>

DelayOver(kind) ==
    \E d \in delayed :
        /\ d.kind = kind
        /\ delayed' = delayed \ { d }
        /\ queue' = Append(queue, d)
        /\ UNCHANGED << zkVars, apps, up, pulled, status, work, threads, submitted, countVars >>

-----------------------------------------------------------------------------
(* A task begins.                                                          *)

Begin(kind) ==
    /\ pulled # Never /\ work = << >>
    /\ queue # << >> /\ Head(queue).kind = kind
    /\ queue' = Tail(queue)
    /\ UNCHANGED << zkVars, apps, up, pulled, status, submitted, requests, crashes >>

CreateAll == Begin("create_all") /\ work' = CreateWork(status) /\ UNCHANGED << delayed, threads, faults >>

\* The state is RETRIEVING_DIAGNOSTICS already: only the thread is begun.
RetrieveAll ==
    /\ Begin("retrieve_all")
    /\ threads' = IF status # None /\ status.state = "APPLICATION_RETRIEVING_DIAGNOSTICS"
                  THEN threads \cup { DiagnoseThread(status.app) } ELSE threads
    /\ UNCHANGED << work, delayed, faults >>

RetryAll ==
    /\ Begin("retry_all")
    /\ work' = IF status # None /\ status.state = "APPLICATION_COMPLETED" THEN Attempt ELSE << >>
    /\ UNCHANGED << delayed, threads, faults >>

UpdateRequests ==
    /\ Begin("update") /\ FreeApps # { }
    /\ work' = UpdateWork(Head(queue).request)
    /\ UNCHANGED << delayed, threads, faults >>

LaunchApplication ==
    /\ Begin("launch")
    /\ LET s == Head(queue).snapshot
       IN  work' = IF status = s /\ Requested(s) THEN Submit(s.app) ELSE << >>
    /\ UNCHANGED << delayed, threads, faults >>

\* The reports are asked for inside the task; YARN may not answer.
ResyncWithRM ==
    /\ Begin("resync")
    /\ \/ work' = ResyncWork /\ faults' = faults
       \/ work' = << >> /\ faults < MaxFaults /\ faults' = faults + 1
    /\ delayed' = delayed \cup { Task("resync") }
    /\ UNCHANGED threads

\* retrieveApplicationExitCode
RetrieveExitCode ==
    /\ Begin("exit")
    /\ work' = IF /\ status # None /\ status.app = Head(queue).app
                  /\ status.state = "APPLICATION_RETRIEVING_DIAGNOSTICS"
               THEN CompletedWork(status) ELSE << >>
    /\ UNCHANGED << delayed, threads, faults >>

\* retryFramework after the delay of a TRANSIENT_CONFLICT.
RetryDelayed ==
    /\ Begin("retry")
    /\ work' = IF status = Head(queue).snapshot THEN Save(Head(queue).next) \o Create ELSE << >>
    /\ UNCHANGED << delayed, threads, faults >>

-----------------------------------------------------------------------------
(* The steps of a task.                                                    *)

Doing(step) ==
    /\ work # << >> /\ Head(work).step = step
    /\ UNCHANGED << request, up, pulled, queue, requests, crashes >>

\* Memory and ZooKeeper are set to s, an application it names is created, and
\* the thread of its state is begun.
Write(s) ==
    /\ status' = s /\ saved' = s
    /\ apps' = IF s.app # None /\ apps[s.app] = "FREE" THEN [ apps EXCEPT ![s.app] = "GIVEN" ] ELSE apps
    /\ threads' = threads \cup
        (CASE s.state = "APPLICATION_CREATED"                -> { SetupThread(s) }
           [] s.state = "APPLICATION_RETRIEVING_DIAGNOSTICS" -> { DiagnoseThread(s.app) }
           [] OTHER                                          -> { })

DoSave ==
    /\ Doing("save") /\ Write(Head(work).status)
    /\ work' = Tail(work) /\ UNCHANGED << delayed, submitted, faults >>

\* addFramework
DoAdd ==
    /\ Doing("add") /\ Write(NewStatus(Head(work).version))
    /\ submitted' = 0
    /\ work' = Tail(work) /\ UNCHANGED << delayed, faults >>

DoCreate ==
    /\ Doing("create") /\ work' = Tail(work) /\ FreeApps # { }
    /\ Write([ status EXCEPT !.state = "APPLICATION_CREATED", !.app = NextApp ])
    /\ UNCHANGED << delayed, submitted, faults >>

DoDrop ==
    /\ Doing("drop") /\ work' = Tail(work)
    /\ status' = None /\ saved' = None
    /\ UNCHANGED << apps, threads, delayed, submitted, faults >>

\* killApplication waits until YARN has killed it; one not found is ignored.
DoKill ==
    /\ Doing("kill") /\ work' = Tail(work)
    /\ apps' = IF apps[Head(work).app] \in LiveApps
               THEN [ apps EXCEPT ![Head(work).app] = "TRANSIENT_NORMAL" ] ELSE apps
    /\ UNCHANGED << status, saved, threads, delayed, submitted, faults >>

\* submitApplication: after an error YARN may have it or not, so it is killed.
DoSubmit ==
    /\ Doing("submit")
    /\ submitted' = submitted + 1
    /\ LET a == Head(work).app
           accepted == [ apps EXCEPT ![a] = "ACCEPTED" ]
       IN  \/ /\ apps' = accepted /\ faults' = faults
              /\ work' = Save([ status EXCEPT !.state = "APPLICATION_LAUNCHED" ])
           \/ /\ apps' \in { apps, accepted }
              /\ faults < MaxFaults /\ faults' = faults + 1
              /\ \E exit \in { "TRANSIENT_NORMAL", "NON_TRANSIENT", "UNKNOWN" } :
                    work' = Kill(a) \o RetrieveWork(exit)
    /\ UNCHANGED << status, saved, threads, delayed >>

\* attemptToRetry: FancyRetryPolicy first, then NormalRetryPolicy.
RetriesNow(s) ==
    LET policy == Policy[s.version]
    IN  \/ policy.fancy /\ s.exit = "TRANSIENT_NORMAL"
        \/ /\ ~(policy.fancy /\ s.exit = "NON_TRANSIENT")
           /\ \/ policy.max = -2
              \/ s.exit # "SUCCEEDED" /\ (policy.max = -1 \/ s.retried < policy.max)

RetriesLater(s) == Policy[s.version].fancy /\ s.exit = "TRANSIENT_CONFLICT"

DoAttempt ==
    /\ Doing("attempt")
    /\ IF ~Requested(status)
       THEN work' = Tail(work) /\ delayed' = delayed
       ELSE IF RetriesLater(status)
       THEN work' = Tail(work) /\ delayed' = delayed \cup { RetryTask(status, Retried(status, FALSE)) }
       ELSE /\ delayed' = delayed
            /\ work' = IF RetriesNow(status)
                       THEN Save(Retried(status, ~(Policy[status.version].fancy /\ status.exit = "TRANSIENT_NORMAL")))
                            \o Create
                       ELSE Save([ status EXCEPT !.state = "FRAMEWORK_COMPLETED" ])
    /\ UNCHANGED << status, saved, apps, threads, submitted, faults >>

-----------------------------------------------------------------------------
(* The process dies, also when a task throws; it is started again.         *)

Crash ==
    /\ up /\ crashes < MaxCrashes
    /\ crashes' = crashes + 1
    /\ up' = FALSE /\ pulled' = Never /\ status' = None
    /\ queue' = << >> /\ work' = << >> /\ delayed' = { } /\ threads' = { }
    /\ UNCHANGED << zkVars, apps, submitted, requests, faults >>

\* Mutant: a created application is taken for one that was never launched.
ReviseToWaiting(s) ==
    IF s # None /\ s.state = "APPLICATION_CREATED"
    THEN Save([ s EXCEPT !.state = "FRAMEWORK_WAITING", !.app = None ]) ELSE << >>

\* reviseCorruptedFrameworkStates: it may have been submitted, so it counts as
\* launched, and the resync finds out.
Revise(s) ==
    IF s # None /\ s.state = "APPLICATION_CREATED"
    THEN Save([ s EXCEPT !.state = "APPLICATION_LAUNCHED" ]) ELSE << >>

\* Mutant: the completed applications are not driven.
StartupTasksWithoutRetry == << Task("create_all"), Task("retrieve_all") >>

StartupTasks == << Task("create_all"), Task("retrieve_all"), Task("retry_all") >>

Recover ==
    /\ ~up /\ up' = TRUE
    /\ status' = saved
    /\ work' = Revise(saved) /\ queue' = StartupTasks
    /\ UNCHANGED << zkVars, apps, pulled, delayed, threads, submitted, countVars >>

-----------------------------------------------------------------------------
(* Users and YARN.                                                         *)

SetRequest(r) ==
    /\ requests < MaxRequests /\ r # request
    /\ r.execution = "STOP" => request # None /\ request.version = r.version
    /\ request' = r /\ requests' = requests + 1
    /\ UNCHANGED << saved, apps, memVars, submitted, crashes, faults >>

DeleteRequest ==
    /\ requests < MaxRequests /\ request # None
    /\ request' = None /\ requests' = requests + 1
    /\ UNCHANGED << saved, apps, memVars, submitted, crashes, faults >>

AppStep(a, from, to) ==
    /\ apps[a] \in from /\ apps' = [ apps EXCEPT ![a] = to ]
    /\ UNCHANGED << zkVars, memVars, submitted, requests, crashes >>

AppRuns(a)     == AppStep(a, { "ACCEPTED" }, "RUNNING") /\ faults' = faults
AppSucceeds(a) == AppStep(a, { "RUNNING" }, "SUCCEEDED") /\ faults' = faults
AppFails(a)    == /\ faults < MaxFaults /\ faults' = faults + 1
                  /\ \E exit \in ExitTypes \ { "SUCCEEDED" } : AppStep(a, LiveApps, exit)
AppForgotten(a) == AppStep(a, ExitTypes, "FORGOTTEN") /\ faults < MaxFaults /\ faults' = faults + 1

Init ==
    /\ request = None /\ saved = None
    /\ apps = [ a \in Apps |-> "FREE" ]
    /\ up = FALSE /\ pulled = Never /\ status = None
    /\ queue = << >> /\ work = << >> /\ delayed = { } /\ threads = { }
    /\ submitted = 0 /\ requests = 0 /\ crashes = 0 /\ faults = 0

TaskBegins ==
    \/ CreateAll \/ RetrieveAll \/ RetryAll \/ UpdateRequests
    \/ LaunchApplication \/ ResyncWithRM \/ RetrieveExitCode \/ RetryDelayed

TaskStep == DoSave \/ DoAdd \/ DoCreate \/ DoDrop \/ DoKill \/ DoSubmit \/ DoAttempt

Next ==
    \/ Pull \/ Setup \/ Diagnose \/ DelayOver("resync") \/ DelayOver("retry")
    \/ TaskBegins \/ TaskStep
    \/ Crash \/ Recover
    \/ \E r \in Requests : SetRequest(r)
    \/ DeleteRequest
    \/ \E a \in Apps : AppRuns(a) \/ AppSucceeds(a) \/ AppFails(a) \/ AppForgotten(a)

\* The threads and timers of the process, and what starts it again; users and
\* YARN owe nothing.
Fairness ==
    /\ WF_vars(Pull) /\ WF_vars(Setup) /\ WF_vars(Diagnose)
    /\ WF_vars(DelayOver("resync")) /\ WF_vars(DelayOver("retry"))
    /\ WF_vars(TaskBegins) /\ WF_vars(TaskStep) /\ WF_vars(Recover)

Spec == Init /\ [][Next]_vars /\ Fairness

-----------------------------------------------------------------------------
\* A status has an application exactly when its state is associated with one.
StatusWellFormed(s) ==
    s # None => /\ s \in Statuses
                /\ (s.app # None) = IsAssociated(s)
                /\ s.exit # None => s.state \in APPLICATION_ASSOCIATED_STATES \ APPLICATION_LIVE_ASSOCIATED_STATES

TypeOK ==
    /\ request \in Requests \cup { None } /\ pulled \in Requests \cup { None, Never }
    /\ StatusWellFormed(saved) /\ StatusWellFormed(status)
    /\ apps \in [ Apps -> AppStates ] /\ up \in BOOLEAN
    /\ \A s \in { saved, status } : s # None /\ s.app # None => apps[s.app] # "FREE"
    /\ requests <= MaxRequests /\ crashes <= MaxCrashes /\ faults <= MaxFaults

(* At most one application of the framework lives in YARN, and it is the   *)
(* one that the persisted status holds as live, whatever the process was   *)
(* doing when it died (the note at class Service: "It ensures at most one  *)
(* AM running for one Framework").                                         *)
OneApplication ==
    \A a \in Apps : apps[a] \in LiveApps =>
        saved # None /\ saved.app = a /\ IsLive(saved)

(* Every submission but the first of a version is a retry that the policy  *)
(* granted and the persisted status counts: neither a crash nor a resync   *)
(* gives a version another try (transitionFrameworkState persists the new  *)
(* policy state with FRAMEWORK_WAITING "in case of crash").                *)
RetriesCounted ==
    saved # None =>
        /\ submitted <= saved.tries + 1
        /\ LET policy == Policy[saved.version]
           IN  ~policy.fancy /\ policy.max \in Nat => submitted <= policy.max + 1

(* What is persisted and what runs in YARN agrees with the request.        *)
Satisfied ==
    IF request = None
    THEN saved = None /\ \A a \in Apps : apps[a] \notin LiveApps
    ELSE /\ saved # None /\ saved.version = request.version
         /\ \/ saved.state = "FRAMEWORK_COMPLETED"
            \/ /\ request.execution = "START"
               /\ \/ saved.state = "APPLICATION_WAITING" /\ apps[saved.app] = "ACCEPTED"
                  \/ saved.state = "APPLICATION_RUNNING" /\ apps[saved.app] = "RUNNING"

(* Once users, applications and the machine leave it alone, the Service    *)
(* brings the framework to what was requested last and keeps it there: no  *)
(* crash, lost report or ignored task leaves it behind (the note at class  *)
(* Service: "the engine to transition Status to satisfy Request            *)
(* eventually").                                                           *)
EventuallySatisfied == <>[]Satisfied

=============================================================================
