-------------------------- MODULE LauncherRequests --------------------------
(***************************************************************************)
(* The requests of all frameworks as the launcher's WebServer keeps them:  *)
(* its RequestManager holds them in memory and on ZooKeeper, and its       *)
(* StatusManager pulls the statuses and has completed frameworks collected. *)
(*                                                                         *)
(* Every modifying call holds one fair write lock throughout, but writes   *)
(* to ZooKeeper several times when it stops or deletes child frameworks:   *)
(* phase names the call that holds the lock, each write is a step, and the *)
(* process may die, or a call fail, between two of them.                   *)
(***************************************************************************)
EXTENDS Integers, FiniteSets, Functions

CONSTANTS
    Frameworks,     \* framework names
    ParentsOf,      \* the ParentFrameworkDescriptors users give each of them
    DataDeployment, \* those launched by the client DATA_DEPLOYMENT
    Marks,          \* MigrateTaskRequests and OverrideApplicationProgressRequest
    MaxTasks,       \* bound: tasks of one framework
    MaxTotalTaskNumber,
    MaxVersion,     \* bound: versions of one framework
    MaxOps,         \* bound: calls of users and of AMs
    MaxCrashes,     \* bound: restarts of the process
    MaxFailures,    \* bound: writes to ZooKeeper that fail a call
    MaxPulled,      \* bound: frameworks the Service knows of at a time
    None            \* null

Parents == [ name : Frameworks, deleteOnParentDeleted : BOOLEAN,
             stopOnParentStopped : BOOLEAN ]

ASSUME LauncherAssumption ==
    /\ IsFiniteSet(Frameworks) /\ DataDeployment \subseteq Frameworks
    /\ ParentsOf \in [ Frameworks -> SUBSET (Parents \cup { None }) ]
    /\ MaxTasks \in Nat /\ MaxTotalTaskNumber \in Nat /\ MaxVersion \in Nat
    /\ MaxOps \in Nat /\ MaxCrashes \in Nat /\ MaxFailures \in Nat
    /\ MaxPulled \in Nat

ExecutionTypes == { "START", "STOP" }
Versions       == 1 .. MaxVersion

\* The fields of FrameworkRequest that decide anything.
Requests == [ parent : Parents \cup { None }, executionType : ExecutionTypes,
              taskNumber : 0 .. MaxTasks, version : Versions ]

\* The fields of FrameworkStatus that decide anything.
Statuses == [ version : Versions, state : { "RUNNING", "FRAMEWORK_COMPLETED" } ]

ASSUME NoneIsNeither ==
    None \notin Requests /\ None \notin Statuses /\ None \notin Parents

VARIABLES
    requests,        \* aggFrameworkRequests: framework -> request, None if absent
    marks,           \* the further requests kept with it
    totalTaskNumber,
    zkRequests,      \* the same on ZooKeeper
    zkMarks,
    phase,           \* "idle", or the call that holds the write lock
    statuses,        \* aggFrameworkStatuses of the StatusManager
    puller,          \* where its thread is
    reuse,           \* frameworks whose status it will not pull again
    collecting,      \* completed frameworks gcCompletedFrameworks still has to look at
    pulled,          \* the versions the Service has last seen requested, 0 if none
    zkStatuses,      \* FrameworkStatuses on ZooKeeper
    retained,        \* frameworks and versions completed too recently to collect; a version
                     \* that is asked for again shares it with its earlier run
    asked,           \* ghost: frameworks and versions users have asked for
    again,           \* ghost: those asked for again, after a deletion or another version
    doubtful,        \* frameworks of which a write failed since the last start
    interrupted,     \* a call failed while it stopped child frameworks
    ops, crashes, failures

memVars  == << requests, marks, totalTaskNumber >>
zkVars   == << zkRequests, zkMarks >>
pullVars == << statuses, puller, reuse >>
srvVars  == << pulled, zkStatuses, retained >>
cntVars  == << asked, again, ops, crashes, failures >>
vars     == << memVars, zkVars, phase, pullVars, collecting, srvVars, doubtful,
               interrupted, cntVars >>

-----------------------------------------------------------------------------
(* RequestManager: InternalUtils *)

Exists(f)    == requests[f] # None
VersionOf(r) == IF r = None THEN 0 ELSE r.version
TasksOf(r)   == IF r = None THEN 0 ELSE r.taskNumber
TotalOf(rs)  == SumFunction([ f \in Frameworks |-> TasksOf(rs[f]) ])
ParentOf(f)  == requests[f].parent
HasParent(f) == Exists(f) /\ ParentOf(f) # None

\* What deleteOrphanFrameworks deletes.
DeleteOrphans ==
    { f \in Frameworks : HasParent(f)
        /\ ParentOf(f).deleteOnParentDeleted /\ ~Exists(ParentOf(f).name) }

StoppedIn(rs, f) == rs[f] # None /\ rs[f].executionType = "STOP"

\* What stopOrphanFrameworks stops.
StopOrphansIn(rs) ==
    { f \in Frameworks : rs[f] # None /\ rs[f].parent # None
        /\ rs[f].parent.stopOnParentStopped
        /\ rs[f].executionType # "STOP" /\ StoppedIn(rs, rs[f].parent.name) }

\* The child of a deleted parent is rejected.
Rejected(f, r) ==
    /\ r.parent # None /\ r.parent.deleteOnParentDeleted
    /\ ~Exists(r.parent.name) /\ r.parent.name # f

\* Mutation of Stored: a child is stopped only when its parent stops later.
StoredAsAsked(r) == r

\* The child of a stopped parent is stopped.
Stored(r) ==
    IF r.parent # None /\ r.parent.stopOnParentStopped /\ StoppedIn(requests, r.parent.name)
    THEN [ r EXCEPT !.executionType = "STOP" ] ELSE r

\* Mutation of NewTotal: the tasks of the request it replaces still count.
NewTotalOfAll(f, r) == totalTaskNumber + TasksOf(r)

NewTotal(f, r) == totalTaskNumber + TasksOf(r) - TasksOf(requests[f])

\* setFrameworkRequest, until it comes to the children.
SetFrameworkRequest(f, r) ==
    /\ ~Rejected(f, r)
    /\ NewTotal(f, r) <= MaxTotalTaskNumber
    /\ requests' = [ requests EXCEPT ![f] = Stored(r) ]
    /\ zkRequests' = [ zkRequests EXCEPT ![f] = Stored(r) ]
    /\ totalTaskNumber' = NewTotal(f, r)
    /\ UNCHANGED << marks, zkMarks >>

\* Mutation of DeleteInternal: the requests kept with it stay in memory.
DeleteInternalKeepingMarks(f) ==
    /\ requests' = [ requests EXCEPT ![f] = None ]
    /\ zkRequests' = [ zkRequests EXCEPT ![f] = None ]
    /\ zkMarks' = [ zkMarks EXCEPT ![f] = {} ]
    /\ totalTaskNumber' = totalTaskNumber - TasksOf(requests[f])
    /\ UNCHANGED marks

\* Mutation of DeleteInternal: the tasks are counted as they are on ZooKeeper.
DeleteInternalCountingStored(f) ==
    /\ requests' = [ requests EXCEPT ![f] = None ]
    /\ marks' = [ marks EXCEPT ![f] = {} ]
    /\ zkRequests' = [ zkRequests EXCEPT ![f] = None ]
    /\ zkMarks' = [ zkMarks EXCEPT ![f] = {} ]
    /\ totalTaskNumber' = totalTaskNumber - TasksOf(zkRequests[f])

\* deleteFrameworkRequestInternal
DeleteInternal(f) ==
    /\ requests' = [ requests EXCEPT ![f] = None ]
    /\ marks' = [ marks EXCEPT ![f] = {} ]
    /\ zkRequests' = [ zkRequests EXCEPT ![f] = None ]
    /\ zkMarks' = [ zkMarks EXCEPT ![f] = {} ]
    /\ totalTaskNumber' = totalTaskNumber - TasksOf(requests[f])

-----------------------------------------------------------------------------
(* RequestManager: ModifyInterface, as the HTTP handlers call it *)

\* The web application starts after both managers have recovered.
Serving == phase = "idle" /\ puller # "recover" /\ ops < MaxOps

quietVars == << pullVars, collecting, srvVars, crashes >>

\* An HTTP call that stores r as the request of f.
Call(f, r) ==
    /\ Serving
    /\ ops' = ops + 1
    /\ asked' = asked \cup { << f, r.version >> }
    /\ again' = IF VersionOf(requests[f]) = r.version THEN again
                ELSE again \cup (asked \cap { << f, r.version >> })
    /\ \/ /\ SetFrameworkRequest(f, r)
          /\ phase' = IF Stored(r).executionType = "STOP" THEN "stop" ELSE "idle"
          /\ UNCHANGED << doubtful, interrupted, failures >>
       \/ \* The write fails, though it may have been made: status 503.
          /\ failures < MaxFailures
          /\ ~Rejected(f, r) /\ NewTotal(f, r) <= MaxTotalTaskNumber
          /\ failures' = failures + 1
          /\ doubtful' = doubtful \cup { f }
          /\ zkRequests' = [ zkRequests EXCEPT ![f] = Stored(r) ]
          /\ UNCHANGED << memVars, zkMarks, phase, interrupted >>
    /\ UNCHANGED quietVars

\* putFramework, with any version: that of the request there is, another one, or one that
\* was deleted (the rest-server always sends the same).
PutFramework(f) ==
    \E p \in ParentsOf[f], type \in ExecutionTypes, n \in 0 .. MaxTasks, v \in Versions :
        Call(f, [ parent |-> p, executionType |-> type, taskNumber |-> n, version |-> v ])

UpdateTaskNumber(f) ==
    /\ Exists(f)
    /\ \E n \in 0 .. MaxTasks : Call(f, [ requests[f] EXCEPT !.taskNumber = n ])

UpdateExecutionType(f) ==
    /\ Exists(f)
    /\ \E type \in ExecutionTypes : Call(f, [ requests[f] EXCEPT !.executionType = type ])

\* remove(f) == null: only the deletion of what did not exist looks for orphans.
DeleteFramework(f) ==
    /\ Serving
    /\ ops' = ops + 1
    /\ \/ /\ DeleteInternal(f)
          /\ phase' = IF Exists(f) THEN "idle" ELSE "delete"
          /\ UNCHANGED << doubtful, failures >>
       \/ \* deleteRecursively fails after the children, or with the node deleted too.
          /\ failures < MaxFailures
          /\ failures' = failures + 1
          /\ doubtful' = doubtful \cup { f }
          /\ zkMarks' = [ zkMarks EXCEPT ![f] = {} ]
          /\ zkRequests' \in { zkRequests, [ zkRequests EXCEPT ![f] = None ] }
          /\ UNCHANGED << memVars, phase >>
    /\ UNCHANGED << quietVars, interrupted, asked, again >>

\* What follows a write of the further requests of f: success, or a failure.
Remember(f, ms) ==
    /\ ops' = ops + 1
    /\ \/ /\ marks' = [ marks EXCEPT ![f] = ms ]
          /\ UNCHANGED << doubtful, failures >>
       \/ /\ failures < MaxFailures
          /\ failures' = failures + 1
          /\ doubtful' = doubtful \cup { f }
          /\ UNCHANGED marks

\* updateMigrateTask and updateApplicationProgress write a node below that of the
\* framework, deleteMigrateTaskRequest removes one.
UpdateMark(f) ==
    /\ Serving /\ Exists(f) /\ zkRequests[f] # None
    /\ \E m \in Marks :
          /\ zkMarks' = [ zkMarks EXCEPT ![f] = @ \cup { m } ]
          /\ Remember(f, marks[f] \cup { m })
    /\ UNCHANGED << quietVars, requests, totalTaskNumber, zkRequests, phase,
                    interrupted, asked, again >>

DeleteMark(f) ==
    /\ Serving
    /\ \E m \in Marks :
          /\ zkMarks' = [ zkMarks EXCEPT ![f] = @ \ { m } ]
          /\ Remember(f, marks[f] \ { m })
    /\ UNCHANGED << quietVars, requests, totalTaskNumber, zkRequests, phase,
                    interrupted, asked, again >>

-----------------------------------------------------------------------------
(* RequestManager: child frameworks *)

Stopping  == { "stop", "recoverStop" }
Deleting  == { "delete", "recoverDelete" }

StopOrphan ==
    /\ phase \in Stopping
    /\ \E f \in StopOrphansIn(requests) :
          SetFrameworkRequest(f, [ requests[f] EXCEPT !.executionType = "STOP" ])
    /\ UNCHANGED << phase, pullVars, collecting, srvVars, doubtful, interrupted, cntVars >>

\* A write fails: the call ends with status 503, the children stay as they are.
StopOrphanFails ==
    /\ phase = "stop" /\ failures < MaxFailures
    /\ totalTaskNumber <= MaxTotalTaskNumber
    /\ failures' = failures + 1
    /\ \E f \in StopOrphansIn(requests) :
          /\ doubtful' = doubtful \cup { f }
          /\ zkRequests' \in
                 { zkRequests,
                   [ zkRequests EXCEPT ![f] = [ requests[f] EXCEPT !.executionType = "STOP" ] ] }
    /\ interrupted' = TRUE
    /\ phase' = "idle"
    /\ UNCHANGED << memVars, zkMarks, pullVars, collecting, srvVars, asked, again, ops, crashes >>

\* The total may exceed the limit after a restart that found what failed calls
\* had stored: then no stop is accepted, and a start that has to stop one fails.
StopOrphanThrottled ==
    /\ phase \in Stopping /\ StopOrphansIn(requests) # {}
    /\ totalTaskNumber > MaxTotalTaskNumber
    /\ phase' = IF phase = "stop" THEN "idle" ELSE "failed"
    /\ interrupted' = TRUE
    /\ UNCHANGED << memVars, zkVars, pullVars, collecting, srvVars, doubtful, cntVars >>

NoMoreToStop ==
    /\ phase \in Stopping /\ StopOrphansIn(requests) = {}
    /\ phase' = "idle"
    /\ interrupted' = FALSE
    /\ UNCHANGED << memVars, zkVars, pullVars, collecting, srvVars, doubtful, cntVars >>

DeleteOrphan ==
    /\ phase \in Deleting
    /\ \E f \in DeleteOrphans : DeleteInternal(f)
    /\ UNCHANGED << phase, pullVars, collecting, srvVars, doubtful, interrupted, cntVars >>

\* Mutation of NoMoreToDelete: there is only one pass, children of children stay.
NoMoreToDeleteUnchecked ==
    /\ phase \in Deleting
    /\ phase' = IF phase = "recoverDelete" THEN "recoverStop" ELSE "idle"
    /\ UNCHANGED << memVars, zkVars, pullVars, collecting, srvVars, doubtful,
                    interrupted, cntVars >>

NoMoreToDelete ==
    /\ phase \in Deleting /\ DeleteOrphans = {}
    /\ phase' = IF phase = "recoverDelete" THEN "recoverStop" ELSE "idle"
    /\ UNCHANGED << memVars, zkVars, pullVars, collecting, srvVars, doubtful,
                    interrupted, cntVars >>

-----------------------------------------------------------------------------
(* The StatusManager's thread *)

Completed(s) == s # None /\ s.state = "FRAMEWORK_COMPLETED"

\* pullStatus of recover.
RecoverStatuses ==
    /\ puller = "recover" /\ phase = "idle"
    /\ statuses' = zkStatuses
    /\ puller' = "collect"
    /\ UNCHANGED << memVars, zkVars, phase, reuse, collecting, srvVars, doubtful,
                    interrupted, cntVars >>

\* updateCompletedFrameworkStatuses: gcCompletedFrameworks takes the lock.
Collect ==
    /\ puller = "collect" /\ phase = "idle"
    /\ collecting' = { f \in Frameworks : Completed(statuses[f]) }
    /\ puller' = "reuse"
    /\ phase' = "collect"
    /\ UNCHANGED << memVars, zkVars, statuses, reuse, srvVars, doubtful, interrupted, cntVars >>

\* Mutation of Collectable: the completed status may be that of another version.
CollectableAnyVersion(f) ==
    /\ Exists(f) /\ f \notin DataDeployment
    /\ << f, statuses[f].version >> \notin retained

Collectable(f) ==
    /\ Exists(f) /\ requests[f].version = statuses[f].version
    /\ f \notin DataDeployment
    /\ << f, statuses[f].version >> \notin retained

CollectNext ==
    /\ phase = "collect"
    /\ \E f \in collecting :
          /\ collecting' = collecting \ { f }
          /\ IF Collectable(f) THEN DeleteInternal(f) ELSE UNCHANGED << memVars, zkVars >>
    /\ UNCHANGED << phase, pullVars, srvVars, doubtful, interrupted, cntVars >>

CollectDone ==
    /\ phase = "collect" /\ collecting = {}
    /\ phase' = "idle"
    /\ UNCHANGED << memVars, zkVars, pullVars, collecting, srvVars, doubtful,
                    interrupted, cntVars >>

\* Mutation of Reusable: a status that is not final is pulled only once.
ReusableNotFinal ==
    { f \in Frameworks : Exists(f) /\ statuses[f] # None
        /\ statuses[f].version = requests[f].version }

\* Mutation of Reusable: the status may be that of another version.
ReusableAnyVersion == { f \in Frameworks : Exists(f) /\ Completed(statuses[f]) }

\* getReusableAggregatedFrameworkStatuses
Reusable ==
    { f \in Frameworks : Exists(f) /\ Completed(statuses[f])
        /\ statuses[f].version = requests[f].version }

ChooseReusable ==
    /\ puller = "reuse" /\ phase = "idle"
    /\ reuse' = Reusable
    /\ puller' = "pull"
    /\ UNCHANGED << memVars, zkVars, phase, statuses, collecting, srvVars, doubtful,
                    interrupted, cntVars >>

Pull ==
    /\ puller = "pull"
    /\ statuses' = [ f \in Frameworks |-> IF f \in reuse THEN statuses[f] ELSE zkStatuses[f] ]
    /\ reuse' = {}
    /\ puller' = "collect"
    /\ UNCHANGED << memVars, zkVars, phase, collecting, srvVars, doubtful, interrupted, cntVars >>

-----------------------------------------------------------------------------
(* The process dies, or exits on an exception of a thread, and starts again *)

\* deleteRecursively deletes what is below the node of a framework before the node.
BeingDeleted ==
    CASE phase = "idle" /\ Serving -> Frameworks
      [] phase \in Deleting -> DeleteOrphans
      [] phase = "collect" -> { f \in collecting : Collectable(f) }
      [] OTHER -> {}

Restart ==
    /\ crashes < MaxCrashes
    /\ crashes' = crashes + 1
    /\ requests' = zkRequests
    /\ \E fs \in { {} } \cup { { f } : f \in BeingDeleted } :
          zkMarks' = [ f \in Frameworks |-> IF f \in fs THEN {} ELSE zkMarks[f] ]
    /\ marks' = zkMarks'
    /\ totalTaskNumber' = TotalOf(zkRequests)
    /\ phase' = "recoverDelete"
    /\ statuses' = [ f \in Frameworks |-> None ]
    /\ puller' = "recover"
    /\ reuse' = {} /\ collecting' = {}
    /\ doubtful' = {} /\ interrupted' = FALSE
    /\ UNCHANGED << zkRequests, srvVars, asked, again, ops, failures >>

-----------------------------------------------------------------------------
(* The launcher Service, which follows what it last saw requested, and time *)

Running(v) == [ version |-> v, state |-> "RUNNING" ]

ServicePulls(f) ==
    /\ Cardinality({ g \in Frameworks \ { f } : pulled[g] # 0 }) < MaxPulled
    /\ pulled' = [ pulled EXCEPT ![f] = VersionOf(zkRequests[f]) ]
    /\ UNCHANGED << zkStatuses, retained >>

\* addFramework, and upgradeFramework, which overwrites the status.
ServiceAdds(f) ==
    /\ pulled[f] \notin { 0, VersionOf(zkStatuses[f]) }
    /\ zkStatuses' = [ zkStatuses EXCEPT ![f] = Running(pulled[f]) ]
    /\ UNCHANGED << pulled, retained >>

ServiceRemoves(f) ==
    /\ pulled[f] = 0 /\ zkStatuses[f] # None
    /\ zkStatuses' = [ zkStatuses EXCEPT ![f] = None ]
    /\ UNCHANGED << pulled, retained >>

ServiceCompletes(f) ==
    /\ zkStatuses[f] # None /\ zkStatuses[f].state = "RUNNING"
    /\ zkStatuses' = [ zkStatuses EXCEPT ![f].state = "FRAMEWORK_COMPLETED" ]
    /\ retained' = retained \cup { << f, zkStatuses[f].version >> }
    /\ UNCHANGED pulled

\* FrameworkCompletedRetainSec have passed.
RetentionEnds ==
    /\ \E x \in retained : retained' = retained \ { x }
    /\ UNCHANGED << pulled, zkStatuses >>

Environment ==
    /\ \/ \E f \in Frameworks :
             ServicePulls(f) \/ ServiceAdds(f) \/ ServiceCompletes(f) \/ ServiceRemoves(f)
       \/ RetentionEnds
    /\ UNCHANGED << memVars, zkVars, phase, pullVars, collecting, doubtful, interrupted, cntVars >>

-----------------------------------------------------------------------------

Init ==
    /\ requests = [ f \in Frameworks |-> None ]
    /\ marks = [ f \in Frameworks |-> {} ]
    /\ totalTaskNumber = 0
    /\ zkRequests = requests /\ zkMarks = marks
    /\ phase = "recoverDelete"
    /\ statuses = [ f \in Frameworks |-> None ]
    /\ puller = "recover"
    /\ reuse = {} /\ collecting = {}
    /\ zkStatuses = statuses
    /\ retained = {}
    /\ pulled = [ f \in Frameworks |-> 0 ]
    /\ asked = {} /\ again = {}
    /\ doubtful = {} /\ interrupted = FALSE
    /\ ops = 0 /\ crashes = 0 /\ failures = 0

Children == StopOrphan \/ StopOrphanThrottled \/ NoMoreToStop \/ DeleteOrphan \/ NoMoreToDelete
Puller   == RecoverStatuses \/ Collect \/ CollectNext \/ CollectDone \/ ChooseReusable \/ Pull

Next ==
    \/ \E f \in Frameworks :
          \/ PutFramework(f) \/ UpdateTaskNumber(f) \/ UpdateExecutionType(f)
          \/ DeleteFramework(f) \/ UpdateMark(f) \/ DeleteMark(f)
    \/ Children \/ StopOrphanFails
    \/ Puller
    \/ Restart
    \/ Environment

Spec == Init /\ [][Next]_vars

\* The holder of the lock goes on, and the thread of the StatusManager, which the
\* fair lock serves in turn.
FairSpec == Spec /\ WF_vars(Children) /\ WF_vars(Puller)

-----------------------------------------------------------------------------
(* Properties *)

TypeOK ==
    /\ requests \in [ Frameworks -> Requests \cup { None } ]
    /\ marks \in [ Frameworks -> SUBSET Marks ]
    /\ totalTaskNumber \in Nat
    /\ zkRequests \in [ Frameworks -> Requests \cup { None } ]
    /\ zkMarks \in [ Frameworks -> SUBSET Marks ]
    /\ phase \in { "idle", "collect", "failed" } \cup Stopping \cup Deleting
    /\ statuses \in [ Frameworks -> Statuses \cup { None } ]
    /\ puller \in { "recover", "collect", "reuse", "pull" }
    /\ reuse \subseteq Frameworks /\ collecting \subseteq Frameworks
    /\ pulled \in [ Frameworks -> 0 .. MaxVersion ]
    /\ zkStatuses \in [ Frameworks -> Statuses \cup { None } ]
    /\ retained \subseteq Frameworks \X Versions
    /\ again \subseteq asked /\ asked \subseteq Frameworks \X Versions
    /\ doubtful \subseteq Frameworks /\ interrupted \in BOOLEAN
    /\ ops \in 0 .. MaxOps /\ crashes \in 0 .. MaxCrashes /\ failures \in 0 .. MaxFailures

\* What is in memory and on ZooKeeper is always the same, as the comment on
\* recover says, but for a framework a failed call has left in doubt.
RequestsConsistent ==
    \A f \in Frameworks \ doubtful :
        requests[f] = zkRequests[f] /\ marks[f] = zkMarks[f]

\* The total is that of the requests, and within its limit unless a restart found
\* what a failed call had stored.
TotalExact ==
    /\ totalTaskNumber = TotalOf(requests)
    /\ failures = 0 => totalTaskNumber <= MaxTotalTaskNumber

\* When the lock is free no child runs under a stopped parent that is to stop it,
\* at any depth, whatever was stored in which order; unless a write failed.
StopReachesChildren ==
    phase = "idle" /\ ~interrupted => StopOrphansIn(requests) = {}

\* Deletions and stops that a crash has cut short are completed by the next start
\* before it serves anyone.
RecoveredWithoutOrphans ==
    [][ phase = "recoverStop" /\ phase' = "idle" =>
          DeleteOrphans' = {} /\ StopOrphansIn(requests)' = {} ]_vars

\* As long as no write has failed, what is collected has completed, in the very
\* version that is requested, and long enough ago, though the status at hand may be
\* older than the request.  A version that was asked for again is excepted: a status of
\* its earlier run may still be at hand.
OnlyCompletedCollected ==
    [][ \A f \in Frameworks :
          /\ failures = 0 /\ phase = "collect" /\ zkRequests[f] # None /\ zkRequests'[f] = None
          /\ << f, zkRequests[f].version >> \notin again
          => /\ Completed(zkStatuses[f]) /\ zkStatuses[f].version = zkRequests[f].version
             /\ << f, zkRequests[f].version >> \notin retained ]_vars

\* As the comment of getReusableAggregatedFrameworkStatuses says: a status that is not
\* pulled again must be in ZooKeeper and the same there, while its version is requested.
ReusedStatusImmutable ==
    \A f \in reuse :
        failures = 0 /\ Exists(f) /\ requests[f].version = statuses[f].version
            => statuses[f] = zkStatuses[f]

\* And it is so, whatever was deleted and upgraded meanwhile, for every version that users
\* have not asked for again after they had deleted or replaced it.
ReusedStatusCurrent ==
    \A f \in reuse :
        /\ failures = 0 /\ Exists(f) /\ requests[f].version = statuses[f].version
        /\ << f, requests[f].version >> \notin again
        => statuses[f] = zkStatuses[f]

\* Every completed framework is collected eventually, even though its status does
\* not change any more and though its version was asked for again, once the Service follows
\* the request; unless users change it, a write fails or the launcher cannot start.
CompletedCollected ==
    \A f \in Frameworks \ DataDeployment, v \in Versions :
        (/\ VersionOf(zkRequests[f]) = v /\ pulled[f] = v /\ VersionOf(zkStatuses[f]) = v
         /\ Completed(zkStatuses[f]) /\ << f, v >> \notin retained)
      ~> (VersionOf(zkRequests[f]) # v \/ failures > 0 \/ phase = "failed")

=============================================================================
