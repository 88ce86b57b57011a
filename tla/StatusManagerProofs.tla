------------------------ MODULE StatusManagerProofs ------------------------
(***************************************************************************)
(* Proofs about StatusManager, for every set of roles, containers and hosts *)
(* and every bound: the indexes, the flags and the two copies of the        *)
(* statuses stay consistent under every legal sequence of its methods.      *)
(***************************************************************************)
EXTENDS StatusManager, TLAPS

\* The inductive invariant.  ContainerExclusive speaks of memory and ZooKeeper
\* together because a restart makes memory out of what ZooKeeper holds.
IInv ==
    /\ SMTypeOK
    /\ StatusesWellFormed
    /\ IndexesExact
    /\ ContainerExclusive
    /\ HostIndexSound
    /\ ChangedExact

Events == [ container : Containers \cup { None },
            exit      : ExitTypes \cup { "NONE" },
            retried   : 0 .. MaxRetried ]

\* The edges of the task state machine, with what each needs.
LegalEdge(t, dst, event) ==
    LET src == taskStatus[t].state IN
    \/ /\ src = "TASK_WAITING" /\ dst = "CONTAINER_REQUESTED"
       /\ nextPriority < MaxRequests
    \/ src = "CONTAINER_REQUESTED" /\ dst = "TASK_WAITING"
    \/ /\ src = "CONTAINER_REQUESTED" /\ dst = "CONTAINER_ALLOCATED"
       /\ event.container \in Containers
       /\ \A u \in Locators : zkStatus[u].container # event.container
                              /\ taskStatus[u].container # event.container
    \/ src = "CONTAINER_ALLOCATED" /\ dst = "CONTAINER_LAUNCHED"
    \/ src = "CONTAINER_LAUNCHED" /\ dst = "CONTAINER_RUNNING"
    \/ src \in LIVE_STATES /\ dst = "CONTAINER_COMPLETED"
    \/ src = "CONTAINER_COMPLETED" /\ dst = "TASK_WAITING"
    \/ src = "CONTAINER_COMPLETED" /\ dst = "TASK_COMPLETED"

-----------------------------------------------------------------------------
(* transitionTaskState along an edge *)

\* What an edge does, without the case of the state that does not change.
EdgeEffects(t, dst, event) ==
    LET src == taskStatus[t].state IN
    /\ src \in TaskStates /\ src # dst /\ t[1] \in Roles
    /\ taskStatus[t] \in TaskStatuses
    /\ taskStatus' = [ taskStatus EXCEPT ![t] = Transitioned(taskStatus[t], dst, event) ]
    /\ taskStateLocators' = [ s \in TaskStates |->
           IF s = src THEN taskStateLocators[s] \ { t }
           ELSE IF s = dst THEN taskStateLocators[s] \cup { t }
           ELSE taskStateLocators[s] ]
    /\ TransitionRequest(t, src, dst)
    /\ TransitionLiveness(t, src, dst, event)
    /\ allocated' = [ allocated EXCEPT ![t] =
           IF dst = "CONTAINER_ALLOCATED" THEN event.container
           ELSE IF src = "CONTAINER_ALLOCATED" THEN None ELSE allocated[t] ]
    /\ changed' = [ changed EXCEPT ![t[1]] = TRUE ]
    /\ OutstandingCallbacks(FALSE)
    /\ UNCHANGED << taskNumber, zkNumber, zkStatus >>

\* A legal edge changes the state: it has the effects above.
LEMMA EdgeHasEffects ==
    ASSUME SMTypeOK, NEW t \in Locators, NEW dst \in TaskStates, NEW event \in Events,
           LegalEdge(t, dst, event), TransitionTaskState(t, dst, event)
    PROVE  EdgeEffects(t, dst, event)
<1>1. /\ taskStatus[t] \in TaskStatuses /\ t[1] \in Roles
      /\ taskStatus[t].state \in TaskStates /\ taskStatus[t].state # dst
  BY DEF SMTypeOK, LegalEdge, TaskStatuses, Locators, LIVE_STATES, TaskStates
<1>. QED BY <1>1 DEF TransitionTaskState, EdgeEffects, zkVars

\* The status an edge leaves is a status, in the state the edge leads to.
LEMMA TransitionedStatus ==
    ASSUME SMTypeOK, NEW t \in Locators, NEW dst \in TaskStates, NEW event \in Events,
           LegalEdge(t, dst, event)
    PROVE  /\ Transitioned(taskStatus[t], dst, event) \in TaskStatuses
           /\ Transitioned(taskStatus[t], dst, event).state = dst
<1>1. taskStatus[t] \in TaskStatuses /\ 0 \in 0 .. LostBound
  BY ConstantsAssumption DEF SMTypeOK
<1>. QED
  BY <1>1 DEF Transitioned, TaskStatuses, Events, LegalEdge, ASSOCIATED_STATES,
              LIVE_STATES, TaskStates

\* An edge keeps the types.
LEMMA EdgeTypes ==
    ASSUME SMTypeOK, NEW t \in Locators, NEW dst \in TaskStates, NEW event \in Events,
           LegalEdge(t, dst, event), EdgeEffects(t, dst, event)
    PROVE  SMTypeOK'
<1> DEFINE src == taskStatus[t].state
<1>1. taskStatus' \in [ Locators -> TaskStatuses ]
  <2>1. Transitioned(taskStatus[t], dst, event) \in TaskStatuses
    BY TransitionedStatus
  <2>. QED BY <2>1 DEF SMTypeOK, EdgeEffects
<1>2. taskStateLocators' \in [ TaskStates -> SUBSET Locators ]
  BY DEF SMTypeOK, EdgeEffects
<1>3. /\ liveLocators' \in [ Containers -> Locators \cup { None } ]
      /\ liveHosts' \in SUBSET Hosts
  <2>0. TransitionLiveness(t, src, dst, event) /\ taskStatus[t] \in TaskStatuses
    BY DEF EdgeEffects
  <2>1. CASE src \notin LIVE_STATES /\ dst \in LIVE_STATES
    <3>1. event.container \in Containers
      BY <2>1 DEF LegalEdge, LIVE_STATES
    <3>2. HostOf[event.container] \in Hosts
      BY <3>1, ConstantsAssumption
    <3>3. /\ liveLocators' = [ liveLocators EXCEPT ![event.container] = t ]
          /\ liveHosts' = liveHosts \cup { HostOf[event.container] }
      BY <2>1, <2>0 DEF TransitionLiveness
    <3>. QED BY <3>1, <3>2, <3>3 DEF SMTypeOK
  <2>2. CASE src \in LIVE_STATES /\ dst \notin LIVE_STATES
    BY <2>2, <2>0 DEF SMTypeOK, TransitionLiveness, ForgetLive
  <2>3. CASE src \in LIVE_STATES <=> dst \in LIVE_STATES
    BY <2>3, <2>0 DEF SMTypeOK, TransitionLiveness
  <2>. QED BY <2>1, <2>2, <2>3
<1>4. /\ containerRequests' \in [ Locators -> Priorities \cup { None } ]
      /\ priorityLocators' \in [ Priorities -> Locators \cup { None } ]
      /\ nextPriority' \in 0 .. MaxRequests
  <2>0. TransitionRequest(t, src, dst)
    BY DEF EdgeEffects
  <2>1. CASE dst = "CONTAINER_REQUESTED"
    <3>1. nextPriority \in Priorities /\ nextPriority + 1 \in 0 .. MaxRequests
      BY <2>1, ConstantsAssumption DEF LegalEdge, Priorities, SMTypeOK
    <3>. QED BY <3>1, <2>1, <2>0 DEF SMTypeOK, TransitionRequest
  <2>2. CASE dst # "CONTAINER_REQUESTED"
    BY <2>2, <2>0 DEF SMTypeOK, TransitionRequest, WithoutRequests, reqVars
  <2>. QED BY <2>1, <2>2
<1>5. allocated' \in [ Locators -> Containers \cup { None } ]
  BY DEF SMTypeOK, Events, EdgeEffects
<1>6. changed' \in [ Roles -> BOOLEAN ]
  BY DEF SMTypeOK, EdgeEffects
<1>7. triggered' \in BOOLEAN /\ round' \in Nat
  BY DEF SMTypeOK, EdgeEffects, OutstandingCallbacks, Disappears, Appears
<1>8. /\ taskNumber' \in [ Roles -> 0 .. MaxTasks ]
      /\ zkNumber' \in [ Roles -> 0 .. MaxTasks ]
      /\ zkStatus' \in [ Locators -> TaskStatuses ]
  BY DEF SMTypeOK, EdgeEffects
<1>. QED BY <1>1, <1>2, <1>3, <1>4, <1>5, <1>6, <1>7, <1>8 DEF SMTypeOK

\* The statuses after an edge: only t's is another, and its container is the
\* event's when t becomes associated, none when t is no longer, else its own.
LEMMA EdgeStatuses ==
    ASSUME SMTypeOK, NEW t \in Locators, NEW dst \in TaskStates, NEW event \in Events,
           LegalEdge(t, dst, event), EdgeEffects(t, dst, event)
    PROVE  /\ \A u \in Locators : u # t => taskStatus'[u] = taskStatus[u]
           /\ taskStatus'[t].state = dst
           /\ dst \notin ASSOCIATED_STATES => taskStatus'[t].container = None
           /\ dst \in ASSOCIATED_STATES /\ taskStatus[t].state \in ASSOCIATED_STATES
                 => taskStatus'[t].container = taskStatus[t].container
           /\ dst \in ASSOCIATED_STATES /\ taskStatus[t].state \notin ASSOCIATED_STATES
                 => /\ dst = "CONTAINER_ALLOCATED"
                    /\ taskStatus'[t].container = event.container
                    /\ event.container \in Containers
                    /\ \A u \in Locators : /\ zkStatus[u].container # event.container
                                           /\ taskStatus[u].container # event.container
<1>1. taskStatus'[t] = Transitioned(taskStatus[t], dst, event)
  BY DEF SMTypeOK, EdgeEffects
<1>2. \A u \in Locators : u # t => taskStatus'[u] = taskStatus[u]
  BY DEF SMTypeOK, EdgeEffects
<1>3. ASSUME dst \in ASSOCIATED_STATES, taskStatus[t].state \notin ASSOCIATED_STATES
      PROVE  /\ dst = "CONTAINER_ALLOCATED" /\ event.container \in Containers
             /\ \A u \in Locators : /\ zkStatus[u].container # event.container
                                    /\ taskStatus[u].container # event.container
  BY <1>3 DEF LegalEdge, ASSOCIATED_STATES, LIVE_STATES
<1>. QED BY <1>1, <1>2, <1>3 DEF Transitioned

\* An edge associates a container with the task exactly in the associated states.
LEMMA EdgeWellFormed ==
    ASSUME SMTypeOK, NEW t \in Locators, NEW dst \in TaskStates, NEW event \in Events,
           LegalEdge(t, dst, event), EdgeEffects(t, dst, event), StatusesWellFormed
    PROVE  StatusesWellFormed'
<1>1. taskStatus[t].state # "ABSENT" /\ dst # "ABSENT"
  BY DEF EdgeEffects, TaskStates
<1>2. UNCHANGED << taskNumber, zkNumber, zkStatus >>
  BY DEF EdgeEffects
<1>3. /\ taskStatus'[t].state = dst
      /\ taskStatus'[t].container # None <=> dst \in ASSOCIATED_STATES
      /\ \A u \in Locators : u # t => taskStatus'[u] = taskStatus[u]
  BY EdgeStatuses, ConstantsAssumption DEF StatusesWellFormed, WellFormed
<1>. QED BY <1>1, <1>2, <1>3 DEF StatusesWellFormed, WellFormed

\* An edge moves the task from one set of taskStateLocators to the other.
LEMMA EdgeStateIndex ==
    ASSUME SMTypeOK, NEW t \in Locators, NEW dst \in TaskStates, NEW event \in Events,
           LegalEdge(t, dst, event), EdgeEffects(t, dst, event), StateIndexExact
    PROVE  StateIndexExact'
<1>1. /\ taskStatus'[t].state = dst
      /\ \A u \in Locators : u # t => taskStatus'[u] = taskStatus[u]
  BY EdgeStatuses
<1>2. taskStatus[t].state # dst
  BY DEF EdgeEffects
<1>. SUFFICES ASSUME NEW s \in TaskStates, NEW u \in Locators
              PROVE  u \in taskStateLocators'[s] <=> taskStatus'[u].state = s
  <2>1. taskStateLocators' \in [ TaskStates -> SUBSET Locators ]
    BY EdgeTypes DEF SMTypeOK
  <2>. QED BY <2>1 DEF StateIndexExact
<1>3. u \in taskStateLocators[s] <=> taskStatus[u].state = s
  BY DEF StateIndexExact
<1>4. u \in taskStateLocators'[s] <=>
        IF u = t THEN s = dst ELSE u \in taskStateLocators[s]
  BY <1>2, <1>3 DEF EdgeEffects
<1>. QED BY <1>1, <1>3, <1>4

\* An edge enters or removes the one container of the task: a container that is
\* allocated was no task's before.
LEMMA EdgeLiveIndex ==
    ASSUME SMTypeOK, NEW t \in Locators, NEW dst \in TaskStates, NEW event \in Events,
           LegalEdge(t, dst, event), EdgeEffects(t, dst, event),
           StatusesWellFormed, LiveIndexExact
    PROVE  LiveIndexExact'
<1> DEFINE src == taskStatus[t].state
<1>1. TransitionLiveness(t, src, dst, event)
  BY DEF EdgeEffects
<1>2. /\ taskStatus'[t].state = dst
      /\ \A u \in Locators : u # t => taskStatus'[u] = taskStatus[u]
  BY EdgeStatuses
<1>3. LIVE_STATES \subseteq ASSOCIATED_STATES
  BY DEF ASSOCIATED_STATES
<1>. SUFFICES ASSUME NEW c \in Containers, NEW u \in Locators
              PROVE  liveLocators'[c] = u <=>
                        taskStatus'[u].state \in LIVE_STATES /\ taskStatus'[u].container = c
  BY DEF LiveIndexExact
<1>4. \A v \in Locators : liveLocators[c] = v <=>
         taskStatus[v].state \in LIVE_STATES /\ taskStatus[v].container = c
  BY DEF LiveIndexExact
<1>5. CASE src \notin LIVE_STATES /\ dst \in LIVE_STATES
  <2>1. /\ taskStatus'[t].container = event.container /\ event.container \in Containers
        /\ taskStatus[u].container # event.container
    <3>1. src \notin ASSOCIATED_STATES
      BY <1>5 DEF LegalEdge, ASSOCIATED_STATES, LIVE_STATES
    <3>. QED BY <3>1, <1>3, <1>5, EdgeStatuses
  <2>2. liveLocators' = [ liveLocators EXCEPT ![event.container] = t ]
    BY <1>1, <1>5 DEF TransitionLiveness
  <2>3. liveLocators'[c] = IF c = event.container THEN t ELSE liveLocators[c]
    BY <2>1, <2>2 DEF SMTypeOK
  <2>. QED BY <2>1, <2>3, <1>2, <1>4, <1>5
<1>6. CASE src \in LIVE_STATES /\ dst \notin LIVE_STATES
  <2>1. liveLocators'[c] = IF c = taskStatus[t].container THEN None ELSE liveLocators[c]
    BY <1>1, <1>6 DEF TransitionLiveness, ForgetLive
  <2>2. u # None
    BY NoneAssumption
  <2>. QED BY <2>1, <2>2, <1>2, <1>4, <1>6
<1>7. CASE src \in LIVE_STATES <=> dst \in LIVE_STATES
  <2>1. liveLocators' = liveLocators
    BY <1>1, <1>7 DEF TransitionLiveness
  <2>2. dst \in LIVE_STATES => taskStatus'[t].container = taskStatus[t].container
    BY <1>3, <1>7, EdgeStatuses
  <2>. QED BY <2>1, <2>2, <1>2, <1>4, <1>7
<1>. QED BY <1>5, <1>6, <1>7

\* An edge into CONTAINER_REQUESTED takes a priority no request holds; an edge out
\* of it drops the request from both maps.
LEMMA EdgeRequestIndex ==
    ASSUME SMTypeOK, NEW t \in Locators, NEW dst \in TaskStates, NEW event \in Events,
           LegalEdge(t, dst, event), EdgeEffects(t, dst, event), RequestIndexExact
    PROVE  RequestIndexExact'
<1> DEFINE src == taskStatus[t].state
<1>1. TransitionRequest(t, src, dst) /\ src # dst
  BY DEF EdgeEffects
<1>2. /\ taskStatus'[t].state = dst
      /\ \A u \in Locators : u # t => taskStatus'[u] = taskStatus[u]
  BY EdgeStatuses
<1>3. \A p \in Priorities : p \in Int /\ p # None
  BY NoneAssumption DEF Priorities
<1>4. \A u \in Locators : u # None
  BY NoneAssumption
<1>5. CASE dst = "CONTAINER_REQUESTED"
  <2>1. nextPriority \in Priorities /\ src # "CONTAINER_REQUESTED"
    BY <1>5, ConstantsAssumption DEF LegalEdge, Priorities, SMTypeOK
  <2>2. /\ nextPriority' = nextPriority + 1
        /\ containerRequests' = [ containerRequests EXCEPT ![t] = nextPriority ]
        /\ priorityLocators' = [ priorityLocators EXCEPT ![nextPriority] = t ]
    BY <1>1, <1>5 DEF TransitionRequest
  <2>3. containerRequests[t] = None /\ priorityLocators[nextPriority] \notin Locators
    BY <2>1, <1>3 DEF RequestIndexExact, SMTypeOK
  <2>4. ASSUME NEW u \in Locators, NEW p \in Priorities
        PROVE  priorityLocators'[p] = u <=> containerRequests'[u] = p
    BY <2>1, <2>2, <2>3, <1>3 DEF RequestIndexExact, SMTypeOK
  <2>5. ASSUME NEW u \in Locators, containerRequests'[u] # None
        PROVE  /\ taskStatus'[u].state = "CONTAINER_REQUESTED"
               /\ containerRequests'[u] < nextPriority'
    BY <2>1, <2>2, <2>5, <1>2, <1>3, <1>5 DEF RequestIndexExact, SMTypeOK
  <2>. QED BY <2>4, <2>5 DEF RequestIndexExact
<1>6. CASE src = "CONTAINER_REQUESTED"
  <2>1. WithoutRequests({ t }) /\ nextPriority' = nextPriority
    BY <1>1, <1>6 DEF TransitionRequest
  <2>. QED BY <2>1, <1>2, <1>3, <1>4, <1>6 DEF RequestIndexExact, WithoutRequests
<1>7. CASE src # "CONTAINER_REQUESTED" /\ dst # "CONTAINER_REQUESTED"
  <2>1. UNCHANGED << containerRequests, priorityLocators, nextPriority >>
    BY <1>1, <1>7 DEF TransitionRequest, reqVars
  <2>. QED BY <2>1, <1>2, <1>7 DEF RequestIndexExact
<1>. QED BY <1>5, <1>6, <1>7

\* An edge keeps a Container object only for a CONTAINER_ALLOCATED task.
LEMMA EdgeAllocatedIndex ==
    ASSUME SMTypeOK, NEW t \in Locators, NEW dst \in TaskStates, NEW event \in Events,
           LegalEdge(t, dst, event), EdgeEffects(t, dst, event), AllocatedIndexExact
    PROVE  AllocatedIndexExact'
<1>1. /\ taskStatus'[t].state = dst /\ taskStatus[t].state # dst
      /\ \A u \in Locators : u # t => taskStatus'[u] = taskStatus[u]
      /\ dst = "CONTAINER_ALLOCATED" => taskStatus'[t].container = event.container
  <2>1. dst = "CONTAINER_ALLOCATED" =>
           dst \in ASSOCIATED_STATES /\ taskStatus[t].state \notin ASSOCIATED_STATES
    BY DEF LegalEdge, ASSOCIATED_STATES, LIVE_STATES
  <2>. QED BY <2>1, EdgeStatuses DEF EdgeEffects
<1>. SUFFICES ASSUME NEW u \in Locators
              PROVE  allocated'[u] = IF taskStatus'[u].state = "CONTAINER_ALLOCATED"
                                     THEN taskStatus'[u].container ELSE None
  BY DEF AllocatedIndexExact
<1>2. allocated'[u] = IF u # t THEN allocated[u]
                      ELSE IF dst = "CONTAINER_ALLOCATED" THEN event.container
                      ELSE IF taskStatus[t].state = "CONTAINER_ALLOCATED" THEN None
                      ELSE allocated[t]
  BY DEF EdgeEffects, SMTypeOK
<1>. QED BY <1>1, <1>2 DEF AllocatedIndexExact

\* An edge gives a task only a container that was never any task's.
LEMMA EdgeExclusive ==
    ASSUME SMTypeOK, NEW t \in Locators, NEW dst \in TaskStates, NEW event \in Events,
           LegalEdge(t, dst, event), EdgeEffects(t, dst, event), ContainerExclusive
    PROVE  ContainerExclusive'
<1>1. zkStatus' = zkStatus
  BY DEF EdgeEffects
<1>2. \A u \in Locators : u # t => taskStatus'[u] = taskStatus[u]
  BY EdgeStatuses
<1>3. \/ taskStatus'[t].container \in { None, taskStatus[t].container }
      \/ \A u \in Locators : /\ zkStatus[u].container # taskStatus'[t].container
                             /\ taskStatus[u].container # taskStatus'[t].container
  BY EdgeStatuses
<1>. QED BY <1>1, <1>2, <1>3 DEF ContainerExclusive

\* An edge counts the host of the container it enters, and forgets the other.
LEMMA EdgeHostIndex ==
    ASSUME SMTypeOK, NEW t \in Locators, NEW dst \in TaskStates, NEW event \in Events,
           LegalEdge(t, dst, event), EdgeEffects(t, dst, event), HostIndexSound
    PROVE  HostIndexSound'
<1> DEFINE src == taskStatus[t].state
<1>1. TransitionLiveness(t, src, dst, event)
  BY DEF EdgeEffects
<1>. SUFFICES ASSUME NEW h \in liveHosts'
              PROVE  \E c \in Containers : liveLocators'[c] # None /\ HostOf[c] = h
  BY DEF HostIndexSound, LiveAssociatedContainers, IsLiveAssociated
<1>2. h \in liveHosts => \E c \in Containers : liveLocators[c] # None /\ HostOf[c] = h
  BY DEF HostIndexSound, LiveAssociatedContainers, IsLiveAssociated
<1>3. CASE src \notin LIVE_STATES /\ dst \in LIVE_STATES
  <2>1. event.container \in Containers /\ t # None
    BY <1>3, NoneAssumption DEF LegalEdge, LIVE_STATES
  <2>2. /\ liveLocators' = [ liveLocators EXCEPT ![event.container] = t ]
        /\ liveHosts' = liveHosts \cup { HostOf[event.container] }
    BY <1>1, <1>3 DEF TransitionLiveness
  <2>. QED BY <2>1, <2>2, <1>2 DEF SMTypeOK
<1>4. CASE src \in LIVE_STATES /\ dst \notin LIVE_STATES
  BY <1>1, <1>2, <1>4 DEF TransitionLiveness, ForgetLive
<1>5. CASE src \in LIVE_STATES <=> dst \in LIVE_STATES
  BY <1>1, <1>2, <1>5 DEF TransitionLiveness
<1>. QED BY <1>3, <1>4, <1>5

\* An edge marks the role of its task as changed.
LEMMA EdgeChanged ==
    ASSUME SMTypeOK, NEW t \in Locators, NEW dst \in TaskStates, NEW event \in Events,
           LegalEdge(t, dst, event), EdgeEffects(t, dst, event), ChangedExact
    PROVE  ChangedExact'
<1>1. \A u \in Locators : u[1] # t[1] => taskStatus'[u] = taskStatus[u]
  BY EdgeStatuses
<1>2. changed' = [ changed EXCEPT ![t[1]] = TRUE ] /\ t[1] \in Roles
  BY DEF EdgeEffects
<1>3. UNCHANGED << taskNumber, zkNumber, zkStatus >>
  BY DEF EdgeEffects
<1>. QED BY <1>1, <1>2, <1>3 DEF ChangedExact, SMTypeOK

\* transitionTaskState along an edge of the state machine keeps the invariant.
LEMMA EdgeKeepsIInv ==
    ASSUME IInv, NEW t \in Locators, NEW dst \in TaskStates, NEW event \in Events,
           LegalEdge(t, dst, event), TransitionTaskState(t, dst, event)
    PROVE  IInv'
<1>1. SMTypeOK /\ EdgeEffects(t, dst, event)
  BY EdgeHasEffects DEF IInv
<1>. QED
  BY <1>1, EdgeTypes, EdgeWellFormed, EdgeStateIndex, EdgeLiveIndex, EdgeRequestIndex,
     EdgeAllocatedIndex, EdgeExclusive, EdgeHostIndex, EdgeChanged
     DEF IInv, IndexesExact

-----------------------------------------------------------------------------
(* The other methods *)

\* A container that cannot be associated takes the request with it.
LEMMA FailToAssociateKeepsIInv ==
    ASSUME IInv, NEW t \in Locators, FailToAssociate(t)
    PROVE  IInv'
<1>. USE DEF IInv, FailToAssociate, memVars, extVars, gangVars, zkVars
<1>1. SMTypeOK'
  BY DEF SMTypeOK, WithoutRequests, Locators
<1>2. RequestIndexExact'
  <2>1. \A u \in Locators : u # None
    BY NoneAssumption
  <2>2. \A p \in Priorities : p # None
    BY NoneAssumption
  <2>. QED BY <2>1, <2>2 DEF IndexesExact, RequestIndexExact, WithoutRequests
<1>3. StatusesWellFormed' /\ ContainerExclusive' /\ HostIndexSound'
  BY DEF StatusesWellFormed, WellFormed, ContainerExclusive, HostIndexSound,
         LiveAssociatedContainers, IsLiveAssociated
<1>4. StateIndexExact' /\ LiveIndexExact' /\ AllocatedIndexExact'
  BY DEF IndexesExact, StateIndexExact, LiveIndexExact, AllocatedIndexExact
<1>5. ChangedExact'
  BY DEF ChangedExact, SMTypeOK
<1>. QED BY <1>1, <1>2, <1>3, <1>4, <1>5 DEF IndexesExact

\* Counting lost containers touches no other field of a status.
LEMMA SetLostCountsKeepsIInv ==
    ASSUME IInv, NEW count \in [ Locators -> 0 .. LostBound ], SetLostCounts(count)
    PROVE  IInv'
<1>. USE DEF IInv, SetLostCounts, extVars, reqVars, gangVars, zkVars
<1>1. \A t \in Locators : /\ taskStatus[t] \in TaskStatuses
                          /\ taskStatus'[t] = [ taskStatus[t] EXCEPT !.lost = count[t] ]
  BY DEF SMTypeOK
<1>2. \A t \in Locators : /\ taskStatus'[t] \in TaskStatuses
                          /\ taskStatus'[t].state = taskStatus[t].state
                          /\ taskStatus'[t].container = taskStatus[t].container
                          /\ count[t] = taskStatus[t].lost => taskStatus'[t] = taskStatus[t]
  BY <1>1, SMTT(30) DEF TaskStatuses
<1>3. SMTypeOK'
  BY <1>2 DEF SMTypeOK
<1>4. StatusesWellFormed' /\ HostIndexSound'
  BY <1>2 DEF StatusesWellFormed, WellFormed, HostIndexSound,
              LiveAssociatedContainers, IsLiveAssociated
<1>7. ContainerExclusive'
  BY <1>2 DEF ContainerExclusive
<1>5. IndexesExact'
  BY <1>2 DEF IndexesExact, StateIndexExact, LiveIndexExact, RequestIndexExact,
              AllocatedIndexExact
<1>6. ChangedExact'
  BY <1>2 DEF ChangedExact
<1>. QED BY <1>3, <1>4, <1>5, <1>6, <1>7

\* A task is removed with everything the manager remembers about it.
LEMMA UpdateTaskNumbersKeepsIInv ==
    ASSUME IInv, NEW numbers \in [ Roles -> 0 .. MaxTasks ], UpdateTaskNumbers(numbers)
    PROVE  IInv'
<1> DEFINE gone == Removed(numbers)
           new  == Added(numbers)
<1>1. /\ taskNumber' = numbers
      /\ taskStatus' = [ t \in Locators |->
             IF t \in gone THEN NoTask ELSE IF t \in new THEN NewTask ELSE taskStatus[t] ]
      /\ taskStateLocators' = [ s \in TaskStates |->
             (taskStateLocators[s] \ gone)
                 \cup (IF s = "TASK_WAITING" THEN new ELSE {}) ]
      /\ ForgetLive({ c \in Containers : liveLocators[c] \in gone })
      /\ WithoutRequests(gone)
      /\ allocated' = [ t \in Locators |-> IF t \in gone THEN None ELSE allocated[t] ]
      /\ changed' = [ r \in Roles |-> changed[r] \/ numbers[r] # taskNumber[r] ]
      /\ OutstandingCallbacks(~triggered)
      /\ UNCHANGED << nextPriority, zkNumber, zkStatus >>
  BY DEF UpdateTaskNumbers, zkVars
<1>2. /\ SMTypeOK /\ StatusesWellFormed /\ ContainerExclusive /\ HostIndexSound
      /\ StateIndexExact /\ LiveIndexExact /\ RequestIndexExact /\ AllocatedIndexExact
      /\ ChangedExact
  BY DEF IInv, IndexesExact
<1>3. /\ NoTask \in TaskStatuses /\ NoTask.state = "ABSENT" /\ NoTask.container = None
      /\ NewTask \in TaskStatuses /\ NewTask.state = "TASK_WAITING"
      /\ NewTask.container = None
  BY ConstantsAssumption DEF NoTask, NewTask, TaskStatuses, TaskStates
<1>4. \A t \in Locators : t[1] \in Roles /\ t[2] \in Int
  BY ConstantsAssumption DEF Locators
<1>5. /\ gone \subseteq Locators /\ new \subseteq Locators /\ gone \cap new = {}
      /\ \A t \in new : taskStatus[t].state = "ABSENT" /\ taskStatus[t].container = None
    BY <1>2, <1>4 DEF Removed, Added, SMTypeOK, StatusesWellFormed, WellFormed,
                      ASSOCIATED_STATES, LIVE_STATES
<1>6. \A t \in Locators :
        taskStatus'[t] = IF t \in gone THEN NoTask ELSE IF t \in new THEN NewTask
                         ELSE taskStatus[t]
  BY <1>1
<1>7. \A t \in Locators : t # None
  BY NoneAssumption
<1>8. \A p \in Priorities : p # None
  BY NoneAssumption
<1>. HIDE DEF gone, new
<1>10. SMTypeOK'
  <2>1. taskStatus' \in [ Locators -> TaskStatuses ] /\ taskNumber' \in [ Roles -> 0 .. MaxTasks ]
    BY <1>1, <1>2, <1>3 DEF SMTypeOK
  <2>2. /\ taskStateLocators' \in [ TaskStates -> SUBSET Locators ]
        /\ liveLocators' \in [ Containers -> Locators \cup { None } ]
        /\ liveHosts' \in SUBSET Hosts
    BY <1>1, <1>2, <1>5 DEF SMTypeOK, ForgetLive
  <2>3. /\ containerRequests' \in [ Locators -> Priorities \cup { None } ]
        /\ priorityLocators' \in [ Priorities -> Locators \cup { None } ]
        /\ allocated' \in [ Locators -> Containers \cup { None } ]
    BY <1>1, <1>2 DEF SMTypeOK, WithoutRequests
  <2>4. changed' \in [ Roles -> BOOLEAN ] /\ triggered' \in BOOLEAN /\ round' \in Nat
    BY <1>1, <1>2 DEF SMTypeOK, OutstandingCallbacks, Disappears, Appears
  <2>. QED BY <2>1, <2>2, <2>3, <2>4, <1>1, <1>2 DEF SMTypeOK
<1>11. StatusesWellFormed'
  <2>1. \A t \in Locators :
          (t \in gone => ~(t[2] < numbers[t[1]])) /\ (t \in new => t[2] < numbers[t[1]])
    BY <1>4 DEF gone, new, Removed, Added
  <2>2. \A t \in Locators : t \notin gone /\ t \notin new =>
          (t[2] < numbers[t[1]] <=> t[2] < taskNumber[t[1]])
    BY <1>2, <1>4 DEF gone, new, Removed, Added, SMTypeOK
  <2>. QED
    BY <2>1, <2>2, <1>1, <1>2, <1>3, <1>6
       DEF StatusesWellFormed, WellFormed, ASSOCIATED_STATES, LIVE_STATES
<1>12. StateIndexExact'
  <2>. SUFFICES ASSUME NEW s \in TaskStates, NEW t \in Locators
                PROVE  t \in taskStateLocators'[s] <=> taskStatus'[t].state = s
    BY <1>10 DEF StateIndexExact, SMTypeOK
  <2>1. s # "ABSENT"
    BY DEF TaskStates
  <2>2. t \in taskStateLocators[s] <=> taskStatus[t].state = s
    BY <1>2 DEF StateIndexExact
  <2>3. t \in taskStateLocators'[s] <=>
          (t \in taskStateLocators[s] /\ t \notin gone) \/ (s = "TASK_WAITING" /\ t \in new)
    BY <1>1
  <2>. QED BY <2>1, <2>2, <2>3, <1>3, <1>5, <1>6
<1>13. LiveIndexExact'
  <2>1. \A c \in Containers :
          liveLocators'[c] = IF liveLocators[c] \in gone THEN None ELSE liveLocators[c]
    BY <1>1 DEF ForgetLive
  <2>. QED BY <2>1, <1>2, <1>3, <1>5, <1>6, <1>7 DEF LiveIndexExact, LIVE_STATES
<1>14. RequestIndexExact'
  <2>1. /\ \A t \in Locators : containerRequests'[t] =
               IF t \in gone THEN None ELSE containerRequests[t]
        /\ \A p \in Priorities : priorityLocators'[p] =
               IF priorityLocators[p] \in gone THEN None ELSE priorityLocators[p]
    BY <1>1 DEF WithoutRequests
  <2>2. \A t \in Locators : t \notin gone /\ taskStatus[t].state = "CONTAINER_REQUESTED"
           => taskStatus'[t] = taskStatus[t]
    BY <1>5, <1>6
  <2>. QED BY <2>1, <2>2, <1>1, <1>2, <1>7, <1>8 DEF RequestIndexExact
<1>15. AllocatedIndexExact'
  BY <1>1, <1>2, <1>3, <1>5, <1>6 DEF AllocatedIndexExact
<1>16. ContainerExclusive'
  <2>1. \A t \in Locators : taskStatus'[t].container \in { None, taskStatus[t].container }
    BY <1>3, <1>6
  <2>2. zkStatus' = zkStatus /\ ContainerExclusive
    BY <1>1, <1>2
  <2>. QED BY <2>1, <2>2 DEF ContainerExclusive
<1>17. HostIndexSound'
  BY <1>1, <1>2
     DEF HostIndexSound, LiveAssociatedContainers, IsLiveAssociated, ForgetLive
<1>18. ChangedExact'
  <2>1. \A t \in Locators : numbers[t[1]] = taskNumber[t[1]] => t \notin gone /\ t \notin new
    BY <1>2, <1>4 DEF gone, new, Removed, Added, SMTypeOK
  <2>. QED BY <2>1, <1>1, <1>2, <1>6 DEF ChangedExact
<1>. QED BY <1>10, <1>11, <1>12, <1>13, <1>14, <1>15, <1>16, <1>17, <1>18
         DEF IInv, IndexesExact

-----------------------------------------------------------------------------
(* Persistence *)

\* The statuses on ZooKeeper after some of the changed roles were written.
LEMMA WriteStatusesKeeps ==
    ASSUME SMTypeOK, StatusesWellFormed, ContainerExclusive, NEW rs \in SUBSET Roles,
           WriteStatuses(rs)
    PROVE  /\ zkNumber' \in [ Roles -> 0 .. MaxTasks ]
           /\ zkStatus' \in [ Locators -> TaskStatuses ]
           /\ WellFormed(zkNumber', zkStatus')
           /\ \A t \in Locators :
                 zkStatus'[t] = IF t[1] \in rs THEN taskStatus[t] ELSE zkStatus[t]
           /\ \A t, u \in Locators : t # u =>
                 { zkStatus'[t].container } \cap { zkStatus'[u].container } \subseteq { None }
<1>1. \A t \in Locators : t[1] \in Roles
  BY DEF Locators
<1>2. \A t \in Locators :
         zkStatus'[t] = IF t[1] \in rs THEN taskStatus[t] ELSE zkStatus[t]
  BY DEF WriteStatuses
<1>3. /\ zkNumber' \in [ Roles -> 0 .. MaxTasks ]
      /\ zkStatus' \in [ Locators -> TaskStatuses ]
  BY <1>1 DEF WriteStatuses, SMTypeOK
<1>4. \A r \in Roles : zkNumber'[r] = IF r \in rs THEN taskNumber[r] ELSE zkNumber[r]
  BY DEF WriteStatuses
<1>5. WellFormed(zkNumber', zkStatus')
  BY <1>1, <1>2, <1>4 DEF StatusesWellFormed, WellFormed
<1>6. ASSUME NEW t \in Locators, NEW u \in Locators, t # u
      PROVE  { zkStatus'[t].container } \cap { zkStatus'[u].container } \subseteq { None }
  BY <1>2, <1>6 DEF ContainerExclusive
<1>. QED BY <1>2, <1>3, <1>5, <1>6

\* The statuses a recovery finds or leaves on ZooKeeper.
LEMMA RecoverStatusesKeeps ==
    ASSUME SMTypeOK, StatusesWellFormed, ContainerExclusive,
           NEW rs \in SUBSET Roles, NEW lost \in SUBSET Roles, RecoverStatuses(rs, lost)
    PROVE  /\ zkNumber' \in [ Roles -> 0 .. MaxTasks ]
           /\ zkStatus' \in [ Locators -> TaskStatuses ]
           /\ WellFormed(zkNumber', zkStatus')
           /\ \A t, u \in Locators : t # u =>
                 { zkStatus'[t].container } \cap { zkStatus'[u].container } \subseteq { None }
<1>1. \A t \in Locators : t[1] \in Roles /\ t[2] \in Nat
  BY ConstantsAssumption DEF Locators
<1>2. \A t \in Locators :
         zkStatus'[t] = IF t[1] \in lost THEN NoTask
                        ELSE IF t[1] \in rs THEN taskStatus[t] ELSE zkStatus[t]
  BY DEF RecoverStatuses
<1>3. NoTask \in TaskStatuses /\ NoTask.state = "ABSENT" /\ NoTask.container = None
  BY ConstantsAssumption DEF NoTask, TaskStatuses
<1>4. \A r \in Roles :
         zkNumber'[r] = IF r \in lost THEN 0
                        ELSE IF r \in rs THEN taskNumber[r] ELSE zkNumber[r]
  BY DEF RecoverStatuses
<1>5. zkNumber' \in [ Roles -> 0 .. MaxTasks ]
  BY ConstantsAssumption DEF RecoverStatuses, SMTypeOK
<1>6. zkStatus' \in [ Locators -> TaskStatuses ]
  <2>1. \A t \in Locators : zkStatus'[t] \in TaskStatuses
    BY <1>2, <1>3 DEF SMTypeOK
  <2>2. zkStatus' = [ t \in Locators |-> zkStatus'[t] ]
    BY DEF RecoverStatuses
  <2>. QED BY <2>1, <2>2
<1>7. WellFormed(zkNumber', zkStatus')
  <2>. SUFFICES ASSUME NEW t \in Locators
                PROVE  /\ zkStatus'[t].state # "ABSENT" <=> t[2] < zkNumber'[t[1]]
                       /\ zkStatus'[t].container # None <=> zkStatus'[t].state \in ASSOCIATED_STATES
    BY DEF WellFormed
  <2>1. CASE t[1] \in lost
    <3>1. zkStatus'[t] = NoTask /\ zkNumber'[t[1]] = 0
      BY <1>1, <1>2, <1>4, <2>1
    <3>2. "ABSENT" \notin ASSOCIATED_STATES
      BY DEF ASSOCIATED_STATES, LIVE_STATES
    <3>. QED BY <1>1, <1>3, <3>1, <3>2
  <2>2. CASE t[1] \notin lost
    BY <1>1, <1>2, <1>4, <2>2 DEF StatusesWellFormed, WellFormed
  <2>. QED BY <2>1, <2>2
<1>8. ASSUME NEW t \in Locators, NEW u \in Locators, t # u
      PROVE  { zkStatus'[t].container } \cap { zkStatus'[u].container } \subseteq { None }
  BY <1>2, <1>3, <1>8 DEF ContainerExclusive
<1>. QED BY <1>5, <1>6, <1>7, <1>8

\* A push copies the memory: the flag it clears is of a role it has written.
LEMMA PushKeepsIInv ==
    ASSUME IInv, NEW rs \in SUBSET Roles, PushStatus(rs)
    PROVE  IInv'
<1>. USE DEF IInv, PushStatus, memVars, extVars, reqVars, gangVars
<1>1. /\ zkNumber' \in [ Roles -> 0 .. MaxTasks ]
      /\ zkStatus' \in [ Locators -> TaskStatuses ]
      /\ WellFormed(zkNumber', zkStatus')
      /\ \A t \in Locators :
            zkStatus'[t] = IF t[1] \in rs THEN taskStatus[t] ELSE zkStatus[t]
  BY WriteStatusesKeeps
<1>2. SMTypeOK'
  BY <1>1 DEF SMTypeOK
<1>3. StatusesWellFormed'
  BY <1>1 DEF StatusesWellFormed, WellFormed
<1>4. IndexesExact' /\ HostIndexSound'
  BY DEF IndexesExact, StateIndexExact, LiveIndexExact, RequestIndexExact,
         AllocatedIndexExact, HostIndexSound, LiveAssociatedContainers, IsLiveAssociated
<1>5. ContainerExclusive'
  BY <1>1 DEF ContainerExclusive
<1>6. ChangedExact'
  BY <1>1 DEF ChangedExact, WriteStatuses, SMTypeOK
<1>. QED BY <1>2, <1>3, <1>4, <1>5, <1>6

\* A restart reads the memory back from ZooKeeper, whatever part of the last
\* changes had reached it.
LEMMA RecoverKeepsIInv ==
    ASSUME IInv, NEW rs \in SUBSET Roles, NEW lost \in SUBSET Roles, Recover(rs, lost)
    PROVE  IInv'
<1>1. /\ zkNumber' \in [ Roles -> 0 .. MaxTasks ]
      /\ zkStatus' \in [ Locators -> TaskStatuses ]
      /\ WellFormed(zkNumber', zkStatus')
      /\ \A t, u \in Locators : t # u =>
            { zkStatus'[t].container } \cap { zkStatus'[u].container } \subseteq { None }
  BY RecoverStatusesKeeps DEF IInv, Recover
<1>2. \A s \in TaskStatuses :
         /\ Revised(s) \in TaskStatuses
         /\ Revised(s).container = s.container
         /\ Revised(s).state = "ABSENT" <=> s.state = "ABSENT"
         /\ Revised(s).state \in ASSOCIATED_STATES <=> s.state \in ASSOCIATED_STATES
         /\ Revised(s).state \notin { "CONTAINER_REQUESTED", "CONTAINER_ALLOCATED" }
  BY DEF Revised, TaskStatuses, TaskStates, ASSOCIATED_STATES, LIVE_STATES
<1>3. \A t \in Locators :
         /\ taskStatus'[t] = Revised(zkStatus'[t])
         /\ taskStatus'[t] \in TaskStatuses
         /\ taskStatus'[t].container = zkStatus'[t].container
         /\ taskStatus'[t].state = "ABSENT" <=> zkStatus'[t].state = "ABSENT"
         /\ taskStatus'[t].state \in ASSOCIATED_STATES <=>
               zkStatus'[t].state \in ASSOCIATED_STATES
         /\ taskStatus'[t].state \notin { "CONTAINER_REQUESTED", "CONTAINER_ALLOCATED" }
  <2>1. \A t \in Locators : taskStatus'[t] = Revised(zkStatus'[t]) /\ zkStatus'[t] \in TaskStatuses
    BY <1>1 DEF Recover
  <2>. QED BY <2>1, <1>2
<1>4. ContainerExclusive'
  BY <1>1, <1>3 DEF ContainerExclusive
<1>5. StatusesWellFormed'
  BY <1>1, <1>3 DEF Recover, StatusesWellFormed, WellFormed
<1>6. \A t \in Locators : taskStatus'[t].state \in LIVE_STATES =>
         taskStatus'[t].container \in Containers
  <2>1. LIVE_STATES \subseteq ASSOCIATED_STATES
    BY DEF ASSOCIATED_STATES
  <2>. QED BY <2>1, <1>3, <1>5 DEF StatusesWellFormed, WellFormed, TaskStatuses
<1>7. \A t \in Locators : t # None
  BY NoneAssumption
<1>8. ASSUME NEW c \in Containers
      PROVE  /\ liveLocators'[c] \in Locators \cup { None }
             /\ \A t \in Locators : liveLocators'[c] = t <=>
                   taskStatus'[t].state \in LIVE_STATES /\ taskStatus'[t].container = c
  <2> DEFINE ts == { t \in Locators : taskStatus'[t].state \in LIVE_STATES
                                      /\ taskStatus'[t].container = c }
  <2>1. liveLocators'[c] = IF ts = {} THEN None ELSE CHOOSE t \in ts : TRUE
    BY DEF Recover
  <2>2. \A t, u \in ts : t = u
    BY <1>4, ConstantsAssumption DEF ContainerExclusive
  <2>. QED BY <2>1, <2>2, <1>7
<1>9. LiveIndexExact'
  BY <1>8 DEF LiveIndexExact
<1>10. StateIndexExact'
  BY DEF Recover, StateIndexExact
<1>11. RequestIndexExact' /\ AllocatedIndexExact'
  <2>1. \A p \in Priorities : p # None
    BY NoneAssumption
  <2>2. RequestIndexExact'
    BY <2>1, <1>7 DEF Recover, RequestIndexExact
  <2>. QED BY <2>2, <1>3 DEF Recover, AllocatedIndexExact
<1>12. HostIndexSound'
  <2>1. liveHosts' = { HostOf[taskStatus'[t].container] :
                       t \in { u \in Locators : taskStatus'[u].state \in LIVE_STATES } }
    BY DEF Recover
  <2>2. ASSUME NEW t \in Locators, taskStatus'[t].state \in LIVE_STATES
        PROVE  \E c \in Containers :
                  liveLocators'[c] # None /\ HostOf[c] = HostOf[taskStatus'[t].container]
    BY <2>2, <1>6, <1>7, <1>8
  <2>3. ASSUME NEW h \in liveHosts'
        PROVE  \E c \in Containers : liveLocators'[c] # None /\ HostOf[c] = h
    BY <2>1, <2>2
  <2>. QED BY <2>3 DEF HostIndexSound, LiveAssociatedContainers, IsLiveAssociated
<1>13. ChangedExact'
  BY DEF Recover, ChangedExact
<1>14. SMTypeOK'
  <2>1. liveLocators' \in [ Containers -> Locators \cup { None } ]
    BY <1>8 DEF Recover
  <2>2. liveHosts' \in SUBSET Hosts
    BY <1>6, ConstantsAssumption DEF Recover
  <2>3. taskStatus' \in [ Locators -> TaskStatuses ]
    BY <1>3 DEF Recover
  <2>4. /\ taskStateLocators' \in [ TaskStates -> SUBSET Locators ]
        /\ containerRequests' \in [ Locators -> Priorities \cup { None } ]
        /\ priorityLocators' \in [ Priorities -> Locators \cup { None } ]
        /\ allocated' \in [ Locators -> Containers \cup { None } ]
        /\ changed' \in [ Roles -> BOOLEAN ]
    BY DEF Recover
  <2>5. nextPriority' \in 0 .. MaxRequests /\ triggered' \in BOOLEAN /\ round' \in Nat
    <3>1. nextPriority' = 0 /\ round' = 0
      BY DEF Recover
    <3>2. triggered' \in BOOLEAN
      BY Zenon DEF Recover
    <3>. QED BY <3>1, <3>2, ConstantsAssumption
  <2>6. taskNumber' \in [ Roles -> 0 .. MaxTasks ]
    BY <1>1 DEF Recover
  <2>. QED BY <2>1, <2>2, <2>3, <2>4, <2>5, <2>6, <1>1 DEF SMTypeOK
<1>. QED BY <1>4, <1>5, <1>9, <1>10, <1>11, <1>12, <1>13, <1>14 DEF IInv, IndexesExact

-----------------------------------------------------------------------------
(* The specification *)

\* A first attempt starts with nothing on ZooKeeper.
LEMMA InitIInv == SMInit => IInv
<1>. SUFFICES ASSUME SMInit PROVE IInv
  OBVIOUS
<1>. USE DEF SMInit
<1>1. /\ NoTask \in TaskStatuses /\ NoTask.state = "ABSENT" /\ NoTask.container = None
      /\ "ABSENT" \notin TaskStates
  BY ConstantsAssumption DEF NoTask, TaskStatuses, TaskStates
<1>2. \A t \in Locators : t # None /\ t[1] \in Roles /\ t[2] \in Int /\ ~(t[2] < 0)
  BY NoneAssumption, ConstantsAssumption DEF Locators
<1>3. \A p \in Priorities : p # None
  BY NoneAssumption
<1>4. SMTypeOK
  <2>1. /\ changed \in [ Roles -> BOOLEAN ] /\ triggered \in BOOLEAN
    BY Zenon
  <2>2. /\ taskNumber \in [ Roles -> 0 .. MaxTasks ] /\ nextPriority \in 0 .. MaxRequests
        /\ round \in Nat
    BY ConstantsAssumption
  <2>. QED BY <2>1, <2>2, <1>1 DEF SMTypeOK
<1>5. StatusesWellFormed
  BY <1>1, <1>2 DEF StatusesWellFormed, WellFormed, ASSOCIATED_STATES, LIVE_STATES
<1>6. StateIndexExact /\ LiveIndexExact
  BY <1>1, <1>2 DEF StateIndexExact, LiveIndexExact, LIVE_STATES
<1>7. RequestIndexExact /\ AllocatedIndexExact
  BY <1>1, <1>2, <1>3 DEF RequestIndexExact, AllocatedIndexExact
<1>8. ContainerExclusive /\ HostIndexSound /\ ChangedExact
  BY <1>1 DEF ContainerExclusive, HostIndexSound, ChangedExact
<1>. QED BY <1>4, <1>5, <1>6, <1>7, <1>8 DEF IInv, IndexesExact

\* Every method of the manager, and every restart, keeps the invariant.
LEMMA NextIInv == IInv /\ [SMNext]_smVars => IInv'
<1>. SUFFICES ASSUME IInv, [SMNext]_smVars PROVE IInv'
  OBVIOUS
<1>1. /\ NoEvent \in Events
      /\ \A c \in Containers : /\ [ NoEvent EXCEPT !.container = c ] \in Events
                               /\ [ NoEvent EXCEPT !.container = c ].container = c
      /\ \A e \in ExitTypes : [ NoEvent EXCEPT !.exit = e ] \in Events
      /\ \A n \in 0 .. MaxRetried : [ NoEvent EXCEPT !.retried = n ] \in Events
  BY ConstantsAssumption DEF NoEvent, Events
<1>. HIDE DEF NoEvent
<1>2. TaskStates \in SUBSET TaskStates /\
      { "TASK_WAITING", "CONTAINER_REQUESTED", "CONTAINER_ALLOCATED", "CONTAINER_LAUNCHED",
        "CONTAINER_RUNNING", "CONTAINER_COMPLETED", "TASK_COMPLETED" } = TaskStates
  BY DEF TaskStates
<1>3. ASSUME NEW t \in Locators, Request(t) PROVE IInv'
  <2>1. LegalEdge(t, "CONTAINER_REQUESTED", NoEvent)
    BY <1>3 DEF Request, LegalEdge
  <2>. QED BY <2>1, <1>1, <1>2, <1>3, EdgeKeepsIInv DEF Request
<1>4. ASSUME NEW t \in Locators, Withdraw(t) PROVE IInv'
  <2>1. LegalEdge(t, "TASK_WAITING", NoEvent)
    BY <1>4 DEF Withdraw, LegalEdge
  <2>. QED BY <2>1, <1>1, <1>2, <1>4, EdgeKeepsIInv DEF Withdraw
<1>5. ASSUME NEW t \in Locators, AllocateFails(t) PROVE IInv'
  BY <1>5, FailToAssociateKeepsIInv DEF AllocateFails
<1>6. ASSUME NEW t \in Locators, Launch(t) PROVE IInv'
  <2>1. LegalEdge(t, "CONTAINER_LAUNCHED", NoEvent)
    BY <1>6 DEF Launch, LegalEdge
  <2>. QED BY <2>1, <1>1, <1>2, <1>6, EdgeKeepsIInv DEF Launch
<1>7. ASSUME NEW t \in Locators, Start(t) PROVE IInv'
  <2>1. LegalEdge(t, "CONTAINER_RUNNING", NoEvent)
    BY <1>7 DEF Start, LegalEdge
  <2>. QED BY <2>1, <1>1, <1>2, <1>7, EdgeKeepsIInv DEF Start
<1>8. ASSUME NEW t \in Locators, CompleteTask(t) PROVE IInv'
  <2>1. LegalEdge(t, "TASK_COMPLETED", NoEvent)
    BY <1>8 DEF CompleteTask, LegalEdge
  <2>. QED BY <2>1, <1>1, <1>2, <1>8, EdgeKeepsIInv DEF CompleteTask
<1>9. ASSUME NEW t \in Locators, NEW c \in Containers, Allocate(t, c) PROVE IInv'
  <2> DEFINE event == [ NoEvent EXCEPT !.container = c ]
  <2>1. event \in Events /\ event.container = c
    BY <1>1
  <2>. HIDE DEF event
  <2>2. LegalEdge(t, "CONTAINER_ALLOCATED", event)
    BY <2>1, <1>9 DEF Allocate, LegalEdge
  <2>3. TransitionTaskState(t, "CONTAINER_ALLOCATED", event)
    BY <1>9 DEF Allocate, event
  <2>. QED BY <2>1, <2>2, <2>3, <1>2, EdgeKeepsIInv
<1>10. ASSUME NEW t \in Locators, NEW exit \in ExitTypes, CompleteContainer(t, exit)
       PROVE  IInv'
  <2> DEFINE event == [ NoEvent EXCEPT !.exit = exit ]
  <2>1. event \in Events
    BY <1>1
  <2>. HIDE DEF event
  <2>2. LegalEdge(t, "CONTAINER_COMPLETED", event)
    BY <1>10 DEF CompleteContainer, LegalEdge
  <2>3. TransitionTaskState(t, "CONTAINER_COMPLETED", event)
    BY <1>10 DEF CompleteContainer, event
  <2>. QED BY <2>1, <2>2, <2>3, <1>2, EdgeKeepsIInv
<1>11. ASSUME NEW t \in Locators, NEW retried \in 0 .. MaxRetried, RetryTask(t, retried)
       PROVE  IInv'
  <2> DEFINE event == [ NoEvent EXCEPT !.retried = retried ]
  <2>1. event \in Events
    BY <1>1
  <2>. HIDE DEF event
  <2>2. LegalEdge(t, "TASK_WAITING", event)
    BY <1>11 DEF RetryTask, LegalEdge
  <2>3. TransitionTaskState(t, "TASK_WAITING", event)
    BY <1>11 DEF RetryTask, event
  <2>. QED BY <2>1, <2>2, <2>3, <1>2, EdgeKeepsIInv
<1>12. \A t \in Locators : taskStatus[t].lost \in 0 .. LostBound
  BY DEF IInv, SMTypeOK, TaskStatuses
<1>13. ASSUME NEW c \in Containers, Lose(c) PROVE IInv'
  <2> DEFINE count == [ t \in Locators |->
                 IF liveLocators[c] = t THEN taskStatus[t].lost + 1 ELSE taskStatus[t].lost ]
  <2>1. count \in [ Locators -> 0 .. LostBound ]
    BY <1>12, <1>13, ConstantsAssumption DEF Lose
  <2>2. SetLostCounts(count)
    BY <1>13 DEF Lose, IncreaseLostCount
  <2>. QED BY <2>1, <2>2, SetLostCountsKeepsIInv
<1>14. ASSUME NEW cs \in SUBSET Containers, Find(cs) PROVE IInv'
  <2> DEFINE count == [ t \in Locators |->
                 IF \E c \in cs : liveLocators[c] = t THEN 0 ELSE taskStatus[t].lost ]
  <2>1. count \in [ Locators -> 0 .. LostBound ]
    BY <1>12, ConstantsAssumption
  <2>2. SetLostCounts(count)
    BY <1>14 DEF Find, ResetLostCount
  <2>. QED BY <2>1, <2>2, SetLostCountsKeepsIInv
<1>15. ASSUME NEW numbers \in [ Roles -> 0 .. MaxTasks ], UpdateTaskNumbers(numbers)
       PROVE  IInv'
  BY <1>15, UpdateTaskNumbersKeepsIInv
<1>16. ASSUME NEW rs \in SUBSET Roles, PushStatus(rs) PROVE IInv'
  BY <1>16, PushKeepsIInv
<1>17. ASSUME NEW rs \in SUBSET Roles, NEW lost \in SUBSET Roles, Restart(rs, lost) PROVE IInv'
  BY <1>17, RecoverKeepsIInv DEF Restart
<1>18. ASSUME UNCHANGED smVars PROVE IInv'
  <2>. USE <1>18 DEF smVars, memVars, extVars, reqVars, gangVars, zkVars
  <2>1. SMTypeOK' /\ StatusesWellFormed' /\ ContainerExclusive' /\ ChangedExact'
    BY DEF IInv, SMTypeOK, StatusesWellFormed, WellFormed, ContainerExclusive, ChangedExact
  <2>2. IndexesExact' /\ HostIndexSound'
    BY DEF IInv, IndexesExact, StateIndexExact, LiveIndexExact, RequestIndexExact,
           AllocatedIndexExact, HostIndexSound, LiveAssociatedContainers, IsLiveAssociated
  <2>. QED BY <2>1, <2>2 DEF IInv
<1>. QED BY <1>3, <1>4, <1>5, <1>6, <1>7, <1>8, <1>9, <1>10, <1>11, <1>13, <1>14, <1>15,
            <1>16, <1>17, <1>18 DEF SMNext

\* The invariant is inductive, so it holds of every reachable state.
LEMMA Invariance == SMSpec => []IInv
BY InitIInv, NextIInv, PTL DEF SMSpec

\* Every variable keeps its type under every legal sequence of the methods of
\* StatusManager, restarts and failing pushes included.
THEOREM TypesHold == SMSpec => []SMTypeOK
<1>1. IInv => SMTypeOK
  BY DEF IInv
<1>. QED BY <1>1, Invariance, PTL

\* The inverted indexes, the maps of the current container requests and of the
\* allocated containers agree with the statuses they index, whatever tasks are
\* removed, retried or recovered.
THEOREM IndexesAgree == SMSpec => []IndexesExact
<1>1. IInv => IndexesExact
  BY DEF IInv
<1>. QED BY <1>1, Invariance, PTL

\* No container is given to two tasks, in memory, on ZooKeeper, or across the
\* two: what a crash leaves on ZooKeeper cannot make it so either.
THEOREM ContainersExclusive == SMSpec => []ContainerExclusive
<1>1. IInv => ContainerExclusive
  BY DEF IInv
<1>. QED BY <1>1, Invariance, PTL

\* pushStatus may skip the roles that are not marked as changed: they are on
\* ZooKeeper as they are in memory.
THEOREM PushSkipsNothing == SMSpec => []ChangedExact
<1>1. IInv => ChangedExact
  BY DEF IInv
<1>. QED BY <1>1, Invariance, PTL

\* Arrays and states agree about which tasks exist, and a task names a container
\* exactly in the associated states, in memory and on ZooKeeper.
THEOREM StatusesStayWellFormed == SMSpec => []StatusesWellFormed
<1>1. IInv => StatusesWellFormed
  BY DEF IInv
<1>. QED BY <1>1, Invariance, PTL

\* A host the anti-affinity test refuses has a live associated task.
THEOREM HostsSound == SMSpec => []HostIndexSound
<1>1. IInv => HostIndexSound
  BY DEF IInv
<1>. QED BY <1>1, Invariance, PTL
=============================================================================
