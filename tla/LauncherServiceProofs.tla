----------------------- MODULE LauncherServiceProofs -----------------------
(***************************************************************************)
(* Proofs about LauncherService, for every set of versions, every retry    *)
(* policy and every bound: whatever the process was doing when it died, at *)
(* most one application lives, and no version is submitted more often than *)
(* its policy grants.                                                      *)
(***************************************************************************)
EXTENDS LauncherService, TLAPS

SimpleKinds == { "create_all", "retrieve_all", "retry_all", "resync" }
Tasks ==
    [ kind : SimpleKinds ]
    \cup [ kind : { "update" }, request : Requests \cup { None } ]
    \cup [ kind : { "launch" }, snapshot : Statuses ]
    \cup [ kind : { "exit" }, app : Apps ]
    \cup [ kind : { "retry" }, snapshot : Statuses, next : Statuses ]
Steps ==
    [ step : { "drop", "create", "attempt" } ]
    \cup [ step : { "save" }, status : Statuses ]
    \cup [ step : { "add" }, version : Versions ]
    \cup [ step : { "kill", "submit" }, app : Apps ]
Threads == [ kind : { "setup" }, snapshot : Statuses ] \cup [ kind : { "diagnose" }, app : Apps ]

\* The step a sequence of steps begins with, and one that it consists of.
First(w, step) == w # << >> /\ Head(w).step = step
Last(w, step)  == First(w, step) /\ Tail(w) = << >>

\* No application of the framework lives.
Quiet == \A a \in Apps : apps[a] \notin LiveApps

\* What the policy of its version says of the counts of a status.
PolicyKept(s) ==
    LET policy == Policy[s.version]
    IN  ~policy.fancy => /\ s.retried = s.tries
                         /\ policy.max \in Nat => s.retried <= policy.max

\* The submissions that a status stands for: none is left out while it waits.
Counts(s) ==
    /\ submitted <= s.tries + 1
    /\ s.state = "FRAMEWORK_WAITING" => submitted <= s.tries

SavedSound ==
    /\ StatusWellFormed(saved)
    /\ saved # None => /\ PolicyKept(saved) /\ Counts(saved)
                       /\ saved.app # None => apps[saved.app] # "FREE"

\* Memory is what ZooKeeper holds, and a process that died has none.
MemorySound ==
    /\ up => status = saved
    /\ ~up => status = None /\ work = << >> /\ queue = << >> /\ delayed = { } /\ threads = { }

-----------------------------------------------------------------------------
(* Tasks and threads *)

\* A status that a setup or a launch was begun for.
Launchable(s) == s.state = "APPLICATION_CREATED" /\ s.app \in Apps /\ apps[s.app] = "GIVEN"

\* A retry that waits is one the fancy policy put off.
RetryLater(t) ==
    /\ StatusWellFormed(t.snapshot) /\ t.snapshot.state = "APPLICATION_COMPLETED"
    /\ Policy[t.snapshot.version].fancy
    /\ t.next = Retried(t.snapshot, FALSE)

TasksSound ==
    /\ queue \in Seq(Tasks) /\ threads \subseteq Threads /\ delayed \subseteq Tasks
    /\ \A d \in delayed : d.kind \in { "resync", "retry" } /\ (d.kind = "retry" => RetryLater(d))
    /\ \A i \in 1 .. Len(queue) :
        /\ queue[i].kind = "launch" => Launchable(queue[i].snapshot)
        /\ queue[i].kind = "retry" => RetryLater(queue[i])
    /\ \A t \in threads : t.kind = "setup" => Launchable(t.snapshot)

\* Who may still submit application a.
SetsUp(t, a)    == t.kind = "setup" /\ t.snapshot.app = a
Launches(i, a)  == queue[i].kind = "launch" /\ queue[i].snapshot.app = a
Submits(a)      == First(work, "submit") /\ Head(work).app = a
Pending(a) ==
    \/ \E t \in threads : SetsUp(t, a)
    \/ \E i \in 1 .. Len(queue) : Launches(i, a)
    \/ Submits(a)

\* An application is submitted at most once: by one thread, then one task of
\* the queue, then the running one; until then it is not counted.
SubmittedOnce ==
    \A a \in Apps :
        /\ \A t, u \in threads : SetsUp(t, a) /\ SetsUp(u, a) => t = u
        /\ \A i, j \in 1 .. Len(queue) : Launches(i, a) /\ Launches(j, a) => i = j
        /\ \A t \in threads, i \in 1 .. Len(queue) : ~(SetsUp(t, a) /\ Launches(i, a))
        /\ Submits(a) => /\ \A t \in threads : ~SetsUp(t, a)
                         /\ \A i \in 1 .. Len(queue) : ~Launches(i, a)
        /\ Pending(a) /\ saved # None /\ saved.app = a => submitted <= saved.tries

-----------------------------------------------------------------------------
(* The work of the running task *)

\* A status that may be written over the one there is.
SaveSound(s) ==
    /\ StatusWellFormed(s) /\ s # None /\ PolicyKept(s) /\ Counts(s)
    /\ s.version = status.version /\ s.tries >= status.tries
    /\ s.state # "APPLICATION_CREATED"
    /\ s.app # None => s.app = status.app \/ apps[s.app] = "FREE"
    /\ IsLive(s) => IsLive(status) /\ s.app = status.app

\* One that may be written once nothing lives.
FinalSave(s) == SaveSound(s) /\ ~IsLive(s)

\* A framework that is added may be stopped at once, or its application created.
AfterAdd(v, w) ==
    \/ w = << >>
    \/ Last(w, "create")
    \/ /\ Last(w, "save")
       /\ LET s == Head(w).status
          IN  /\ StatusWellFormed(s) /\ s # None /\ PolicyKept(s)
              /\ s.version = v /\ s.state = "FRAMEWORK_COMPLETED" /\ apps[s.app] = "FREE"

\* What is done when nothing lives, or once the kill before it is done.
QuietWork(w) ==
    \/ Last(w, "drop")
    \/ First(w, "add") /\ AfterAdd(Head(w).version, Tail(w))
    \/ status # None /\ Last(w, "save") /\ FinalSave(Head(w).status)

\* Work on the status there is.
StatusWork ==
    \/ Last(work, "create") /\ status.state = "FRAMEWORK_WAITING"
    \/ Last(work, "attempt") /\ status.state = "APPLICATION_COMPLETED"
    \/ Last(work, "submit") /\ status.state = "APPLICATION_CREATED" /\ Head(work).app = status.app
    \/ Last(work, "save") /\ SaveSound(Head(work).status) /\ IsLive(Head(work).status)
    \/ /\ First(work, "save") /\ FinalSave(Head(work).status) /\ Quiet
       /\ \/ Last(Tail(work), "create") /\ Head(work).status.state = "FRAMEWORK_WAITING"
          \/ Last(Tail(work), "attempt") /\ Head(work).status.state = "APPLICATION_COMPLETED"
    \/ First(work, "kill") /\ IsLive(status) /\ Head(work).app = status.app /\ QuietWork(Tail(work))

WorkSound ==
    /\ work \in Seq(Steps)
    /\ \/ work = << >>
       \/ Quiet /\ QuietWork(work)
       \/ status # None /\ StatusWork

Basics ==
    /\ request \in Requests \cup { None } /\ pulled \in Requests \cup { None, Never }
    /\ apps \in [ Apps -> AppStates ] /\ up \in BOOLEAN
    /\ requests \in 0 .. MaxRequests /\ crashes \in 0 .. MaxCrashes /\ faults \in 0 .. MaxFaults
    /\ submitted \in Nat

\* The inductive invariant.
IInv ==
    /\ Basics
    /\ SavedSound
    /\ MemorySound
    /\ TasksSound
    /\ SubmittedOnce
    /\ WorkSound
    /\ OneApplication

-----------------------------------------------------------------------------
(* Sequences of steps and of tasks *)

\* A sequence of one step.
LEMMA OneStep ==
    ASSUME NEW S, NEW e \in S
    PROVE  << e >> # << >> /\ Head(<< e >>) = e /\ Tail(<< e >>) = << >> /\ << e >> \in Seq(S)
OBVIOUS

\* A step before others.
LEMMA StepBefore ==
    ASSUME NEW S, NEW e \in S, NEW w \in Seq(S)
    PROVE  /\ << e >> \o w \in Seq(S) /\ << e >> \o w # << >>
           /\ Head(<< e >> \o w) = e /\ Tail(<< e >> \o w) = w
OBVIOUS

\* Steps before others, in threes.
LEMMA StepsAssociate ==
    ASSUME NEW S, NEW u \in Seq(S), NEW v \in Seq(S), NEW w \in Seq(S)
    PROVE  (u \o v) \o w = u \o (v \o w)
OBVIOUS

\* Nothing before or after others.
LEMMA NoStep ==
    ASSUME NEW S, NEW w \in Seq(S)
    PROVE  w \o << >> = w /\ << >> \o w = w /\ << >> \in Seq(S)
OBVIOUS

\* A queue with a task at its end.
LEMMA Appended ==
    ASSUME NEW S, NEW q \in Seq(S), NEW e \in S
    PROVE  /\ Append(q, e) \in Seq(S) /\ Len(q) \in Nat
           /\ Len(Append(q, e)) = Len(q) + 1
           /\ \A i \in 1 .. Len(Append(q, e)) :
                 \/ i \in 1 .. Len(q) /\ Append(q, e)[i] = q[i]
                 \/ i = Len(q) + 1 /\ Append(q, e)[i] = e
OBVIOUS

\* A queue without its first task.
LEMMA Taken ==
    ASSUME NEW S, NEW q \in Seq(S), q # << >>
    PROVE  /\ Tail(q) \in Seq(S) /\ Head(q) = q[1] /\ Head(q) \in S /\ 1 \in 1 .. Len(q)
           /\ \A i \in 1 .. Len(Tail(q)) :
                 i + 1 \in 1 .. Len(q) /\ i + 1 # 1 /\ Tail(q)[i] = q[i + 1]
OBVIOUS

\* The steps a task is made of.
LEMMA StepsAreSteps ==
    /\ \A a \in Apps : /\ [ step |-> "kill", app |-> a ] \in Steps
                       /\ [ step |-> "submit", app |-> a ] \in Steps
    /\ \A s \in Statuses : [ step |-> "save", status |-> s ] \in Steps
    /\ \A v \in Versions : [ step |-> "add", version |-> v ] \in Steps
    /\ [ step |-> "drop" ] \in Steps /\ [ step |-> "create" ] \in Steps
    /\ [ step |-> "attempt" ] \in Steps
BY DEF Steps

\* A single step, as work.
LEMMA Singles ==
    /\ \A a \in Apps : /\ Last(Kill(a), "kill") /\ Head(Kill(a)).app = a /\ Kill(a) \in Seq(Steps)
                       /\ Last(Submit(a), "submit") /\ Head(Submit(a)).app = a
                       /\ Submit(a) \in Seq(Steps)
    /\ \A s \in Statuses : /\ Last(Save(s), "save") /\ Head(Save(s)).status = s
                           /\ Save(s) \in Seq(Steps)
    /\ \A v \in Versions : /\ Last(Add(v), "add") /\ Head(Add(v)).version = v
                           /\ Add(v) \in Seq(Steps)
    /\ Last(Drop, "drop") /\ Last(Create, "create") /\ Last(Attempt, "attempt")
    /\ Drop \in Seq(Steps) /\ Create \in Seq(Steps) /\ Attempt \in Seq(Steps)
BY StepsAreSteps, OneStep DEF Last, First, Kill, Submit, Save, Add, Drop, Create, Attempt

\* A single step before others.
LEMMA Sequels ==
    ASSUME NEW w \in Seq(Steps)
    PROVE  /\ \A a \in Apps : /\ First(Kill(a) \o w, "kill") /\ Head(Kill(a) \o w).app = a
                              /\ Tail(Kill(a) \o w) = w /\ Kill(a) \o w \in Seq(Steps)
           /\ \A s \in Statuses : /\ First(Save(s) \o w, "save") /\ Head(Save(s) \o w).status = s
                                  /\ Tail(Save(s) \o w) = w /\ Save(s) \o w \in Seq(Steps)
           /\ \A v \in Versions : /\ First(Add(v) \o w, "add") /\ Head(Add(v) \o w).version = v
                                  /\ Tail(Add(v) \o w) = w /\ Add(v) \o w \in Seq(Steps)
<1>1. \A e \in Steps : /\ << e >> \o w \in Seq(Steps) /\ << e >> \o w # << >>
                        /\ Head(<< e >> \o w) = e /\ Tail(<< e >> \o w) = w
  BY StepBefore
<1>2. ASSUME NEW a \in Apps
      PROVE  /\ First(Kill(a) \o w, "kill") /\ Head(Kill(a) \o w).app = a
             /\ Tail(Kill(a) \o w) = w /\ Kill(a) \o w \in Seq(Steps)
  <2> DEFINE e == [ step |-> "kill", app |-> a ]
  <2>1. e \in Steps /\ e.step = "kill" /\ e.app = a /\ Kill(a) = << e >>
    BY StepsAreSteps DEF Kill
  <2>2. /\ << e >> \o w \in Seq(Steps) /\ << e >> \o w # << >>
        /\ Head(<< e >> \o w) = e /\ Tail(<< e >> \o w) = w
    BY <1>1, <2>1
  <2>. HIDE DEF e
  <2>. QED BY <2>1, <2>2 DEF First
<1>3. ASSUME NEW s \in Statuses
      PROVE  /\ First(Save(s) \o w, "save") /\ Head(Save(s) \o w).status = s
             /\ Tail(Save(s) \o w) = w /\ Save(s) \o w \in Seq(Steps)
  BY <1>1, StepsAreSteps DEF First, Save
<1>4. ASSUME NEW v \in Versions
      PROVE  /\ First(Add(v) \o w, "add") /\ Head(Add(v) \o w).version = v
             /\ Tail(Add(v) \o w) = w /\ Add(v) \o w \in Seq(Steps)
  BY <1>1, StepsAreSteps DEF First, Add
<1>. QED BY <1>2, <1>3, <1>4

\* What the head of some work is, by its step.
LEMMA HeadOfWork ==
    ASSUME NEW w \in Seq(Steps), w # << >>
    PROVE  /\ Head(w) \in Steps /\ Tail(w) \in Seq(Steps)
           /\ First(w, "save") => Head(w).status \in Statuses
           /\ First(w, "add") => Head(w).version \in Versions
           /\ First(w, "kill") => Head(w).app \in Apps
           /\ First(w, "submit") => Head(w).app \in Apps
<1>1. Head(w) \in Steps /\ Tail(w) \in Seq(Steps)
  BY Taken
<1>. QED BY <1>1 DEF Steps, First

-----------------------------------------------------------------------------
(* Initially *)

\* The first state satisfies the invariant.
LEMMA InitIInv == Init => IInv
<1>. SUFFICES ASSUME Init PROVE IInv
  OBVIOUS
<1>1. Basics
  <2>1. apps \in [ Apps -> AppStates ]
    BY DEF Init, AppStates
  <2>2. 0 \in 0 .. MaxRequests /\ 0 \in 0 .. MaxCrashes /\ 0 \in 0 .. MaxFaults
    BY ServiceAssumption
  <2>. QED BY <2>1, <2>2 DEF Init, Basics
<1>4. SavedSound /\ MemorySound
  BY DEF Init, SavedSound, MemorySound, StatusWellFormed
<1>2. TasksSound /\ WorkSound
  BY NoStep DEF Init, TasksSound, WorkSound
<1>3. SubmittedOnce /\ OneApplication
  BY DEF Init, SubmittedOnce, SetsUp, Launches, Submits, First, OneApplication, LiveApps
<1>. QED BY <1>1, <1>2, <1>3, <1>4 DEF IInv

-----------------------------------------------------------------------------
(* Steps that leave the status alone *)

\* What YARN does by itself, or when it is asked to kill: no application comes
\* to live, none becomes free, and one that was given stays so.
AppsSettle ==
    /\ apps' \in [ Apps -> AppStates ]
    /\ \A a \in Apps : /\ apps'[a] \in LiveApps => apps[a] \in LiveApps
                       /\ apps[a] = "FREE" <=> apps'[a] = "FREE"
                       /\ apps[a] = "GIVEN" => apps'[a] = "GIVEN"

\* What may be written stays so when applications settle.
LEMMA SaveKept ==
    ASSUME AppsSettle, UNCHANGED << status, submitted >>, NEW s, SaveSound(s)
    PROVE  SaveSound(s)'
<1>1. s.app # None => s.app \in Apps
  BY DEF SaveSound, StatusWellFormed, Statuses
<1>. QED BY <1>1 DEF SaveSound, Counts, AppsSettle

\* So does what is done when nothing lives.
LEMMA QuietWorkKept ==
    ASSUME AppsSettle, UNCHANGED << status, submitted >>, NEW w, QuietWork(w)
    PROVE  QuietWork(w)'
<1>1. ASSUME NEW s, StatusWellFormed(s), s # None, s.state = "FRAMEWORK_COMPLETED"
      PROVE  s.app \in Apps
  BY <1>1 DEF StatusWellFormed, Statuses, IsAssociated, APPLICATION_ASSOCIATED_STATES
<1>2. ASSUME NEW v, NEW u, AfterAdd(v, u)
      PROVE  AfterAdd(v, u)'
  BY <1>1, <1>2 DEF AfterAdd, AppsSettle
<1>3. \A s : SaveSound(s) => SaveSound(s)'
  BY SaveKept
<1>. QED BY <1>2, <1>3 DEF QuietWork, FinalSave

\* The work that is left stays sound when applications settle.
LEMMA WorkKept ==
    ASSUME Basics, SavedSound, MemorySound, WorkSound, AppsSettle,
           UNCHANGED << status, work, submitted >>
    PROVE  WorkSound'
<1>1. Quiet => Quiet'
  BY DEF Quiet, AppsSettle
<1>2. \A w : QuietWork(w) => QuietWork(w)'
  BY QuietWorkKept
<1>3. \A s : SaveSound(s) => SaveSound(s)'
  BY SaveKept
<1>4. StatusWork => StatusWork'
  BY <1>1, <1>2, <1>3 DEF StatusWork, FinalSave
<1>. QED BY <1>1, <1>2, <1>4 DEF WorkSound

\* So does what is persisted.
LEMMA SavedKept ==
    ASSUME Basics, SavedSound, OneApplication, AppsSettle, UNCHANGED << saved, submitted >>
    PROVE  SavedSound' /\ OneApplication'
<1>1. saved # None /\ saved.app # None => saved.app \in Apps
  BY DEF SavedSound, StatusWellFormed, Statuses
<1>2. SavedSound'
  BY <1>1 DEF SavedSound, Counts, AppsSettle
<1>3. OneApplication'
  BY DEF OneApplication, AppsSettle
<1>. QED BY <1>2, <1>3

\* What a step needs to leave the queue, the threads and the delays sound, when
\* it submits nothing.
TasksMove ==
    /\ queue' \in Seq(Tasks) /\ threads' \subseteq Threads /\ delayed' \subseteq Tasks
    /\ \A d \in delayed' : d \in delayed \/ d = Task("resync")
    /\ \A i \in 1 .. Len(queue') :
        \/ \E j \in 1 .. Len(queue) : queue'[i] = queue[j]
        \/ queue'[i] \in delayed
        \/ queue'[i].kind \notin { "launch", "retry" }
        \/ \E t \in threads : t.kind = "setup" /\ queue'[i] = LaunchTask(t.snapshot)
    /\ \A t \in threads' : t \in threads \/ t.kind # "setup"

\* Tasks and threads stay sound.
LEMMA TasksKept ==
    ASSUME TasksSound, AppsSettle, TasksMove
    PROVE  TasksSound'
<1>1. \A s : Launchable(s) => Launchable(s)'
  BY DEF Launchable, AppsSettle
<1>2. \A t : RetryLater(t)' <=> RetryLater(t)
  OBVIOUS
<1>3. \A d \in delayed' : d.kind \in { "resync", "retry" } /\ (d.kind = "retry" => RetryLater(d))
  BY DEF TasksSound, TasksMove, Task
<1>4. ASSUME NEW i \in 1 .. Len(queue')
      PROVE  /\ queue'[i].kind = "launch" => Launchable(queue[i].snapshot)'
             /\ queue'[i].kind = "retry" => RetryLater(queue[i])'
  <2>1. CASE \E j \in 1 .. Len(queue) : queue'[i] = queue[j]
    BY <1>1, <1>2, <2>1 DEF TasksSound
  <2>2. CASE queue'[i] \in delayed
    BY <1>2, <2>2 DEF TasksSound
  <2>3. CASE queue'[i].kind \notin { "launch", "retry" }
    BY <2>3
  <2>4. CASE \E t \in threads : t.kind = "setup" /\ queue'[i] = LaunchTask(t.snapshot)
    BY <1>1, <2>4 DEF TasksSound, LaunchTask
  <2>. QED BY <2>1, <2>2, <2>3, <2>4 DEF TasksMove
<1>5. \A t \in threads' : t.kind = "setup" => Launchable(t.snapshot)'
  BY <1>1 DEF TasksSound, TasksMove
<1>. QED BY <1>3, <1>4, <1>5 DEF TasksSound, TasksMove

\* A step that appends a task that launches nothing.
LEMMA AppendKeeps ==
    ASSUME IInv, NEW e \in Tasks, e.kind # "launch",
           e.kind = "retry" => e \in delayed,
           queue' = Append(queue, e), threads' \subseteq threads,
           delayed' \subseteq delayed \cup { Task("resync") },
           UNCHANGED << saved, apps, up, status, work, submitted, faults, requests, crashes >>,
           up, request' = request, pulled' \in Requests \cup { None, Never }
    PROVE  IInv'
<1>1. Basics' /\ AppsSettle
  BY DEF IInv, Basics, AppsSettle
<1>2. WorkSound' /\ SavedSound' /\ OneApplication'
  BY <1>1, WorkKept, SavedKept DEF IInv
<1>3. MemorySound'
  BY DEF IInv, MemorySound
<1>4. /\ queue' \in Seq(Tasks)
      /\ \A i \in 1 .. Len(queue') : \/ i \in 1 .. Len(queue) /\ queue'[i] = queue[i]
                                     \/ queue'[i] = e
  BY Appended DEF IInv, TasksSound
<1>5. TasksMove
  <2>1. Task("resync") \in Tasks
    BY DEF Task, Tasks, SimpleKinds
  <2>. QED BY <1>4, <2>1 DEF TasksMove, IInv, TasksSound
<1>6. TasksSound'
  BY <1>1, <1>5, TasksKept DEF IInv
<1>7. ASSUME NEW a \in Apps, NEW i \in 1 .. Len(queue'), Launches(i, a)'
      PROVE  i \in 1 .. Len(queue) /\ Launches(i, a)
  BY <1>4, <1>7 DEF Launches
<1>8. \A a \in Apps : /\ Submits(a)' <=> Submits(a)
                      /\ \A t \in threads' : SetsUp(t, a)' <=> SetsUp(t, a)
  BY DEF Submits, SetsUp
<1>9. \A a \in Apps : Pending(a)' => Pending(a)
  BY <1>7, <1>8 DEF Pending
<1>10. SubmittedOnce'
  BY <1>7, <1>8, <1>9 DEF IInv, SubmittedOnce
<1>. QED BY <1>1, <1>2, <1>3, <1>6, <1>10 DEF IInv

\* The thread of a setup ends, its launch is queued: one stands for the other.
LEMMA SetupKeepsIInv == ASSUME IInv, Setup PROVE IInv'
<1>0. PICK t \in threads :
        /\ t.kind = "setup" /\ threads' = threads \ { t }
        /\ queue' = IF status = t.snapshot /\ Requested(t.snapshot)
                    THEN Append(queue, LaunchTask(t.snapshot)) ELSE queue
  BY DEF Setup
<1>1. Basics' /\ AppsSettle
  BY DEF IInv, Basics, AppsSettle, Setup, zkVars, countVars
<1>2. WorkSound' /\ SavedSound' /\ OneApplication'
  BY <1>1, WorkKept, SavedKept DEF IInv, Setup, zkVars
<1>3. MemorySound'
  BY <1>0 DEF IInv, MemorySound, Setup, zkVars
<1>4. LaunchTask(t.snapshot) \in Tasks
  BY <1>0 DEF IInv, TasksSound, Threads, LaunchTask, Tasks
<1>5. /\ queue' \in Seq(Tasks)
      /\ \A i \in 1 .. Len(queue') :
            \/ i \in 1 .. Len(queue) /\ queue'[i] = queue[i]
            \/ i = Len(queue) + 1 /\ queue'[i] = LaunchTask(t.snapshot)
  BY <1>0, <1>4, Appended DEF IInv, TasksSound
<1>6. TasksMove
  BY <1>0, <1>5 DEF TasksMove, IInv, TasksSound, Setup
<1>7. TasksSound'
  BY <1>1, <1>6, TasksKept DEF IInv
<1>8. \A a \in Apps, i \in 1 .. Len(queue') : Launches(i, a)' =>
        \/ i \in 1 .. Len(queue) /\ Launches(i, a)
        \/ i = Len(queue) + 1 /\ SetsUp(t, a)
  BY <1>0, <1>5 DEF Launches, LaunchTask, SetsUp
<1>9. \A a \in Apps : /\ Submits(a)' <=> Submits(a)
                      /\ \A u \in threads' : u \in threads /\ u # t /\ (SetsUp(u, a)' <=> SetsUp(u, a))
  BY <1>0 DEF Submits, SetsUp, Setup
<1>10. \A a \in Apps : Pending(a)' => Pending(a)
  BY <1>8, <1>9 DEF Pending
<1>11. saved' = saved /\ submitted' = submitted
  BY DEF Setup, zkVars
<1>12. SubmittedOnce'
  <2>. SUFFICES ASSUME NEW a \in Apps
                PROVE  /\ \A u, v \in threads' : SetsUp(u, a)' /\ SetsUp(v, a)' => u = v
                       /\ \A i, j \in 1 .. Len(queue') : Launches(i, a)' /\ Launches(j, a)' => i = j
                       /\ \A u \in threads', i \in 1 .. Len(queue') : ~(SetsUp(u, a)' /\ Launches(i, a)')
                       /\ Submits(a)' => /\ \A u \in threads' : ~SetsUp(u, a)'
                                         /\ \A i \in 1 .. Len(queue') : ~Launches(i, a)'
                       /\ Pending(a)' /\ saved' # None /\ saved'.app = a
                             => submitted' <= saved'.tries
    BY DEF SubmittedOnce
  <2>1. /\ \A u, v \in threads : SetsUp(u, a) /\ SetsUp(v, a) => u = v
        /\ \A i, j \in 1 .. Len(queue) : Launches(i, a) /\ Launches(j, a) => i = j
        /\ \A u \in threads, i \in 1 .. Len(queue) : ~(SetsUp(u, a) /\ Launches(i, a))
        /\ Submits(a) => /\ \A u \in threads : ~SetsUp(u, a)
                         /\ \A i \in 1 .. Len(queue) : ~Launches(i, a)
        /\ Pending(a) /\ saved # None /\ saved.app = a => submitted <= saved.tries
    BY DEF IInv, SubmittedOnce
  <2>. QED BY <2>1, <1>8, <1>9, <1>10, <1>11
<1>. QED BY <1>1, <1>2, <1>3, <1>7, <1>12 DEF IInv

-----------------------------------------------------------------------------
(* A task begins *)

\* The first task is taken from the queue: what it is to do must be sound, and
\* a submission must be the one the task stood for.
LEMMA BeginKeeps ==
    ASSUME IInv, NEW kind, Begin(kind), WorkSound', faults' \in 0 .. MaxFaults,
           threads' \subseteq Threads,
           \A t \in threads' : t \in threads \/ t.kind # "setup",
           delayed' \subseteq delayed \cup { Task("resync") },
           \A a \in Apps : Submits(a)' => Launches(1, a)
    PROVE  IInv'
<1>1. Basics' /\ AppsSettle
  BY DEF IInv, Basics, AppsSettle, Begin, zkVars
<1>2. SavedSound' /\ OneApplication'
  BY <1>1, SavedKept DEF IInv, Begin, zkVars
<1>3. MemorySound'
  BY DEF IInv, MemorySound, Begin, zkVars
<1>4. /\ queue \in Seq(Tasks) /\ queue # << >> /\ queue' = Tail(queue)
      /\ saved' = saved /\ submitted' = submitted
  BY DEF IInv, TasksSound, Begin, zkVars
<1>5. /\ queue' \in Seq(Tasks) /\ 1 \in 1 .. Len(queue)
      /\ \A i \in 1 .. Len(queue') :
            i + 1 \in 1 .. Len(queue) /\ i + 1 # 1 /\ queue'[i] = queue[i + 1]
  BY <1>4, Taken
<1>6. TasksMove
  <2>1. Task("resync") \in Tasks
    BY DEF Task, Tasks, SimpleKinds
  <2>. QED BY <1>5, <2>1 DEF TasksMove, IInv, TasksSound
<1>7. TasksSound'
  BY <1>1, <1>6, TasksKept DEF IInv
<1>8. \A a \in Apps : /\ \A i \in 1 .. Len(queue') : Launches(i, a)' => Launches(i + 1, a)
                      /\ \A t \in threads' : SetsUp(t, a) => t \in threads
  BY <1>5 DEF Launches, SetsUp
<1>9. \A t, a : SetsUp(t, a)' <=> SetsUp(t, a)
  OBVIOUS
<1>10. ASSUME NEW a \in Apps
       PROVE  Pending(a)' => Pending(a)
  BY <1>5, <1>8, <1>9 DEF Pending
<1>11. SubmittedOnce'
  <2>. SUFFICES ASSUME NEW a \in Apps
                PROVE  /\ \A u, v \in threads' : SetsUp(u, a)' /\ SetsUp(v, a)' => u = v
                       /\ \A i, j \in 1 .. Len(queue') : Launches(i, a)' /\ Launches(j, a)' => i = j
                       /\ \A u \in threads', i \in 1 .. Len(queue') : ~(SetsUp(u, a)' /\ Launches(i, a)')
                       /\ Submits(a)' => /\ \A u \in threads' : ~SetsUp(u, a)'
                                         /\ \A i \in 1 .. Len(queue') : ~Launches(i, a)'
                       /\ Pending(a)' /\ saved' # None /\ saved'.app = a
                             => submitted' <= saved'.tries
    BY DEF SubmittedOnce
  <2>1. /\ \A u, v \in threads : SetsUp(u, a) /\ SetsUp(v, a) => u = v
        /\ \A i, j \in 1 .. Len(queue) : Launches(i, a) /\ Launches(j, a) => i = j
        /\ \A u \in threads, i \in 1 .. Len(queue) : ~(SetsUp(u, a) /\ Launches(i, a))
        /\ Pending(a) /\ saved # None /\ saved.app = a => submitted <= saved.tries
    BY DEF IInv, SubmittedOnce
  <2>2. \A i, j \in 1 .. Len(queue') : Launches(i, a)' /\ Launches(j, a)' => i = j
    <3>. SUFFICES ASSUME NEW i \in 1 .. Len(queue'), NEW j \in 1 .. Len(queue'),
                         Launches(i, a)', Launches(j, a)'
                  PROVE  i = j
      OBVIOUS
    <3>1. i + 1 = j + 1
      BY <1>5, <1>8, <2>1
    <3>2. i \in Int /\ j \in Int
      OBVIOUS
    <3>. QED BY <3>1, <3>2
  <2>3. Submits(a)' => /\ \A u \in threads' : ~SetsUp(u, a)
                       /\ \A i \in 1 .. Len(queue') : ~Launches(i, a)'
    BY <1>5, <1>8, <2>1
  <2>4. \A u \in threads', i \in 1 .. Len(queue') : ~(SetsUp(u, a) /\ Launches(i, a)')
    BY <1>5, <1>8, <2>1
  <2>. QED BY <2>1, <2>2, <2>3, <2>4, <1>4, <1>8, <1>9, <1>10
<1>. QED BY <1>1, <1>2, <1>3, <1>7, <1>11 DEF IInv

\* A task that begins runs in a process that is up: memory is what is persisted.
LEMMA TaskStatus ==
    ASSUME IInv, queue # << >> \/ work # << >>
    PROVE  /\ up /\ status = saved /\ SavedSound /\ StatusWellFormed(status)
           /\ status # None => /\ status \in Statuses /\ PolicyKept(status) /\ Counts(status)
                               /\ IsAssociated(status) => /\ status.app \in Apps
                                                          /\ apps[status.app] # "FREE"
           /\ status = None \/ ~IsLive(status) \/ apps[status.app] \notin LiveApps => Quiet
<1>1. up /\ status = saved
  BY DEF IInv, Basics, MemorySound
<1>2. SavedSound /\ StatusWellFormed(status)
  BY <1>1 DEF IInv, SavedSound
<1>3. status # None => /\ status \in Statuses /\ PolicyKept(status) /\ Counts(status)
                       /\ IsAssociated(status) => status.app \in Apps /\ apps[status.app] # "FREE"
  BY <1>1, <1>2 DEF SavedSound, StatusWellFormed, Statuses
<1>4. status = None \/ ~IsLive(status) \/ apps[status.app] \notin LiveApps => Quiet
  BY <1>1 DEF IInv, OneApplication, Quiet
<1>. QED BY <1>1, <1>2, <1>3, <1>4

\* Another state of the same application, with an exit when it ended.
LEMMA EditSound ==
    ASSUME SavedSound, status = saved, status # None, IsAssociated(status),
           NEW x \in APPLICATION_ASSOCIATED_STATES \ { "APPLICATION_CREATED" },
           NEW e \in ExitTypes \cup { None },
           x \in APPLICATION_LIVE_ASSOCIATED_STATES => IsLive(status) /\ e = None
    PROVE  LET s == [ status EXCEPT !.state = x, !.exit = e ]
           IN  s \in Statuses /\ SaveSound(s) /\ s.state = x
               /\ (IsLive(s) <=> x \in APPLICATION_LIVE_ASSOCIATED_STATES)
<1> DEFINE s == [ status EXCEPT !.state = x, !.exit = e ]
<1>1. status \in Statuses /\ StatusWellFormed(status) /\ PolicyKept(status) /\ Counts(status)
  BY DEF SavedSound, StatusWellFormed
<1>2. /\ s \in Statuses /\ s.state = x /\ s.exit = e /\ s.app = status.app
      /\ s.version = status.version /\ s.tries = status.tries /\ s.retried = status.retried
  BY <1>1 DEF Statuses, FrameworkStates
<1>3. s # None
  BY <1>2, NoneAssumption
<1>4. s.app # None /\ IsAssociated(s) /\ (IsLive(s) <=> x \in APPLICATION_LIVE_ASSOCIATED_STATES)
  BY <1>1, <1>2 DEF StatusWellFormed, IsAssociated, IsLive
<1>5. StatusWellFormed(s)
  BY <1>2, <1>4 DEF StatusWellFormed
<1>6. PolicyKept(s) /\ Counts(s)
  BY <1>1, <1>2 DEF PolicyKept, Counts, APPLICATION_ASSOCIATED_STATES,
                    APPLICATION_LIVE_ASSOCIATED_STATES
<1>7. s.tries >= status.tries
  BY <1>1, <1>2 DEF Statuses
<1>. HIDE DEF s
<1>8. SaveSound(s)
  BY <1>2, <1>3, <1>4, <1>5, <1>6, <1>7 DEF SaveSound
<1>. QED BY <1>2, <1>4, <1>8 DEF s

\* The same status with another state.
LEMMA StateSound ==
    ASSUME SavedSound, status = saved, status # None, IsAssociated(status),
           NEW x \in APPLICATION_ASSOCIATED_STATES \ { "APPLICATION_CREATED" },
           x \in APPLICATION_LIVE_ASSOCIATED_STATES => IsLive(status)
    PROVE  LET s == [ status EXCEPT !.state = x ]
           IN  s \in Statuses /\ SaveSound(s) /\ s.state = x
               /\ (IsLive(s) <=> x \in APPLICATION_LIVE_ASSOCIATED_STATES)
<1>1. status \in Statuses /\ StatusWellFormed(status)
  BY DEF SavedSound, StatusWellFormed
<1>2. /\ status.exit \in ExitTypes \cup { None }
      /\ [ status EXCEPT !.state = x ] = [ status EXCEPT !.state = x, !.exit = status.exit ]
  BY <1>1 DEF Statuses
<1>3. IsLive(status) => status.exit = None
  BY <1>1 DEF StatusWellFormed, IsLive
<1>. QED BY <1>2, <1>3, EditSound

\* Work that begins with such a write, or consists of it.
LEMMA SaveIsWork ==
    ASSUME UNCHANGED << status, apps, submitted >>, status # None,
           NEW s \in Statuses, SaveSound(s), IsLive(s) \/ Quiet,
           \/ work' = Save(s)
           \/ /\ ~IsLive(s)
              /\ \/ work' = Save(s) \o Create /\ s.state = "FRAMEWORK_WAITING"
                 \/ work' = Save(s) \o Attempt /\ s.state = "APPLICATION_COMPLETED"
    PROVE  WorkSound' /\ \A a : ~Submits(a)'
<1>1. SaveSound(s)' /\ (Quiet => Quiet')
  BY DEF SaveSound, Counts, Quiet
<1>2. CASE work' = Save(s)
  <2>1. work' \in Seq(Steps) /\ Last(work', "save") /\ Head(work').status = s
    BY <1>2, Singles
  <2>2. \A a : ~Submits(a)'
    BY <2>1 DEF Submits, Last, First
  <2>3. CASE IsLive(s)
    BY <1>1, <2>1, <2>2, <2>3 DEF WorkSound, StatusWork
  <2>4. CASE ~IsLive(s)
    BY <1>1, <2>1, <2>2, <2>4 DEF WorkSound, QuietWork, FinalSave
  <2>. QED BY <2>2, <2>3, <2>4
<1>3. CASE work' # Save(s)
  <2>1. PICK w \in { Create, Attempt } :
           /\ work' = Save(s) \o w
           /\ \/ w = Create /\ s.state = "FRAMEWORK_WAITING"
              \/ w = Attempt /\ s.state = "APPLICATION_COMPLETED"
    BY <1>3
  <2>2. w \in Seq(Steps) /\ (w = Create => Last(w, "create")) /\ (w = Attempt => Last(w, "attempt"))
    BY Singles
  <2>3. /\ work' \in Seq(Steps) /\ First(work', "save") /\ Head(work').status = s
        /\ Tail(work') = w
    BY <2>1, <2>2, Sequels
  <2>4. \A a : ~Submits(a)'
    BY <2>3 DEF Submits, First
  <2>. QED BY <1>1, <1>3, <2>1, <2>2, <2>3, <2>4 DEF WorkSound, StatusWork, FinalSave
<1>. QED BY <1>2, <1>3

\* Creation, retry and retrieval of what the startup found.
LEMMA StartupTasksKeepIInv ==
    ASSUME IInv, CreateAll \/ RetrieveAll \/ RetryAll
    PROVE  IInv'
<1>1. /\ queue # << >> /\ queue \in Seq(Tasks) /\ threads \subseteq Threads
      /\ UNCHANGED << status, apps, submitted >> /\ work = << >>
      /\ faults' = faults /\ faults \in 0 .. MaxFaults /\ delayed' = delayed
  BY DEF CreateAll, RetrieveAll, RetryAll, Begin, IInv, TasksSound, Basics
<1>2. CASE CreateAll
  <2>1. WorkSound'
    BY <1>1, <1>2, Singles, NoStep DEF CreateAll, CreateWork, WorkSound, StatusWork
  <2>2. \A a : ~Submits(a)'
    BY <1>2, Singles DEF CreateAll, CreateWork, Submits, First, Last
  <2>. QED BY <1>1, <1>2, <2>1, <2>2, BeginKeeps DEF CreateAll
<1>3. CASE RetrieveAll
  <2>1. WorkSound' /\ \A a : ~Submits(a)'
    BY <1>1, <1>3, NoStep DEF RetrieveAll, WorkSound, Submits, First
  <2>2. threads' \subseteq Threads /\ \A t \in threads' : t \in threads \/ t.kind # "setup"
    <3>1. CASE status # None /\ status.state = "APPLICATION_RETRIEVING_DIAGNOSTICS"
      <4>1. status.app \in Apps
        BY <1>1, <3>1, TaskStatus DEF IsAssociated, APPLICATION_ASSOCIATED_STATES
      <4>2. DiagnoseThread(status.app) \in Threads /\ DiagnoseThread(status.app).kind # "setup"
        BY <4>1 DEF DiagnoseThread, Threads
      <4>. QED BY <1>1, <1>3, <3>1, <4>2 DEF RetrieveAll
    <3>2. CASE ~(status # None /\ status.state = "APPLICATION_RETRIEVING_DIAGNOSTICS")
      BY <1>1, <1>3, <3>2 DEF RetrieveAll
    <3>. QED BY <3>1, <3>2
  <2>. QED BY <1>1, <1>3, <2>1, <2>2, BeginKeeps DEF RetrieveAll
<1>4. CASE RetryAll
  <2>1. WorkSound'
    BY <1>1, <1>4, Singles, NoStep DEF RetryAll, WorkSound, StatusWork
  <2>2. \A a : ~Submits(a)'
    BY <1>4, Singles DEF RetryAll, Submits, First, Last
  <2>. QED BY <1>1, <1>4, <2>1, <2>2, BeginKeeps DEF RetryAll
<1>. QED BY <1>2, <1>3, <1>4

\* The task of a launch becomes the submission of the application it is for.
LEMMA LaunchKeepsIInv == ASSUME IInv, LaunchApplication PROVE IInv'
<1> DEFINE s == Head(queue).snapshot
<1>1. /\ queue # << >> /\ queue \in Seq(Tasks) /\ Head(queue).kind = "launch"
      /\ UNCHANGED << status, apps, submitted >> /\ work = << >> /\ threads' = threads
      /\ threads \subseteq Threads /\ faults' = faults /\ faults \in 0 .. MaxFaults
      /\ delayed' = delayed /\ Begin("launch")
      /\ work' = IF status = s /\ Requested(s) THEN Submit(s.app) ELSE << >>
  BY DEF LaunchApplication, Begin, IInv, TasksSound, Basics
<1>2. /\ Head(queue) = queue[1] /\ 1 \in 1 .. Len(queue) /\ Head(queue) \in Tasks
  BY <1>1, Taken
<1>3. s \in Statuses /\ Launchable(s) /\ s # None
  BY <1>1, <1>2, NoneAssumption DEF IInv, TasksSound, Tasks, SimpleKinds
<1>4. WorkSound'
  BY <1>1, <1>3, Singles, NoStep DEF WorkSound, StatusWork, Launchable
<1>5. \A a \in Apps : Submits(a)' => Launches(1, a)
  BY <1>1, <1>2, <1>3, Singles DEF Submits, First, Launches, Launchable
<1>. QED BY <1>1, <1>4, <1>5, BeginKeeps

\* The report of a live application becomes its state, or it has ended.
LEMMA ResyncKeepsIInv == ASSUME IInv, ResyncWithRM PROVE IInv'
<1>1. /\ queue # << >> /\ UNCHANGED << status, apps, submitted >> /\ work = << >>
      /\ threads' = threads /\ threads \subseteq Threads /\ faults' \in 0 .. MaxFaults
      /\ delayed' = delayed \cup { Task("resync") } /\ Begin("resync")
      /\ work' = << >> \/ work' = ResyncWork
  BY ServiceAssumption DEF ResyncWithRM, Begin, IInv, TasksSound, Basics
<1>2. WorkSound' /\ \A a : ~Submits(a)'
  <2>1. CASE work' = << >>
    BY <2>1, NoStep DEF WorkSound, Submits, First
  <2>2. CASE work' # << >>
    <3>1. /\ status # None /\ IsLive(status) /\ status.state # "APPLICATION_CREATED"
          /\ work' = ResyncWork
      BY <1>1, <2>2 DEF ResyncWork
    <3>2. IsAssociated(status) /\ status.app \in Apps /\ apps[status.app] \in AppStates
      BY <1>1, <3>1, TaskStatus DEF IsAssociated, IsLive, APPLICATION_ASSOCIATED_STATES, IInv, Basics
    <3>3. CASE apps[status.app] \in LiveApps
      <4>1. PICK x \in { "APPLICATION_WAITING", "APPLICATION_RUNNING" } :
               work' = Save([ status EXCEPT !.state = x ])
        BY <2>2, <3>1, <3>3 DEF ResyncWork, Transition, LiveApps, ExitTypes
      <4>2. PICK s \in Statuses : s = [ status EXCEPT !.state = x ] /\ SaveSound(s) /\ IsLive(s)
        BY <1>1, <3>1, <3>2, TaskStatus, StateSound
           DEF APPLICATION_ASSOCIATED_STATES, APPLICATION_LIVE_ASSOCIATED_STATES
      <4>. QED BY <1>1, <3>1, <4>1, <4>2, SaveIsWork
    <3>4. CASE apps[status.app] \notin LiveApps
      <4>1. PICK e \in ExitTypes : work' = RetrieveWork(e)
        BY <3>1, <3>4 DEF ResyncWork, LiveApps, ExitTypes
      <4>2. PICK s \in Statuses :
               /\ s = [ status EXCEPT !.state = "APPLICATION_RETRIEVING_DIAGNOSTICS", !.exit = e ]
               /\ SaveSound(s) /\ ~IsLive(s)
        <5> DEFINE x == "APPLICATION_RETRIEVING_DIAGNOSTICS"
        <5>1. /\ x \in APPLICATION_ASSOCIATED_STATES \ { "APPLICATION_CREATED" }
              /\ x \notin APPLICATION_LIVE_ASSOCIATED_STATES
          BY DEF APPLICATION_ASSOCIATED_STATES, APPLICATION_LIVE_ASSOCIATED_STATES
        <5>2. SavedSound /\ status = saved
          BY <1>1, TaskStatus
        <5>. HIDE DEF x
        <5>3. LET s == [ status EXCEPT !.state = x, !.exit = e ]
              IN  s \in Statuses /\ SaveSound(s) /\ ~IsLive(s)
          BY <3>1, <3>2, <5>1, <5>2, EditSound
        <5>. QED BY <5>3 DEF x
      <4>3. work' = Save(s) /\ Quiet
        BY <1>1, <3>4, <4>1, <4>2, TaskStatus DEF RetrieveWork
      <4>. QED BY <1>1, <3>1, <4>2, <4>3, SaveIsWork
    <3>. QED BY <3>3, <3>4
  <2>. QED BY <2>1, <2>2
<1>. QED BY <1>1, <1>2, BeginKeeps

\* The exit of the application is known: it is completed, and a retry attempted.
LEMMA ExitKeepsIInv == ASSUME IInv, RetrieveExitCode PROVE IInv'
<1>1. /\ queue # << >> /\ UNCHANGED << status, apps, submitted >> /\ work = << >>
      /\ threads' = threads /\ threads \subseteq Threads
      /\ faults' = faults /\ faults \in 0 .. MaxFaults
      /\ delayed' = delayed /\ Begin("exit")
  BY DEF RetrieveExitCode, Begin, IInv, TasksSound, Basics
<1>2. WorkSound' /\ \A a : ~Submits(a)'
  <2>1. CASE work' = << >>
    BY <2>1, NoStep DEF WorkSound, Submits, First
  <2>2. CASE work' # << >>
    <3>1. /\ status # None /\ status.state = "APPLICATION_RETRIEVING_DIAGNOSTICS"
          /\ work' = CompletedWork(status)
      BY <2>2 DEF RetrieveExitCode
    <3>2. IsAssociated(status) /\ ~IsLive(status)
      BY <3>1 DEF IsAssociated, IsLive, APPLICATION_ASSOCIATED_STATES,
                  APPLICATION_LIVE_ASSOCIATED_STATES
    <3>3. PICK s \in Statuses : /\ s = [ status EXCEPT !.state = "APPLICATION_COMPLETED" ]
                                /\ SaveSound(s) /\ ~IsLive(s) /\ s.state = "APPLICATION_COMPLETED"
      BY <1>1, <3>1, <3>2, TaskStatus, StateSound
         DEF APPLICATION_ASSOCIATED_STATES, APPLICATION_LIVE_ASSOCIATED_STATES
    <3>4. work' = Save(s) \o Attempt /\ Quiet
      BY <1>1, <3>1, <3>2, <3>3, TaskStatus DEF CompletedWork
    <3>. QED BY <1>1, <3>1, <3>3, <3>4, SaveIsWork
  <2>. QED BY <2>1, <2>2
<1>. QED BY <1>1, <1>2, BeginKeeps

\* A retry counts one submission more, within what the policy grants.
LEMMA RetriedSound ==
    ASSUME SavedSound, submitted \in Nat,
           status = saved, status # None, status.state = "APPLICATION_COMPLETED",
           NEW normally \in BOOLEAN,
           LET policy == Policy[status.version]
           IN  ~policy.fancy => normally /\ (policy.max \in Nat => status.retried < policy.max)
    PROVE  LET s == Retried(status, normally)
           IN  s \in Statuses /\ SaveSound(s) /\ ~IsLive(s) /\ s.state = "FRAMEWORK_WAITING"
<1> DEFINE s == Retried(status, normally)
<1>1. status \in Statuses /\ PolicyKept(status) /\ Counts(status)
  BY DEF SavedSound, StatusWellFormed
<1>2. /\ s \in Statuses /\ s.state = "FRAMEWORK_WAITING" /\ s.app = None /\ s.exit = None
      /\ s.version = status.version /\ s.tries = status.tries + 1
      /\ s.retried = status.retried + (IF normally THEN 1 ELSE 0)
  <2>1. s = [ version |-> status.version, state |-> "FRAMEWORK_WAITING", app |-> None,
              exit |-> None, retried |-> status.retried + (IF normally THEN 1 ELSE 0),
              tries |-> status.tries + 1 ]
    <3> DEFINE n == IF normally THEN 1 ELSE 0
    <3>1. s = [ NewStatus(status.version) EXCEPT !.retried = status.retried + n,
                                                 !.tries = status.tries + 1 ]
      BY DEF Retried
    <3>. HIDE DEF n
    <3>2. s = [ version |-> status.version, state |-> "FRAMEWORK_WAITING", app |-> None,
                exit |-> None, retried |-> status.retried + n, tries |-> status.tries + 1 ]
      BY <3>1 DEF NewStatus
    <3>. QED BY <3>2 DEF n
  <2>2. /\ status.version \in Versions /\ status.tries + 1 \in Nat
        /\ status.retried + (IF normally THEN 1 ELSE 0) \in Nat
    BY <1>1 DEF Statuses
  <2>3. "FRAMEWORK_WAITING" \in FrameworkStates
    BY DEF FrameworkStates
  <2>. HIDE DEF s
  <2>. QED BY <2>1, <2>2, <2>3 DEF Statuses
<1>3. s # None
  BY <1>2, NoneAssumption
<1>4. ~IsLive(s) /\ ~IsAssociated(s)
  BY <1>2 DEF IsLive, IsAssociated, APPLICATION_LIVE_ASSOCIATED_STATES,
              APPLICATION_ASSOCIATED_STATES
<1>5. StatusWellFormed(s)
  <2>. HIDE DEF s
  <2>. QED BY <1>2, <1>4 DEF StatusWellFormed, IsAssociated
<1>6. /\ status.tries \in Nat /\ status.retried \in Nat /\ status.version \in Versions
      /\ submitted <= status.tries + 1
  BY <1>1 DEF Statuses, Counts
<1>7. PolicyKept(s)
  <2>1. ASSUME ~Policy[status.version].fancy
        PROVE  /\ s.retried = s.tries
               /\ Policy[status.version].max \in Nat => s.retried <= Policy[status.version].max
    BY <1>1, <1>2, <1>6, <2>1 DEF PolicyKept
  <2>. QED BY <1>2, <2>1 DEF PolicyKept
<1>8. Counts(s)
  <2>. HIDE DEF s
  <2>. QED BY <1>2, <1>6 DEF Counts
<1>. HIDE DEF s
<1>9. SaveSound(s)
  BY <1>2, <1>3, <1>4, <1>5, <1>6, <1>7, <1>8 DEF SaveSound
<1>. QED BY <1>2, <1>4, <1>9 DEF s

\* A retry that was put off is granted by the fancy policy.
LEMMA RetryDelayedKeepsIInv == ASSUME IInv, RetryDelayed PROVE IInv'
<1>1. /\ queue # << >> /\ UNCHANGED << status, apps, submitted >> /\ work = << >>
      /\ threads' = threads /\ threads \subseteq Threads
      /\ faults' = faults /\ faults \in 0 .. MaxFaults /\ queue \in Seq(Tasks)
      /\ delayed' = delayed /\ Begin("retry") /\ Head(queue).kind = "retry"
  BY DEF RetryDelayed, Begin, IInv, TasksSound, Basics
<1>2. WorkSound' /\ \A a : ~Submits(a)'
  <2>1. CASE work' = << >>
    BY <2>1, NoStep DEF WorkSound, Submits, First
  <2>2. CASE work' # << >>
    <3>1. status = Head(queue).snapshot /\ work' = Save(Head(queue).next) \o Create
      BY <2>2 DEF RetryDelayed
    <3>2. Head(queue) = queue[1] /\ 1 \in 1 .. Len(queue) /\ Head(queue) \in Tasks
      BY <1>1, Taken
    <3>3. RetryLater(Head(queue)) /\ status \in Statuses
      BY <1>1, <3>1, <3>2 DEF IInv, TasksSound, Tasks, SimpleKinds
    <3>4. /\ status # None /\ status.state = "APPLICATION_COMPLETED"
          /\ Policy[status.version].fancy /\ Head(queue).next = Retried(status, FALSE)
      BY <3>1, <3>3, NoneAssumption DEF RetryLater
    <3>5. PICK s \in Statuses : /\ s = Retried(status, FALSE) /\ SaveSound(s) /\ ~IsLive(s)
                                /\ s.state = "FRAMEWORK_WAITING"
      BY <1>1, <3>4, TaskStatus, RetriedSound DEF IInv, Basics
    <3>6. ~IsLive(status)
      BY <3>4 DEF IsLive, APPLICATION_LIVE_ASSOCIATED_STATES
    <3>7. work' = Save(s) \o Create /\ Quiet
      BY <1>1, <3>1, <3>4, <3>5, <3>6, TaskStatus
    <3>. QED BY <1>1, <3>4, <3>5, <3>7, SaveIsWork
  <2>. QED BY <2>1, <2>2
<1>. QED BY <1>1, <1>2, BeginKeeps

\* An application there is room for.
LEMMA NextAppFree == FreeApps # { } => NextApp \in Apps /\ apps[NextApp] = "FREE" /\ NextApp # None
BY NoneAssumption DEF NextApp, FreeApps

\* A framework that is stopped keeps its application, or has one that is free.
LEMMA StoppedSound ==
    ASSUME FreeApps # { }, NEW s \in Statuses, StatusWellFormed(s), PolicyKept(s)
    PROVE  LET t == Stopped(s)
           IN  /\ t \in Statuses /\ t # None /\ StatusWellFormed(t) /\ PolicyKept(t)
               /\ t.state = "FRAMEWORK_COMPLETED" /\ t.version = s.version /\ t.tries = s.tries
               /\ ~IsLive(t)
               /\ t.app = IF IsAssociated(s) THEN s.app ELSE NextApp
<1> DEFINE t == Stopped(s)
           a == IF IsAssociated(s) THEN s.app ELSE NextApp
<1>1. a \in Apps /\ a # None
  BY NextAppFree, NoneAssumption DEF StatusWellFormed, Statuses, IsAssociated
<1>2. t = [ s EXCEPT !.state = "FRAMEWORK_COMPLETED", !.exit = "NON_TRANSIENT", !.app = a ]
  BY DEF Stopped
<1>. HIDE DEF a
<1>3. /\ t \in Statuses /\ t.state = "FRAMEWORK_COMPLETED" /\ t.exit = "NON_TRANSIENT"
      /\ t.app = a /\ t.version = s.version /\ t.tries = s.tries /\ t.retried = s.retried
  BY <1>1, <1>2 DEF Statuses, FrameworkStates, ExitTypes, APPLICATION_ASSOCIATED_STATES
<1>4. ~IsLive(t) /\ IsAssociated(t)
  BY <1>3 DEF IsLive, IsAssociated, APPLICATION_ASSOCIATED_STATES,
              APPLICATION_LIVE_ASSOCIATED_STATES
<1>5. t # None
  BY <1>3, NoneAssumption
<1>. HIDE DEF t
<1>6. StatusWellFormed(t)
  BY <1>1, <1>3, <1>4 DEF StatusWellFormed, IsAssociated, IsLive
<1>7. PolicyKept(t)
  BY <1>3 DEF PolicyKept
<1>. QED BY <1>3, <1>4, <1>5, <1>6, <1>7 DEF t, a

\* A new status is sound: nothing of its version was submitted.
LEMMA NewStatusSound ==
    ASSUME NEW v \in Versions
    PROVE  LET s == NewStatus(v)
           IN  /\ s \in Statuses /\ s # None /\ StatusWellFormed(s) /\ PolicyKept(s)
               /\ ~IsLive(s) /\ ~IsAssociated(s) /\ s.app = None /\ s.tries = 0 /\ s.version = v
               /\ s.state = "FRAMEWORK_WAITING"
<1> DEFINE s == NewStatus(v)
<1>1. /\ s \in Statuses /\ s.state = "FRAMEWORK_WAITING" /\ s.app = None /\ s.exit = None
      /\ s.version = v /\ s.tries = 0 /\ s.retried = 0
  BY DEF NewStatus, Statuses, FrameworkStates
<1>2. ~IsLive(s) /\ ~IsAssociated(s)
  BY <1>1 DEF IsLive, IsAssociated, APPLICATION_ASSOCIATED_STATES,
              APPLICATION_LIVE_ASSOCIATED_STATES
<1>3. s # None
  BY <1>1, NoneAssumption
<1>4. Policy[v].max \in Nat => 0 <= Policy[v].max
  OBVIOUS
<1>. HIDE DEF s
<1>5. StatusWellFormed(s) /\ PolicyKept(s)
  BY <1>1, <1>2, <1>4 DEF StatusWellFormed, PolicyKept, IsAssociated
<1>. QED BY <1>1, <1>2, <1>3, <1>5 DEF s

\* What follows a framework that is added.
LEMMA AfterAddWork ==
    ASSUME FreeApps # { }, NEW r \in Requests
    PROVE  LET s    == NewStatus(r.version)
               stop == Stop(r, s)
               w    == stop \o (IF stop = << >> THEN CreateWork(s) ELSE << >>)
           IN  /\ stop \in Seq(Steps) /\ w \in Seq(Steps) /\ AfterAdd(r.version, w)
               /\ Add(r.version) \o w \in Seq(Steps) /\ QuietWork(Add(r.version) \o w)
<1> DEFINE s    == NewStatus(r.version)
           stop == Stop(r, s)
           w    == stop \o (IF stop = << >> THEN CreateWork(s) ELSE << >>)
<1>1. r.version \in Versions
  BY DEF Requests
<1>2. /\ s \in Statuses /\ s # None /\ StatusWellFormed(s) /\ PolicyKept(s)
      /\ ~IsLive(s) /\ ~IsAssociated(s) /\ s.app = None /\ s.version = r.version
      /\ s.state = "FRAMEWORK_WAITING"
  BY <1>1, NewStatusSound
<1>. HIDE DEF s
<1>3. stop \in Seq(Steps) /\ w \in Seq(Steps) /\ AfterAdd(r.version, w)
  <2>1. CASE r.execution = "STOP"
    <3>1. PICK t \in Statuses :
             /\ t = Stopped(s) /\ t # None /\ StatusWellFormed(t) /\ PolicyKept(t)
             /\ t.state = "FRAMEWORK_COMPLETED" /\ t.version = r.version /\ t.app = NextApp
      BY <1>2, StoppedSound
    <3>2. stop = Save(t) /\ Save(t) \in Seq(Steps)
      BY <1>2, <2>1, <3>1, Singles, NoStep DEF Stop, KillLive
    <3>3. w = stop
      BY <3>2, Singles, NoStep DEF Last, First
    <3>4. Last(stop, "save") /\ Head(stop).status = t /\ apps[t.app] = "FREE"
      BY <3>1, <3>2, Singles, NextAppFree
    <3>. HIDE DEF stop, w
    <3>5. AfterAdd(r.version, stop)
      BY <3>1, <3>4 DEF AfterAdd
    <3>. QED BY <3>2, <3>3, <3>5
  <2>2. CASE r.execution # "STOP"
    <3>1. stop = << >> /\ w = Create
      BY <1>2, <2>2, Singles, NoStep DEF Stop, CreateWork
    <3>. QED BY <3>1, Singles, NoStep DEF AfterAdd
  <2>. QED BY <2>1, <2>2
<1>. HIDE DEF stop, w
<1>4. Add(r.version) \o w \in Seq(Steps) /\ QuietWork(Add(r.version) \o w)
  BY <1>1, <1>3, Sequels DEF QuietWork
<1>. QED BY <1>3, <1>4 DEF s, stop, w

\* Work that needs that nothing lives, behind the kill of what may live.
LEMMA KillBefore ==
    ASSUME IInv, queue # << >>, UNCHANGED << status, apps, submitted >>, status # None,
           NEW w \in Seq(Steps), QuietWork(w), work' = KillLive(status) \o w
    PROVE  WorkSound' /\ \A a : ~Submits(a)'
<1>1. QuietWork(w)' /\ (Quiet => Quiet')
  BY DEF QuietWork, AfterAdd, FinalSave, SaveSound, Counts, Quiet
<1>2. w # << >> /\ ~First(w, "submit")
  BY DEF QuietWork, Last, First
<1>3. CASE IsLive(status)
  <2>1. status.app \in Apps
    BY <1>3, TaskStatus DEF IsAssociated, IsLive, APPLICATION_ASSOCIATED_STATES
  <2>2. /\ work' \in Seq(Steps) /\ First(work', "kill") /\ Head(work').app = status.app
        /\ Tail(work') = w
    BY <1>3, <2>1, Sequels DEF KillLive
  <2>3. \A a : ~Submits(a)'
    BY <2>2 DEF Submits, First
  <2>. QED BY <1>1, <1>3, <2>2, <2>3 DEF WorkSound, StatusWork
<1>4. CASE ~IsLive(status)
  <2>1. work' = w /\ Quiet
    BY <1>4, NoStep, TaskStatus DEF KillLive
  <2>. QED BY <1>1, <1>2, <2>1 DEF WorkSound, Submits
<1>. QED BY <1>3, <1>4

\* Work of a process whose thread begins it, unlike a submission.
LEMMA QuietIsWork ==
    ASSUME Quiet, UNCHANGED << status, apps, submitted >>,
           NEW w \in Seq(Steps), QuietWork(w), work' = w
    PROVE  WorkSound' /\ \A a : ~Submits(a)'
<1>1. QuietWork(w)' /\ Quiet'
  BY DEF QuietWork, AfterAdd, FinalSave, SaveSound, Counts, Quiet
<1>2. ~First(w, "submit")
  BY DEF QuietWork, Last, First
<1>. QED BY <1>1, <1>2 DEF WorkSound, Submits

\* The kill of a status is work, or there is none.
LEMMA KillLiveIsSteps ==
    ASSUME IInv, queue # << >>, status # None
    PROVE  /\ KillLive(status) \in Seq(Steps)
           /\ \A w \in Seq(Steps) : /\ KillLive(status) \o w \in Seq(Steps)
                                    /\ w # << >> => KillLive(status) \o w # << >>
<1>1. CASE IsLive(status)
  <2>1. status.app \in Apps
    BY <1>1, TaskStatus DEF IsAssociated, IsLive, APPLICATION_ASSOCIATED_STATES
  <2>2. KillLive(status) = Kill(status.app) /\ Kill(status.app) \in Seq(Steps)
    BY <1>1, <2>1, Singles DEF KillLive
  <2>. QED BY <2>1, <2>2, Sequels DEF First
<1>2. CASE ~IsLive(status)
  BY <1>2, NoStep DEF KillLive
<1>. QED BY <1>1, <1>2

\* What an update has to do is sound: it drops, replaces, stops or creates, and
\* kills before it does.
LEMMA UpdateWorkSound ==
    ASSUME IInv, queue # << >>, UNCHANGED << status, apps, submitted >>, FreeApps # { },
           NEW r \in Requests, work' = UpdateWork(r), r # None
    PROVE  WorkSound' /\ \A a : ~Submits(a)'
<1> DEFINE new  == NewStatus(r.version)
           stop == Stop(r, new)
           rest == IF stop = << >> THEN CreateWork(new) ELSE << >>
<1>0. r.version \in Versions
  BY DEF Requests
<1>1. /\ stop \in Seq(Steps) /\ rest \in Seq(Steps) /\ stop \o rest \in Seq(Steps)
      /\ Add(r.version) \o (stop \o rest) \in Seq(Steps)
      /\ QuietWork(Add(r.version) \o (stop \o rest))
      /\ Add(r.version) \in Seq(Steps) /\ Add(r.version) # << >>
  <2>1. rest \in Seq(Steps)
    BY Singles, NoStep DEF CreateWork
  <2>. QED BY <1>0, <2>1, AfterAddWork, Singles DEF Last, First
<1>2. PICK add \in Seq(Steps) : add = Add(r.version) \o (stop \o rest) /\ QuietWork(add)
  BY <1>1
<1>3. CASE status = None
  <2>1. Replace(r) = Add(r.version)
    BY <1>3 DEF Replace
  <2>2. work' = (Add(r.version) \o stop) \o rest
    BY <1>1, <2>1 DEF UpdateWork
  <2>. HIDE DEF stop, rest
  <2>3. work' = add
    BY <1>1, <1>2, <2>2, StepsAssociate
  <2>. QED BY <1>2, <1>3, <2>3, TaskStatus, QuietIsWork
<1>4. CASE status # None /\ status.version # r.version
  <2>1. /\ Replace(r) = KillLive(status) \o Add(r.version)
        /\ KillLive(status) \in Seq(Steps) /\ Replace(r) # << >> /\ Replace(r) \in Seq(Steps)
    BY <1>1, <1>4, KillLiveIsSteps DEF Replace
  <2>2. work' = (Replace(r) \o stop) \o rest
    BY <2>1 DEF UpdateWork
  <2>. HIDE DEF stop, rest
  <2>3. work' = KillLive(status) \o add
    <3>1. PICK k \in Seq(Steps), a \in Seq(Steps), u \in Seq(Steps), v \in Seq(Steps) :
             k = KillLive(status) /\ a = Add(r.version) /\ u = stop /\ v = rest
      BY <1>1, <2>1
    <3>2. k \o a \in Seq(Steps) /\ u \o v \in Seq(Steps)
      BY <1>1, <2>1, <3>1
    <3>3. work' = ((k \o a) \o u) \o v
      BY <2>1, <2>2, <3>1
    <3>4. work' = (k \o a) \o (u \o v)
      BY <3>2, <3>3, StepsAssociate, SMTT(60)
    <3>5. work' = k \o (a \o (u \o v))
      <4>1. PICK x \in Seq(Steps) : x = u \o v
        BY <3>2
      <4>2. (k \o a) \o x = k \o (a \o x)
        BY StepsAssociate, SMTT(60)
      <4>. QED BY <3>4, <4>1, <4>2
    <3>. QED BY <1>2, <3>1, <3>5
  <2>. QED BY <1>2, <1>4, <2>3, KillBefore
<1>5. CASE status # None /\ status.version = r.version
  <2> DEFINE halt == Stop(r, status)
  <2>1. Replace(r) = << >>
    BY <1>5 DEF Replace
  <2>2. work' = (<< >> \o halt) \o (IF halt = << >> THEN CreateWork(status) ELSE << >>)
    BY <2>1 DEF UpdateWork
  <2>3. CASE r.execution = "STOP" /\ status.state # "FRAMEWORK_COMPLETED"
    <3>1. PICK t \in Statuses : t = Stopped(status) /\ FinalSave(t)
      <4>1. /\ status \in Statuses /\ StatusWellFormed(status) /\ PolicyKept(status)
            /\ Counts(status) /\ status.tries \in Nat
        BY <1>5, TaskStatus DEF Statuses
      <4>2. PICK t \in Statuses :
               /\ t = Stopped(status) /\ t # None /\ StatusWellFormed(t) /\ PolicyKept(t)
               /\ t.state = "FRAMEWORK_COMPLETED" /\ t.version = status.version
               /\ t.tries = status.tries /\ ~IsLive(t)
               /\ t.app = IF IsAssociated(status) THEN status.app ELSE NextApp
        BY <4>1, StoppedSound
      <4>3. Counts(t) /\ t.tries >= status.tries
        BY <4>1, <4>2 DEF Counts
      <4>4. t.app = status.app \/ apps[t.app] = "FREE"
        BY <4>2, NextAppFree
      <4>. QED BY <4>2, <4>3, <4>4 DEF FinalSave, SaveSound
    <3>2. Save(t) \in Seq(Steps) /\ QuietWork(Save(t)) /\ Save(t) # << >>
      BY <1>5, <3>1, Singles DEF QuietWork, Last, First
    <3>3. halt = KillLive(status) \o Save(t)
      BY <2>3, <3>1 DEF Stop
    <3>4. halt \in Seq(Steps) /\ halt # << >>
      BY <1>5, <3>2, <3>3, KillLiveIsSteps
    <3>5. work' = KillLive(status) \o Save(t)
      <4>. HIDE DEF halt
      <4>. QED BY <2>2, <3>3, <3>4, NoStep
    <3>. QED BY <1>5, <3>2, <3>5, KillBefore
  <2>4. CASE ~(r.execution = "STOP" /\ status.state # "FRAMEWORK_COMPLETED")
    <3>1. halt = << >> /\ CreateWork(status) \in Seq(Steps)
      BY <2>4, Singles, NoStep DEF Stop, CreateWork
    <3>2. work' = CreateWork(status)
      BY <2>2, <3>1, NoStep
    <3>. QED BY <1>5, <3>1, <3>2, Singles DEF CreateWork, WorkSound, StatusWork, Submits, Last, First
  <2>. QED BY <2>3, <2>4
<1>. QED BY <1>3, <1>4, <1>5

\* The update of a request, or of its removal.
LEMMA UpdateKeepsIInv == ASSUME IInv, UpdateRequests PROVE IInv'
<1>1. /\ queue # << >> /\ UNCHANGED << status, apps, submitted >> /\ work = << >>
      /\ threads' = threads /\ threads \subseteq Threads /\ FreeApps # { }
      /\ faults' = faults /\ faults \in 0 .. MaxFaults /\ queue \in Seq(Tasks)
      /\ delayed' = delayed /\ Begin("update") /\ Head(queue).kind = "update"
      /\ work' = UpdateWork(Head(queue).request)
  BY DEF UpdateRequests, Begin, IInv, TasksSound, Basics
<1>2. PICK r \in Requests \cup { None } : r = Head(queue).request
  <2>1. Head(queue) \in Tasks
    BY <1>1, Taken
  <2>. QED BY <1>1, <2>1 DEF Tasks, SimpleKinds
<1>3. WorkSound' /\ \A a : ~Submits(a)'
  <2>1. CASE r # None
    BY <1>1, <1>2, <2>1, UpdateWorkSound
  <2>2. CASE r = None /\ status = None
    <3>1. work' = << >>
      BY <1>1, <1>2, <2>2 DEF UpdateWork
    <3>. QED BY <3>1, NoStep DEF WorkSound, Submits, First
  <2>3. CASE r = None /\ status # None
    <3>1. work' = KillLive(status) \o Drop /\ Drop \in Seq(Steps) /\ QuietWork(Drop)
      BY <1>1, <1>2, <2>3, Singles DEF UpdateWork, QuietWork
    <3>. QED BY <1>1, <2>3, <3>1, KillBefore
  <2>. QED BY <2>1, <2>2, <2>3
<1>. QED BY <1>1, <1>3, BeginKeeps

\* Every task that begins.
LEMMA TaskBeginsKeepsIInv == ASSUME IInv, TaskBegins PROVE IInv'
BY StartupTasksKeepIInv, UpdateKeepsIInv, LaunchKeepsIInv, ResyncKeepsIInv, ExitKeepsIInv,
   RetryDelayedKeepsIInv DEF TaskBegins

-----------------------------------------------------------------------------
(* Users, YARN, timers and threads *)

\* Applications settle and nothing else of the process changes.
LEMMA SettleKeeps ==
    ASSUME IInv, Basics', AppsSettle,
           UNCHANGED << saved, up, status, queue, work, delayed, threads, submitted >>
    PROVE  IInv'
<1>1. WorkSound' /\ SavedSound' /\ OneApplication'
  BY WorkKept, SavedKept DEF IInv
<1>2. MemorySound'
  BY DEF IInv, MemorySound
<1>3. TasksSound'
  <2>1. TasksMove
    BY DEF IInv, TasksSound, TasksMove
  <2>. QED BY <2>1, TasksKept DEF IInv
<1>4. \A a \in Apps : /\ Pending(a)' <=> Pending(a)
                      /\ Submits(a)' <=> Submits(a)
                      /\ \A t \in threads : SetsUp(t, a)' <=> SetsUp(t, a)
                      /\ \A i \in 1 .. Len(queue) : Launches(i, a)' <=> Launches(i, a)
  BY DEF Pending, Submits, SetsUp, Launches
<1>5. SubmittedOnce'
  BY <1>4 DEF IInv, SubmittedOnce
<1>. QED BY <1>1, <1>2, <1>3, <1>5 DEF IInv

\* The request changes, and what becomes of the applications.
LEMMA EnvironmentKeepsIInv ==
    ASSUME IInv,
           \/ \E r \in Requests : SetRequest(r)
           \/ DeleteRequest
           \/ \E a \in Apps : AppRuns(a) \/ AppSucceeds(a) \/ AppFails(a) \/ AppForgotten(a)
    PROVE  IInv'
<1>1. CASE (\E r \in Requests : SetRequest(r)) \/ DeleteRequest
  <2>1. Basics'
    BY <1>1, ServiceAssumption DEF SetRequest, DeleteRequest, IInv, Basics, memVars
  <2>2. AppsSettle
    BY <1>1 DEF SetRequest, DeleteRequest, AppsSettle, IInv, Basics
  <2>. QED BY <1>1, <2>1, <2>2, SettleKeeps DEF SetRequest, DeleteRequest, memVars
<1>2. ASSUME NEW a \in Apps, AppRuns(a) \/ AppSucceeds(a) \/ AppFails(a) \/ AppForgotten(a)
      PROVE  IInv'
  <2>1. PICK from \in SUBSET (LiveApps \cup ExitTypes), to \in AppStates : AppStep(a, from, to)
           /\ (to \in LiveApps => from \subseteq LiveApps) /\ to # "FREE"
    BY <1>2 DEF AppRuns, AppSucceeds, AppFails, AppForgotten, AppStates, LiveApps, ExitTypes
  <2>2. apps' = [ apps EXCEPT ![a] = to ] /\ apps[a] \in from
    BY <2>1 DEF AppStep
  <2>3. apps \in [ Apps -> AppStates ]
    BY DEF IInv, Basics
  <2>4. apps[a] \notin { "FREE", "GIVEN" }
    BY <2>1, <2>2 DEF LiveApps, ExitTypes
  <2>5. AppsSettle
    BY <2>1, <2>2, <2>3, <2>4 DEF AppsSettle
  <2>6. faults' \in 0 .. MaxFaults
    BY <1>2, ServiceAssumption DEF AppRuns, AppSucceeds, AppFails, AppForgotten, IInv, Basics
  <2>7. Basics'
    BY <2>1, <2>5, <2>6 DEF AppStep, zkVars, memVars, AppsSettle, IInv, Basics
  <2>. QED BY <2>1, <2>5, <2>7, SettleKeeps DEF AppStep, zkVars, memVars
<1>. QED BY <1>1, <1>2

\* A pulled request, a delay that is over and a thread that ended queue a task.
LEMMA TimersKeepIInv ==
    ASSUME IInv, Pull \/ Diagnose \/ DelayOver("resync") \/ DelayOver("retry")
    PROVE  IInv'
<1>1. CASE Pull
  <2>1. UpdateTask(request) \in Tasks /\ UpdateTask(request).kind = "update"
    BY DEF UpdateTask, Tasks, IInv, Basics
  <2>. QED BY <1>1, <2>1, AppendKeeps DEF Pull, zkVars, countVars, IInv, Basics
<1>2. CASE Diagnose
  <2>1. PICK t \in threads : /\ t.kind = "diagnose" /\ threads' = threads \ { t }
                             /\ queue' = Append(queue, ExitTask(t.app))
    BY <1>2 DEF Diagnose
  <2>2. ExitTask(t.app) \in Tasks /\ ExitTask(t.app).kind = "exit"
    BY <2>1 DEF IInv, TasksSound, Threads, ExitTask, Tasks
  <2>3. up
    BY <2>1 DEF IInv, MemorySound
  <2>. QED BY <1>2, <2>1, <2>2, <2>3, AppendKeeps DEF Diagnose, zkVars, countVars, IInv, Basics
<1>3. ASSUME NEW kind, DelayOver(kind)
      PROVE  IInv'
  <2>1. PICK d \in delayed : delayed' = delayed \ { d } /\ queue' = Append(queue, d)
    BY <1>3 DEF DelayOver
  <2>2. d \in Tasks /\ d.kind \in { "resync", "retry" } /\ up
    BY <2>1 DEF IInv, TasksSound, MemorySound
  <2>. QED BY <1>3, <2>1, <2>2, AppendKeeps DEF DelayOver, zkVars, countVars, IInv, Basics
<1>. QED BY <1>1, <1>2, <1>3

-----------------------------------------------------------------------------
(* The steps of a task *)

\* A status is written: the one there is goes on, or nothing lives; its
\* application is the one there is, or a free one, which is created.
Writable(s) ==
    /\ Quiet \/ (saved # None /\ IsLive(saved) /\ IsLive(s) /\ s.app = saved.app)
    /\ \/ s.app = None
       \/ /\ saved # None /\ s.app = saved.app /\ s.tries >= saved.tries
          /\ submitted' = submitted /\ s.state # "APPLICATION_CREATED"
       \/ /\ apps[s.app] = "FREE"
          /\ s.state = "APPLICATION_CREATED" => submitted' <= s.tries

\* What a write keeps, when its task goes on soundly.
LEMMA WriteKeeps ==
    ASSUME IInv, up, NEW s \in Statuses, Write(s), Writable(s),
           StatusWellFormed(s), PolicyKept(s), submitted' \in Nat,
           submitted' <= s.tries + 1,
           s.state = "FRAMEWORK_WAITING" => submitted' <= s.tries,
           UNCHANGED << request, up, pulled, queue, requests, crashes, delayed, faults >>,
           WorkSound', \A a \in Apps : ~Submits(a)'
    PROVE  IInv'
<1>1. /\ s # None /\ saved = status /\ status' = s /\ saved' = s
      /\ s.app # None => s.app \in Apps
      /\ s.app # None <=> IsAssociated(s)
  BY NoneAssumption DEF IInv, MemorySound, Write, Statuses, StatusWellFormed, IsAssociated
<1>2. /\ apps \in [ Apps -> AppStates ] /\ apps' \in [ Apps -> AppStates ]
      /\ \A a \in Apps : apps'[a] = IF a = s.app /\ apps[a] = "FREE" THEN "GIVEN" ELSE apps[a]
  BY <1>1, NoneAssumption DEF IInv, Basics, Write, AppStates
<1>3. /\ threads \subseteq threads'
      /\ \A t \in threads' : \/ t \in threads
                             \/ t = SetupThread(s) /\ s.state = "APPLICATION_CREATED"
                             \/ t = DiagnoseThread(s.app)
                                /\ s.state = "APPLICATION_RETRIEVING_DIAGNOSTICS"
  BY DEF Write
<1>4. s.state = "APPLICATION_CREATED" =>
        /\ s.app \in Apps /\ apps[s.app] = "FREE" /\ apps'[s.app] = "GIVEN"
        /\ submitted' <= s.tries
  BY <1>1, <1>2 DEF Writable, IsAssociated, APPLICATION_ASSOCIATED_STATES,
                    APPLICATION_LIVE_ASSOCIATED_STATES
<1>5. Basics'
  BY <1>2 DEF IInv, Basics
<1>6. SavedSound' /\ MemorySound'
  <2>1. s.app # None => apps'[s.app] # "FREE"
    BY <1>1, <1>2
  <2>. QED BY <1>1, <2>1 DEF IInv, MemorySound, SavedSound, Counts
<1>7. TasksSound'
  <2>1. \A z : Launchable(z) => Launchable(z)'
    BY <1>2 DEF Launchable
  <2>2. SetupThread(s) \in Threads /\ (s.app \in Apps => DiagnoseThread(s.app) \in Threads)
    BY DEF SetupThread, DiagnoseThread, Threads
  <2>3. threads' \subseteq Threads
    BY <1>1, <1>3, <2>2 DEF IInv, TasksSound, IsAssociated, APPLICATION_ASSOCIATED_STATES
  <2>4. Launchable(s)' \/ s.state # "APPLICATION_CREATED"
    BY <1>4 DEF Launchable
  <2>5. \A t \in threads' : t.kind = "setup" => Launchable(t.snapshot)'
    BY <1>3, <2>1, <2>4 DEF IInv, TasksSound, SetupThread, DiagnoseThread
  <2>. QED BY <2>1, <2>3, <2>5 DEF IInv, TasksSound, RetryLater
<1>8. \A a \in Apps :
        /\ \A t : SetsUp(t, a)' <=> SetsUp(t, a)
        /\ \A i : Launches(i, a)' <=> Launches(i, a)
  BY DEF SetsUp, Launches
<1>9. ASSUME NEW a \in Apps, s.state = "APPLICATION_CREATED", s.app = a
      PROVE  /\ \A t \in threads : ~SetsUp(t, a)
             /\ \A i \in 1 .. Len(queue) : ~Launches(i, a)
  BY <1>4, <1>9 DEF SetsUp, Launches, IInv, TasksSound, Launchable
<1>10. ASSUME NEW a \in Apps, NEW t \in threads', SetsUp(t, a)
       PROVE  t \in threads \/ (t = SetupThread(s) /\ s.state = "APPLICATION_CREATED" /\ s.app = a)
  BY <1>3, <1>10 DEF SetsUp, SetupThread, DiagnoseThread
<1>11. ASSUME NEW a \in Apps, Pending(a)', s.app = a
       PROVE  submitted' <= s.tries
  <2>1. CASE s.state = "APPLICATION_CREATED"
    BY <1>4, <2>1
  <2>2. CASE s.state # "APPLICATION_CREATED"
    <3>1. Pending(a)
      BY <1>8, <1>10, <1>11, <2>2 DEF Pending
    <3>2. Submits(a) \/ apps[a] = "GIVEN"
      BY <3>1 DEF Pending, SetsUp, Launches, IInv, TasksSound, Launchable
    <3>3. Submits(a) => apps[a] # "FREE"
      <4>1. Submits(a) => status # None /\ status.app = a
        BY DEF IInv, WorkSound, Submits, First, Last, QuietWork, StatusWork
      <4>. QED BY <1>1, <4>1, NoneAssumption DEF IInv, SavedSound
    <3>4. /\ saved # None /\ s.app = saved.app /\ s.tries >= saved.tries
          /\ submitted' = submitted /\ saved \in Statuses
      BY <1>11, <3>2, <3>3, NoneAssumption DEF Writable, IInv, SavedSound, StatusWellFormed
    <3>5. submitted <= saved.tries
      BY <1>11, <3>1, <3>4 DEF IInv, SubmittedOnce
    <3>6. submitted \in Nat /\ s.tries \in Nat /\ saved.tries \in Nat
      BY <3>4 DEF IInv, Basics, Statuses
    <3>. QED BY <3>4, <3>5, <3>6
  <2>. QED BY <2>1, <2>2
<1>12. SubmittedOnce'
  <2>. SUFFICES ASSUME NEW a \in Apps
                PROVE  /\ \A u, v \in threads' : SetsUp(u, a)' /\ SetsUp(v, a)' => u = v
                       /\ \A i, j \in 1 .. Len(queue') : Launches(i, a)' /\ Launches(j, a)' => i = j
                       /\ \A u \in threads', i \in 1 .. Len(queue') : ~(SetsUp(u, a)' /\ Launches(i, a)')
                       /\ Submits(a)' => /\ \A u \in threads' : ~SetsUp(u, a)'
                                         /\ \A i \in 1 .. Len(queue') : ~Launches(i, a)'
                       /\ Pending(a)' /\ saved' # None /\ saved'.app = a
                             => submitted' <= saved'.tries
    BY DEF SubmittedOnce
  <2>1. /\ \A u, v \in threads : SetsUp(u, a) /\ SetsUp(v, a) => u = v
        /\ \A i, j \in 1 .. Len(queue) : Launches(i, a) /\ Launches(j, a) => i = j
        /\ \A u \in threads, i \in 1 .. Len(queue) : ~(SetsUp(u, a) /\ Launches(i, a))
    BY DEF IInv, SubmittedOnce
  <2>2. \A u, v \in threads' : SetsUp(u, a) /\ SetsUp(v, a) => u = v
    BY <1>9, <1>10, <2>1
  <2>3. \A u \in threads', i \in 1 .. Len(queue) : ~(SetsUp(u, a) /\ Launches(i, a))
    BY <1>9, <1>10, <2>1
  <2>. QED BY <1>1, <1>8, <1>11, <2>1, <2>2, <2>3
<1>13. OneApplication'
  BY <1>1, <1>2 DEF IInv, OneApplication, Writable, Quiet, LiveApps
<1>. QED BY <1>5, <1>6, <1>7, <1>12, <1>13 DEF IInv

\* A process whose task has work is up, and its head is a step.
LEMMA Working ==
    ASSUME IInv, work # << >>
    PROVE  /\ up /\ status = saved /\ work \in Seq(Steps) /\ Head(work) \in Steps
           /\ Tail(work) \in Seq(Steps)
           /\ (Quiet /\ QuietWork(work)) \/ (status # None /\ StatusWork)
           /\ submitted \in Nat
BY HeadOfWork DEF IInv, MemorySound, WorkSound, Basics

\* A save writes over the status there is.
LEMMA SaveKeepsIInv == ASSUME IInv, DoSave PROVE IInv'
<1>1. /\ First(work, "save") /\ work # << >> /\ work' = Tail(work) /\ Write(Head(work).status)
      /\ UNCHANGED << request, up, pulled, queue, requests, crashes, delayed, submitted, faults >>
  BY DEF DoSave, Doing, First
<1>2. PICK s \in Statuses : s = Head(work).status
  BY <1>1, Working, HeadOfWork
<1>3. /\ status # None /\ SaveSound(s)
      /\ IsLive(s) \/ Quiet
      /\ \/ work' = << >>
         \/ Last(work', "create") /\ s.state = "FRAMEWORK_WAITING"
         \/ Last(work', "attempt") /\ s.state = "APPLICATION_COMPLETED"
  BY <1>1, <1>2, Working DEF QuietWork, StatusWork, First, Last, FinalSave
<1>4. status = saved /\ up /\ submitted \in Nat /\ work' \in Seq(Steps) /\ status' = s
  BY <1>1, <1>2, Working DEF Write
<1>5. s # None
  BY NoneAssumption
<1>6. WorkSound' /\ \A a \in Apps : ~Submits(a)'
  BY <1>3, <1>4, <1>5 DEF WorkSound, StatusWork, Submits, First, Last
<1>7. Writable(s)
  BY <1>1, <1>3, <1>4 DEF SaveSound, Writable
<1>. QED BY <1>1, <1>2, <1>3, <1>4, <1>6, <1>7, WriteKeeps DEF SaveSound, Counts

\* A framework that is added has a status of its own, which counts anew.
LEMMA AddKeepsIInv == ASSUME IInv, DoAdd PROVE IInv'
<1>1. /\ First(work, "add") /\ work # << >> /\ work' = Tail(work)
      /\ Write(NewStatus(Head(work).version)) /\ submitted' = 0
      /\ UNCHANGED << request, up, pulled, queue, requests, crashes, delayed, faults >>
  BY DEF DoAdd, Doing, First
<1>2. PICK v \in Versions : v = Head(work).version
  BY <1>1, Working, HeadOfWork
<1>3. PICK s \in Statuses :
         /\ s = NewStatus(v) /\ s # None /\ StatusWellFormed(s) /\ PolicyKept(s)
         /\ ~IsLive(s) /\ ~IsAssociated(s) /\ s.app = None /\ s.tries = 0 /\ s.version = v
         /\ s.state = "FRAMEWORK_WAITING"
  BY NewStatusSound
<1>4. Quiet /\ AfterAdd(v, work') /\ work' \in Seq(Steps) /\ up
  BY <1>1, <1>2, Working DEF QuietWork, StatusWork, First, Last
<1>5. apps' = apps /\ status' = s
  BY <1>1, <1>2, <1>3 DEF Write
<1>6. WorkSound' /\ \A a \in Apps : ~Submits(a)'
  <2>1. CASE work' = << >>
    BY <2>1, <1>4 DEF WorkSound, Submits, First
  <2>2. CASE Last(work', "create")
    BY <2>2, <1>3, <1>4, <1>5 DEF WorkSound, StatusWork, Submits, Last, First
  <2>3. CASE Last(work', "save")
    <3>1. PICK t \in Statuses : t = Head(work').status
      BY <1>4, <2>3, HeadOfWork DEF Last, First
    <3>2. /\ StatusWellFormed(t) /\ t # None /\ PolicyKept(t)
          /\ t.version = v /\ t.state = "FRAMEWORK_COMPLETED" /\ apps[t.app] = "FREE"
      BY <1>4, <2>3, <3>1 DEF AfterAdd, Last, First
    <3>3. ~IsLive(t) /\ t.tries \in Nat
      BY <3>2 DEF IsLive, APPLICATION_LIVE_ASSOCIATED_STATES, Statuses
    <3>4. FinalSave(t)'
      BY <1>1, <1>3, <1>5, <3>2, <3>3 DEF FinalSave, SaveSound, Counts
    <3>5. Quiet'
      BY <1>4, <1>5 DEF Quiet
    <3>. QED BY <1>3, <1>4, <1>5, <2>3, <3>1, <3>4, <3>5 DEF WorkSound, QuietWork, Submits, Last, First
  <2>. QED BY <1>4, <2>1, <2>2, <2>3 DEF AfterAdd
<1>7. Writable(s)
  BY <1>3, <1>4 DEF Writable
<1>. QED BY <1>1, <1>2, <1>3, <1>4, <1>6, <1>7, WriteKeeps

\* An application is created for a framework that waits: it is a free one, and
\* what was submitted so far is counted.
LEMMA CreateKeepsIInv == ASSUME IInv, DoCreate PROVE IInv'
<1>1. /\ First(work, "create") /\ work # << >> /\ work' = Tail(work) /\ FreeApps # { }
      /\ Write([ status EXCEPT !.state = "APPLICATION_CREATED", !.app = NextApp ])
      /\ UNCHANGED << request, up, pulled, queue, requests, crashes, delayed, submitted, faults >>
  BY DEF DoCreate, Doing, First
<1>2. /\ status # None /\ work' = << >> /\ status.state = "FRAMEWORK_WAITING"
      /\ status = saved /\ up /\ submitted \in Nat
  BY <1>1, Working DEF QuietWork, StatusWork, First, Last
<1>3. status \in Statuses /\ StatusWellFormed(status) /\ PolicyKept(status) /\ Counts(status)
  BY <1>2 DEF IInv, SavedSound, StatusWellFormed
<1>4. Quiet
  BY <1>2 DEF IInv, OneApplication, Quiet, IsLive, APPLICATION_LIVE_ASSOCIATED_STATES
<1>5. NextApp \in Apps /\ apps[NextApp] = "FREE" /\ NextApp # None
  BY <1>1, NextAppFree
<1>6. PICK s \in Statuses :
         /\ s = [ status EXCEPT !.state = "APPLICATION_CREATED", !.app = NextApp ]
         /\ s.state = "APPLICATION_CREATED" /\ s.app = NextApp /\ s.exit = None
         /\ s.version = status.version /\ s.tries = status.tries /\ s.retried = status.retried
  <2>1. status.exit = None
    BY <1>2, <1>3 DEF StatusWellFormed, APPLICATION_ASSOCIATED_STATES
  <2>2. "APPLICATION_CREATED" \in FrameworkStates
    BY DEF FrameworkStates, APPLICATION_ASSOCIATED_STATES, APPLICATION_LIVE_ASSOCIATED_STATES
  <2>3. PICK n \in Apps : n = NextApp
    BY <1>5
  <2> DEFINE x == "APPLICATION_CREATED"
             t == [ status EXCEPT !.state = x, !.app = n ]
  <2>4. x \in FrameworkStates
    BY <2>2
  <2>. HIDE DEF x
  <2>5. /\ t \in Statuses /\ t.state = x /\ t.app = n /\ t.exit = status.exit
        /\ t.version = status.version /\ t.tries = status.tries /\ t.retried = status.retried
    BY <1>3, <2>3, <2>4 DEF Statuses
  <2>6. t = [ status EXCEPT !.state = "APPLICATION_CREATED", !.app = NextApp ]
    BY <2>3 DEF x
  <2>. HIDE DEF t
  <2>. QED BY <2>1, <2>3, <2>5, <2>6 DEF x
<1>7. StatusWellFormed(s) /\ PolicyKept(s)
  BY <1>3, <1>5, <1>6 DEF StatusWellFormed, PolicyKept, IsAssociated,
     APPLICATION_ASSOCIATED_STATES, APPLICATION_LIVE_ASSOCIATED_STATES
<1>8. submitted <= s.tries /\ s.tries \in Nat
  BY <1>2, <1>3, <1>6 DEF Counts, Statuses
<1>9. WorkSound' /\ \A a \in Apps : ~Submits(a)'
  BY <1>2, NoStep DEF WorkSound, Submits, First
<1>10. Writable(s)
  BY <1>1, <1>4, <1>5, <1>6, <1>8 DEF Writable
<1>11. Write(s)
  BY <1>1, <1>6
<1>12. submitted' = submitted /\ submitted <= s.tries + 1
  BY <1>1, <1>2, <1>8
<1>. QED BY <1>1, <1>2, <1>6, <1>7, <1>9, <1>10, <1>11, <1>12, WriteKeeps

\* A framework is dropped once nothing of it lives.
LEMMA DropKeepsIInv == ASSUME IInv, DoDrop PROVE IInv'
<1>1. /\ First(work, "drop") /\ work # << >> /\ work' = Tail(work)
      /\ status' = None /\ saved' = None
      /\ UNCHANGED << request, up, pulled, queue, requests, crashes, apps, threads, delayed,
                      submitted, faults >>
  BY DEF DoDrop, Doing, First
<1>2. Quiet /\ work' = << >> /\ up
  BY <1>1, Working DEF QuietWork, StatusWork, First, Last
<1>3. Basics' /\ SavedSound' /\ MemorySound' /\ OneApplication'
  BY <1>1, <1>2 DEF IInv, Basics, SavedSound, StatusWellFormed, MemorySound, OneApplication, Quiet
<1>4. WorkSound' /\ \A a : ~Submits(a)'
  BY <1>2, NoStep DEF WorkSound, Submits, First
<1>5. TasksSound'
  BY <1>1 DEF IInv, TasksSound, Launchable, RetryLater
<1>6. \A a \in Apps : /\ \A t : SetsUp(t, a)' <=> SetsUp(t, a)
                      /\ \A i : Launches(i, a)' <=> Launches(i, a)
  BY <1>1 DEF SetsUp, Launches
<1>7. SubmittedOnce'
  BY <1>1, <1>4, <1>6 DEF IInv, SubmittedOnce
<1>. QED BY <1>3, <1>4, <1>5, <1>7 DEF IInv

\* After the kill nothing lives.
LEMMA KillKeepsIInv == ASSUME IInv, DoKill PROVE IInv'
<1>1. /\ First(work, "kill") /\ work # << >> /\ work' = Tail(work)
      /\ apps' = IF apps[Head(work).app] \in LiveApps
                 THEN [ apps EXCEPT ![Head(work).app] = "TRANSIENT_NORMAL" ] ELSE apps
      /\ UNCHANGED << request, up, pulled, queue, requests, crashes, status, saved, threads,
                      delayed, submitted, faults >>
  BY DEF DoKill, Doing, First
<1>2. PICK a \in Apps : a = Head(work).app
  BY <1>1, Working, HeadOfWork
<1>3. /\ status # None /\ IsLive(status) /\ status.app = a /\ QuietWork(Tail(work))
      /\ status = saved /\ up /\ Tail(work) \in Seq(Steps)
  BY <1>1, <1>2, Working DEF QuietWork, StatusWork, First, Last
<1>4. apps \in [ Apps -> AppStates ]
  BY DEF IInv, Basics
<1>5. AppsSettle
  BY <1>1, <1>2, <1>4 DEF AppsSettle, LiveApps, ExitTypes, AppStates
<1>6. Quiet'
  BY <1>1, <1>2, <1>3, <1>4 DEF IInv, OneApplication, Quiet, LiveApps
<1>7. PICK w \in Seq(Steps) : w = Tail(work) /\ QuietWork(w)
  BY <1>3
<1>8. QuietWork(w)' /\ work' = w /\ ~First(w, "submit")
  BY <1>1, <1>5, <1>7, QuietWorkKept DEF QuietWork, Last, First
<1>9. WorkSound' /\ \A b : ~Submits(b)'
  BY <1>6, <1>8 DEF WorkSound, Submits
<1>10. Basics' /\ MemorySound'
  BY <1>1, <1>3, <1>5 DEF IInv, Basics, MemorySound, AppsSettle
<1>11. SavedSound' /\ OneApplication'
  BY <1>1, <1>5, SavedKept DEF IInv
<1>12. TasksSound'
  <2>1. TasksMove
    BY <1>1 DEF IInv, TasksSound, TasksMove
  <2>. QED BY <1>5, <2>1, TasksKept DEF IInv
<1>13. \A b \in Apps : /\ \A t : SetsUp(t, b)' <=> SetsUp(t, b)
                       /\ \A i : Launches(i, b)' <=> Launches(i, b)
                       /\ Pending(b)' => Pending(b)
  BY <1>1, <1>9 DEF SetsUp, Launches, Pending
<1>14. SubmittedOnce'
  BY <1>1, <1>9, <1>13 DEF IInv, SubmittedOnce
<1>. QED BY <1>9, <1>10, <1>11, <1>12, <1>14 DEF IInv

\* The submission of the application that is pending: it may live now, it is
\* counted, and none for it is pending any more.
LEMMA SubmitKeepsIInv == ASSUME IInv, DoSubmit PROVE IInv'
<1>1. PICK a \in Apps : a = Head(work).app /\ First(work, "submit") /\ work # << >>
  <2>1. First(work, "submit") /\ work # << >>
    BY DEF DoSubmit, Doing, First
  <2>. QED BY <2>1, Working, HeadOfWork
<1>2. /\ status # None /\ status.state = "APPLICATION_CREATED" /\ status.app = a
      /\ status = saved /\ up /\ submitted \in Nat
  BY <1>1, Working DEF QuietWork, StatusWork, First, Last
<1>3. IsLive(status) /\ IsAssociated(status)
  BY <1>2 DEF IsLive, IsAssociated, APPLICATION_ASSOCIATED_STATES,
              APPLICATION_LIVE_ASSOCIATED_STATES
<1>4. Submits(a) /\ submitted <= saved.tries
  BY <1>1, <1>2 DEF Submits, Pending, IInv, SubmittedOnce
<1>5. /\ apps' \in { apps, [ apps EXCEPT ![a] = "ACCEPTED" ] }
      /\ submitted' = submitted + 1 /\ faults' \in 0 .. MaxFaults
      /\ UNCHANGED << request, up, pulled, queue, requests, crashes, status, saved, threads, delayed >>
      /\ \/ work' = Save([ status EXCEPT !.state = "APPLICATION_LAUNCHED" ])
         \/ \E exit \in { "TRANSIENT_NORMAL", "NON_TRANSIENT", "UNKNOWN" } :
               work' = Kill(a) \o RetrieveWork(exit)
  <2>1. /\ submitted' = submitted + 1
        /\ UNCHANGED << request, up, pulled, queue, requests, crashes, status, saved, threads, delayed >>
    BY DEF DoSubmit, Doing
  <2>2. faults \in 0 .. MaxFaults /\ MaxFaults \in Nat
    BY ServiceAssumption DEF IInv, Basics
  <2>3. \/ /\ apps' = [ apps EXCEPT ![a] = "ACCEPTED" ] /\ faults' = faults
           /\ work' = Save([ status EXCEPT !.state = "APPLICATION_LAUNCHED" ])
        \/ /\ apps' \in { apps, [ apps EXCEPT ![a] = "ACCEPTED" ] }
           /\ faults < MaxFaults /\ faults' = faults + 1
           /\ \E exit \in { "TRANSIENT_NORMAL", "NON_TRANSIENT", "UNKNOWN" } :
                 work' = Kill(a) \o RetrieveWork(exit)
    BY <1>1, Zenon DEF DoSubmit
  <2>4. faults' \in 0 .. MaxFaults
    BY <2>2, <2>3
  <2>5. apps' \in { apps, [ apps EXCEPT ![a] = "ACCEPTED" ] }
    BY <2>3, Zenon
  <2>. QED BY <2>1, <2>3, <2>4, <2>5, Zenon
<1>6. /\ apps' \in [ Apps -> AppStates ] /\ apps[a] \in AppStates /\ apps[a] # "FREE"
      /\ \A b \in Apps : b # a => apps'[b] = apps[b]
      /\ apps'[a] # "FREE"
  BY <1>2, <1>5, NoneAssumption DEF IInv, Basics, SavedSound, AppStates, LiveApps
<1>7. SavedSound
  BY DEF IInv
<1>8. status \in Statuses /\ status.tries \in Nat
  BY <1>2 DEF IInv, SavedSound, StatusWellFormed, Statuses
<1>9. ASSUME NEW s \in Statuses, SaveSound(s), s.tries = status.tries, s.app = status.app,
             s.state # "FRAMEWORK_WAITING"
      PROVE  SaveSound(s)'
  BY <1>2, <1>4, <1>5, <1>8, <1>9 DEF SaveSound, Counts
<1>10. WorkSound' /\ \A b : ~Submits(b)'
  <2>1. CASE work' = Save([ status EXCEPT !.state = "APPLICATION_LAUNCHED" ])
    <3> DEFINE x == "APPLICATION_LAUNCHED"
    <3>1. /\ x \in APPLICATION_ASSOCIATED_STATES \ { "APPLICATION_CREATED" }
          /\ x \in APPLICATION_LIVE_ASSOCIATED_STATES
      BY DEF APPLICATION_ASSOCIATED_STATES, APPLICATION_LIVE_ASSOCIATED_STATES
    <3>. HIDE DEF x
    <3>2. PICK s \in Statuses : s = [ status EXCEPT !.state = x ] /\ SaveSound(s) /\ IsLive(s)
      BY <1>2, <1>3, <1>7, <3>1, StateSound
    <3>3. s.tries = status.tries /\ s.app = status.app /\ s.state = x
      BY <1>8, <3>2 DEF Statuses
    <3>4. SaveSound(s)'
      BY <1>9, <3>2, <3>3 DEF x
    <3>5. work' = Save(s)
      BY <2>1, <3>2 DEF x
    <3>. QED BY <1>2, <1>5, <3>2, <3>4, <3>5, Singles DEF WorkSound, StatusWork, Submits, Last, First
  <2>2. ASSUME NEW exit \in { "TRANSIENT_NORMAL", "NON_TRANSIENT", "UNKNOWN" },
               work' = Kill(a) \o RetrieveWork(exit)
        PROVE  WorkSound' /\ \A b : ~Submits(b)'
    <3> DEFINE x == "APPLICATION_RETRIEVING_DIAGNOSTICS"
    <3>1. /\ x \in APPLICATION_ASSOCIATED_STATES \ { "APPLICATION_CREATED" }
          /\ x \notin APPLICATION_LIVE_ASSOCIATED_STATES /\ exit \in ExitTypes \cup { None }
          /\ x # "FRAMEWORK_WAITING"
      BY DEF APPLICATION_ASSOCIATED_STATES, APPLICATION_LIVE_ASSOCIATED_STATES, ExitTypes
    <3>. HIDE DEF x
    <3>2. PICK s \in Statuses :
             s = [ status EXCEPT !.state = x, !.exit = exit ] /\ SaveSound(s) /\ ~IsLive(s)
      BY <1>2, <1>3, <1>7, <3>1, EditSound
    <3>3. s.tries = status.tries /\ s.app = status.app /\ s.state = x
      BY <1>8, <3>2 DEF Statuses
    <3>4. SaveSound(s)'
      BY <1>9, <3>1, <3>2, <3>3
    <3>5. work' = Kill(a) \o Save(s) /\ Save(s) \in Seq(Steps)
      BY <2>2, <3>2, Singles DEF RetrieveWork, x
    <3>6. /\ First(work', "kill") /\ Head(work').app = a /\ Tail(work') = Save(s)
          /\ work' \in Seq(Steps)
      BY <3>5, Sequels
    <3>7. QuietWork(Save(s))'
      BY <1>2, <1>5, <3>2, <3>4, Singles DEF QuietWork, FinalSave
    <3>8. PICK w \in Seq(Steps) : w = Save(s) /\ QuietWork(w)'
      BY <3>5, <3>7
    <3>. QED BY <1>2, <1>3, <1>5, <3>6, <3>8 DEF WorkSound, StatusWork, Submits, First
  <2>. QED BY <1>5, <2>1, <2>2
<1>11. Basics' /\ MemorySound'
  BY <1>2, <1>5, <1>6 DEF IInv, Basics, MemorySound
<1>12. SavedSound' /\ OneApplication'
  <2>1. saved'.tries = saved.tries /\ saved.tries \in Nat
    BY <1>2, <1>5, <1>8
  <2>2. SavedSound'
    BY <1>2, <1>4, <1>5, <1>6, <2>1 DEF IInv, SavedSound, Counts
  <2>3. OneApplication'
    BY <1>2, <1>3, <1>5, <1>6 DEF IInv, OneApplication
  <2>. QED BY <2>2, <2>3
<1>13. \A b \in Apps : /\ \A t : SetsUp(t, b)' <=> SetsUp(t, b)
                       /\ \A i : Launches(i, b)' <=> Launches(i, b)
                       /\ Pending(b)' => Pending(b)
  BY <1>5, <1>10 DEF SetsUp, Launches, Pending
<1>14. /\ \A t \in threads : ~SetsUp(t, a)
       /\ \A i \in 1 .. Len(queue) : ~Launches(i, a)
  BY <1>4 DEF IInv, SubmittedOnce
<1>15. TasksSound'
  <2>1. \A z : Launchable(z) /\ z.app # a => Launchable(z)'
    BY <1>6 DEF Launchable
  <2>2. \A t \in threads : t.kind = "setup" => Launchable(t.snapshot)'
    BY <1>14, <2>1 DEF IInv, TasksSound, SetsUp
  <2>3. \A i \in 1 .. Len(queue) : queue[i].kind = "launch" => Launchable(queue[i].snapshot)'
    BY <1>5, <1>14, <2>1 DEF IInv, TasksSound, Launches
  <2>. QED BY <1>5, <2>2, <2>3 DEF IInv, TasksSound, RetryLater
<1>16. SubmittedOnce'
  <2>. SUFFICES ASSUME NEW b \in Apps
                PROVE  /\ \A u, v \in threads' : SetsUp(u, b)' /\ SetsUp(v, b)' => u = v
                       /\ \A i, j \in 1 .. Len(queue') : Launches(i, b)' /\ Launches(j, b)' => i = j
                       /\ \A u \in threads', i \in 1 .. Len(queue') : ~(SetsUp(u, b)' /\ Launches(i, b)')
                       /\ Submits(b)' => /\ \A u \in threads' : ~SetsUp(u, b)'
                                         /\ \A i \in 1 .. Len(queue') : ~Launches(i, b)'
                       /\ Pending(b)' /\ saved' # None /\ saved'.app = b
                             => submitted' <= saved'.tries
    BY DEF SubmittedOnce
  <2>1. /\ \A u, v \in threads : SetsUp(u, b) /\ SetsUp(v, b) => u = v
        /\ \A i, j \in 1 .. Len(queue) : Launches(i, b) /\ Launches(j, b) => i = j
        /\ \A u \in threads, i \in 1 .. Len(queue) : ~(SetsUp(u, b) /\ Launches(i, b))
    BY DEF IInv, SubmittedOnce
  <2>2. ~(Pending(b)' /\ saved' # None /\ saved'.app = b)
    BY <1>2, <1>5, <1>10, <1>13, <1>14 DEF Pending
  <2>. QED BY <1>5, <1>10, <1>13, <2>1, <2>2
<1>. QED BY <1>10, <1>11, <1>12, <1>15, <1>16 DEF IInv

\* The attempt to retry: refused, put off, granted, or the framework completes.
LEMMA AttemptKeepsIInv == ASSUME IInv, DoAttempt PROVE IInv'
<1>1. /\ First(work, "attempt") /\ work # << >>
      /\ UNCHANGED << request, up, pulled, queue, requests, crashes, status, saved, apps, threads,
                      submitted, faults >>
  BY DEF DoAttempt, Doing, First
<1>2. /\ status # None /\ status.state = "APPLICATION_COMPLETED" /\ Tail(work) = << >>
      /\ status = saved /\ up
  BY <1>1, Working DEF QuietWork, StatusWork, First, Last
<1>3. status \in Statuses /\ SavedSound /\ StatusWellFormed(status) /\ submitted \in Nat
  BY <1>1, <1>2, TaskStatus DEF IInv, Basics
<1>4. ~IsLive(status) /\ IsAssociated(status) /\ Quiet
  <2>1. ~IsLive(status) /\ IsAssociated(status)
    BY <1>2 DEF IsLive, IsAssociated, APPLICATION_LIVE_ASSOCIATED_STATES,
                APPLICATION_ASSOCIATED_STATES
  <2>. QED BY <1>1, <2>1, TaskStatus
<1>5. /\ WorkSound' /\ \A a \in Apps : ~Submits(a)'
      /\ \/ delayed' = delayed
         \/ \E t \in Tasks : delayed' = delayed \cup { t } /\ t.kind = "retry" /\ RetryLater(t)
  <2>1. CASE work' = << >> /\ delayed' = delayed
    BY <2>1, NoStep DEF WorkSound, Submits, First
  <2>2. CASE /\ work' = << >> /\ RetriesLater(status)
             /\ delayed' = delayed \cup { RetryTask(status, Retried(status, FALSE)) }
    <3>1. Policy[status.version].fancy
      BY <2>2 DEF RetriesLater
    <3>2. PICK s \in Statuses : s = Retried(status, FALSE)
      BY <1>2, <1>3, <3>1, RetriedSound
    <3>3. PICK z \in Statuses : z = status
      BY <1>3
    <3>4. RetryTask(z, s) \in Tasks /\ RetryTask(z, s).kind = "retry"
          /\ RetryTask(z, s).snapshot = z /\ RetryTask(z, s).next = s
      BY DEF RetryTask, Tasks
    <3>5. RetryLater(RetryTask(z, s))
      BY <1>2, <1>3, <3>1, <3>2, <3>3, <3>4 DEF RetryLater
    <3>6. WorkSound' /\ \A a : ~Submits(a)'
      BY <2>2, NoStep DEF WorkSound, Submits, First
    <3>. QED BY <2>2, <3>2, <3>3, <3>4, <3>5, <3>6
  <2>3. CASE /\ delayed' = delayed /\ RetriesNow(status) /\ ~RetriesLater(status)
             /\ work' = Save(Retried(status, ~(/\ Policy[status.version].fancy
                                               /\ status.exit = "TRANSIENT_NORMAL"))) \o Create
    <3>1. PICK normally \in BOOLEAN :
             normally = ~(Policy[status.version].fancy /\ status.exit = "TRANSIENT_NORMAL")
      OBVIOUS
    <3>2. ~Policy[status.version].fancy
             => normally /\ (Policy[status.version].max \in Nat
                                => status.retried < Policy[status.version].max)
      <4> DEFINE policy == Policy[status.version]
      <4>1. \/ policy.fancy
            \/ policy.max = -2
            \/ policy.max = -1 \/ status.retried < policy.max
        BY <2>3, Zenon DEF RetriesNow
      <4>. HIDE DEF policy
      <4>2. ~policy.fancy /\ policy.max \in Nat => status.retried < policy.max
        BY <4>1
      <4>. QED BY <3>1, <4>2, Zenon DEF policy
    <3>3. PICK s \in Statuses : /\ s = Retried(status, normally) /\ SaveSound(s) /\ ~IsLive(s)
                                /\ s.state = "FRAMEWORK_WAITING"
      BY <1>2, <1>3, <3>2, RetriedSound
    <3>4. work' = Save(s) \o Create
      BY <2>3, <3>1, <3>3
    <3>. QED BY <1>1, <1>2, <1>4, <2>3, <3>3, <3>4, SaveIsWork
  <2>4. CASE /\ delayed' = delayed
             /\ work' = Save([ status EXCEPT !.state = "FRAMEWORK_COMPLETED" ])
    <3> DEFINE x == "FRAMEWORK_COMPLETED"
    <3>1. /\ x \in APPLICATION_ASSOCIATED_STATES \ { "APPLICATION_CREATED" }
          /\ x \notin APPLICATION_LIVE_ASSOCIATED_STATES
      BY DEF APPLICATION_ASSOCIATED_STATES, APPLICATION_LIVE_ASSOCIATED_STATES
    <3>. HIDE DEF x
    <3>2. PICK s \in Statuses : s = [ status EXCEPT !.state = x ] /\ SaveSound(s)
      BY <1>2, <1>3, <1>4, <3>1, StateSound
    <3>3. work' = Save(s)
      BY <2>4, <3>2 DEF x
    <3>. QED BY <1>1, <1>2, <1>4, <2>4, <3>2, <3>3, SaveIsWork
  <2>5. \/ work' = << >> /\ delayed' = delayed
        \/ /\ work' = << >> /\ RetriesLater(status)
           /\ delayed' = delayed \cup { RetryTask(status, Retried(status, FALSE)) }
        \/ /\ delayed' = delayed /\ RetriesNow(status) /\ ~RetriesLater(status)
           /\ work' = Save(Retried(status, ~(/\ Policy[status.version].fancy
                                             /\ status.exit = "TRANSIENT_NORMAL"))) \o Create
        \/ /\ delayed' = delayed
           /\ work' = Save([ status EXCEPT !.state = "FRAMEWORK_COMPLETED" ])
    BY <1>2, Zenon DEF DoAttempt
  <2>. QED BY <2>1, <2>2, <2>3, <2>4, <2>5
<1>6. Basics' /\ MemorySound' /\ SavedSound' /\ OneApplication'
  BY <1>1, <1>2 DEF IInv, Basics, MemorySound, SavedSound, Counts, OneApplication
<1>7. TasksSound'
  <2>1. \A s : Launchable(s)' <=> Launchable(s)
    BY <1>1 DEF Launchable
  <2>2. \A t : RetryLater(t)' <=> RetryLater(t)
    OBVIOUS
  <2>3. /\ delayed' \subseteq Tasks
        /\ \A d \in delayed' : d.kind \in { "resync", "retry" } /\ (d.kind = "retry" => RetryLater(d))
    BY <1>5 DEF IInv, TasksSound
  <2>. QED BY <1>1, <2>1, <2>2, <2>3 DEF IInv, TasksSound
<1>8. \A b \in Apps : /\ \A t : SetsUp(t, b)' <=> SetsUp(t, b)
                      /\ \A i : Launches(i, b)' <=> Launches(i, b)
                      /\ Pending(b)' => Pending(b)
  BY <1>1, <1>5 DEF SetsUp, Launches, Pending
<1>9. SubmittedOnce'
  BY <1>1, <1>5, <1>8 DEF IInv, SubmittedOnce
<1>. QED BY <1>5, <1>6, <1>7, <1>9 DEF IInv

\* Every step of a task.
LEMMA TaskStepKeepsIInv == ASSUME IInv, TaskStep PROVE IInv'
BY SaveKeepsIInv, AddKeepsIInv, CreateKeepsIInv, DropKeepsIInv, KillKeepsIInv, SubmitKeepsIInv,
   AttemptKeepsIInv DEF TaskStep

-----------------------------------------------------------------------------
(* The process dies and is started again *)

\* With the process all its work dies; what is persisted is as sound as before.
LEMMA CrashKeepsIInv == ASSUME IInv, Crash PROVE IInv'
<1>1. /\ up' = FALSE /\ pulled' = Never /\ status' = None /\ queue' = << >> /\ work' = << >>
      /\ delayed' = { } /\ threads' = { } /\ crashes' = crashes + 1 /\ crashes < MaxCrashes
      /\ UNCHANGED << request, saved, apps, submitted, requests, faults >>
  BY DEF Crash, zkVars
<1>2. Basics'
  <2>1. crashes' \in 0 .. MaxCrashes
    BY <1>1, ServiceAssumption DEF IInv, Basics
  <2>2. pulled' \in Requests \cup { None, Never } /\ up' \in BOOLEAN
    BY <1>1
  <2>. QED BY <1>1, <2>1, <2>2 DEF IInv, Basics
<1>3. MemorySound' /\ SavedSound' /\ OneApplication'
  BY <1>1 DEF IInv, MemorySound, SavedSound, Counts, OneApplication
<1>4. TasksSound' /\ WorkSound'
  BY <1>1, NoStep DEF TasksSound, WorkSound
<1>5. SubmittedOnce'
  BY <1>1 DEF SubmittedOnce, Pending, SetsUp, Launches, Submits, First
<1>. QED BY <1>2, <1>3, <1>4, <1>5 DEF IInv

\* The new process takes over what is persisted; a created application may have
\* been submitted, and counts as launched.
LEMMA RecoverKeepsIInv == ASSUME IInv, Recover PROVE IInv'
<1>1. /\ ~up /\ up' = TRUE /\ status' = saved /\ work' = Revise(saved) /\ queue' = StartupTasks
      /\ threads = { } /\ delayed = { }
      /\ UNCHANGED << request, saved, apps, pulled, delayed, threads, submitted, requests, crashes,
                      faults >>
  BY DEF Recover, zkVars, countVars, IInv, MemorySound
<1>2. Basics' /\ MemorySound' /\ SavedSound' /\ OneApplication'
  BY <1>1 DEF IInv, Basics, MemorySound, SavedSound, Counts, OneApplication
<1>3. /\ queue' \in Seq(Tasks) /\ Len(queue') = 3
      /\ \A i \in 1 .. Len(queue') : queue'[i].kind \in { "create_all", "retrieve_all", "retry_all" }
  BY <1>1 DEF StartupTasks, Task, Tasks, SimpleKinds
<1>4. TasksSound'
  BY <1>1, <1>3 DEF IInv, TasksSound
<1>5. WorkSound' /\ \A a : ~Submits(a)'
  <2>1. CASE work' = << >>
    BY <2>1, NoStep DEF WorkSound, Submits, First
  <2>2. CASE work' # << >>
    <3> DEFINE x == "APPLICATION_LAUNCHED"
    <3>1. /\ saved # None /\ saved.state = "APPLICATION_CREATED"
          /\ work' = Save([ saved EXCEPT !.state = x ])
      BY <1>1, <2>2 DEF Revise
    <3>2. /\ x \in FrameworkStates /\ x # "APPLICATION_CREATED" /\ x # "FRAMEWORK_WAITING"
          /\ x \in APPLICATION_LIVE_ASSOCIATED_STATES /\ x \in APPLICATION_ASSOCIATED_STATES
      BY DEF FrameworkStates, APPLICATION_ASSOCIATED_STATES, APPLICATION_LIVE_ASSOCIATED_STATES
    <3>. HIDE DEF x
    <3>3. saved \in Statuses /\ StatusWellFormed(saved) /\ PolicyKept(saved) /\ Counts(saved)
      BY <3>1 DEF IInv, SavedSound, StatusWellFormed
    <3>4. PICK s \in Statuses :
             /\ s = [ saved EXCEPT !.state = x ] /\ s.state = x /\ s.app = saved.app
             /\ s.exit = saved.exit /\ s.version = saved.version /\ s.tries = saved.tries
             /\ s.retried = saved.retried
      <4> DEFINE s == [ saved EXCEPT !.state = x ]
      <4>1. /\ s \in Statuses /\ s.state = x /\ s.app = saved.app
            /\ s.exit = saved.exit /\ s.version = saved.version /\ s.tries = saved.tries
            /\ s.retried = saved.retried
        BY <3>2, <3>3 DEF Statuses
      <4>. QED BY <4>1
    <3>5. IsLive(saved) /\ IsAssociated(saved) /\ saved.app # None /\ saved.exit = None
      BY <3>1, <3>3 DEF StatusWellFormed, IsLive, IsAssociated,
         APPLICATION_LIVE_ASSOCIATED_STATES, APPLICATION_ASSOCIATED_STATES
    <3>6. IsLive(s) /\ s # None
      BY <3>2, <3>4, NoneAssumption DEF IsLive
    <3>7. StatusWellFormed(s)
      BY <3>2, <3>4, <3>5 DEF StatusWellFormed, IsAssociated
    <3>8. PolicyKept(s) /\ Counts(s)' /\ saved.tries \in Nat
      BY <1>1, <3>2, <3>3, <3>4 DEF PolicyKept, Counts, Statuses
    <3>9. SaveSound(s)'
      BY <1>1, <3>2, <3>4, <3>5, <3>6, <3>7, <3>8 DEF SaveSound
    <3>10. work' = Save(s) /\ status' # None
      BY <1>1, <3>1, <3>4
    <3>. QED BY <3>6, <3>9, <3>10, Singles DEF WorkSound, StatusWork, Submits, Last, First
  <2>. QED BY <2>1, <2>2
<1>6. SubmittedOnce'
  BY <1>1, <1>3, <1>5 DEF SubmittedOnce, Pending, SetsUp, Launches
<1>. QED BY <1>2, <1>4, <1>5, <1>6 DEF IInv

-----------------------------------------------------------------------------
(* The theorems *)

\* Every step keeps the invariant.
LEMMA NextKeepsIInv == IInv /\ [Next]_vars => IInv'
<1>. SUFFICES ASSUME IInv, [Next]_vars PROVE IInv'
  OBVIOUS
<1>1. CASE UNCHANGED vars
  <2>1. UNCHANGED << request, saved, apps, up, pulled, status, queue, work, delayed, threads,
                     submitted, requests, crashes, faults >>
    BY <1>1 DEF vars, zkVars, memVars, countVars
  <2>2. Basics' /\ AppsSettle
    BY <2>1 DEF IInv, Basics, AppsSettle
  <2>. QED BY <2>1, <2>2, SettleKeeps
<1>2. CASE Pull \/ Diagnose \/ DelayOver("resync") \/ DelayOver("retry")
  BY <1>2, TimersKeepIInv
<1>3. CASE \/ \E r \in Requests : SetRequest(r)
           \/ DeleteRequest
           \/ \E a \in Apps : AppRuns(a) \/ AppSucceeds(a) \/ AppFails(a) \/ AppForgotten(a)
  BY <1>3, EnvironmentKeepsIInv
<1>. QED BY <1>1, <1>2, <1>3, SetupKeepsIInv, TaskBeginsKeepsIInv, TaskStepKeepsIInv,
            CrashKeepsIInv, RecoverKeepsIInv DEF Next

\* The inductive invariant holds in every reachable state.
THEOREM Invariance == Spec => []IInv
BY InitIInv, NextKeepsIInv, PTL DEF Spec

\* Every variable has its type, and a status has an application exactly when its
\* state is associated with one, which YARN then has given out.
THEOREM TypesHold == Spec => []TypeOK
<1>1. IInv => TypeOK
  <2>. SUFFICES ASSUME IInv PROVE TypeOK
    OBVIOUS
  <2>1. StatusWellFormed(status) /\ (status # None => status = saved)
    BY DEF IInv, Basics, SavedSound, MemorySound, StatusWellFormed
  <2>. QED BY <2>1, ServiceAssumption DEF TypeOK, IInv, Basics, SavedSound
<1>. QED BY <1>1, Invariance, PTL

\* At most one application of the framework lives in YARN, the one that the
\* persisted status holds as live, whatever the process was doing when it died.
THEOREM OneApplicationAtMost == Spec => []OneApplication
<1>1. IInv => OneApplication
  BY DEF IInv
<1>. QED BY <1>1, Invariance, PTL

\* No version of a framework is submitted more often than its retry policy
\* grants, and every submission but the first is a retry that was persisted.
THEOREM RetriesAreCounted == Spec => []RetriesCounted
<1>1. IInv => RetriesCounted
  <2>. SUFFICES ASSUME IInv, saved # None PROVE RetriesCounted
    BY DEF RetriesCounted
  <2>1. /\ saved \in Statuses /\ PolicyKept(saved) /\ Counts(saved) /\ submitted \in Nat
    BY DEF IInv, Basics, SavedSound, StatusWellFormed
  <2>2. saved.tries \in Nat /\ saved.retried \in Nat /\ submitted <= saved.tries + 1
    BY <2>1 DEF Statuses, Counts
  <2>3. ~Policy[saved.version].fancy /\ Policy[saved.version].max \in Nat
           => submitted <= Policy[saved.version].max + 1
    BY <2>1, <2>2 DEF PolicyKept
  <2>. QED BY <2>2, <2>3 DEF RetriesCounted
<1>. QED BY <1>1, Invariance, PTL
=============================================================================
