---------------------- MODULE ApplicationMasterProofs ----------------------
(***************************************************************************)
(* Proofs about ApplicationMaster, for every framework, every number of    *)
(* containers and hosts and every bound: whatever callback, timer, user or *)
(* restart comes between two steps, the AM uses the StatusManager within   *)
(* its asserts, so whatever is proved of the StatusManager holds of it.    *)
(***************************************************************************)
EXTENDS ApplicationMaster, StatusManagerProofs, FiniteSetTheorems

CompletionItems ==
    [ op : { "Complete" }, container : Containers, exit : ExitTypes, release : BOOLEAN,
      why : { "start", "lost", "exceed", "migrate", "completed" } ]
TodoItems ==
    [ op : { "AllWaiting", "QueueResync" } ]
    \cup [ op : { "Request", "Withdraw", "Launch", "Retry" }, all : (SUBSET Locators) \ { {} } ]
    \cup [ op : { "Seen", "Missing" }, all : (SUBSET Containers) \ { {} } ]
    \cup CompletionItems
TimerItems ==
    [ op : { "Resync" } ]
    \cup [ op : { "Timeout" }, priority : Priorities, task : Locators ]
    \cup [ op : { "Again" }, task : Locators, status : TaskStatuses ]
    \cup [ op : { "GangTimeout" }, round : Nat ]
InboxItems ==
    [ op : { "Allocate" }, container : Containers, priority : Priorities ]
    \cup [ op : { "Started", "StartFailed" }, container : Containers ]
    \cup CompletionItems
QueueItems ==
    TimerItems \cup InboxItems
    \cup [ op : { "AllWaiting", "RetryAll", "LaunchAll" } ]
    \cup [ op : { "Numbers" }, numbers : Numbers ]

AMTypes ==
    /\ phase \in { "running", "stopping", "unregistering", "finished" }
    /\ queue \in Seq(QueueItems) /\ timers \subseteq TimerItems /\ inbox \subseteq InboxItems
    /\ exceed \in [ Containers -> 0 .. MaxExceed ]
    /\ numbers \in Numbers
    /\ migrate \subseteq Containers /\ notified \subseteq Containers /\ IsFiniteSet(migrate)
    /\ container \in [ Containers -> { "free", "granted", "running", "done" } ]
    /\ asks \subseteq Priorities
    /\ releasing \subseteq Containers /\ starting \subseteq Containers
    /\ crashes \in 0 .. MaxCrashes /\ userOps \in 0 .. MaxUserOps

-----------------------------------------------------------------------------
(* What is left of the running system task *)

\* What a part of a system task takes for granted of the tasks and containers it
\* is about, of which the first argument is a part and the others the state.
Valid(i, status, requests, live) ==
    /\ i.op = "Request"  => \A t \in i.all : status[t].state = "TASK_WAITING"
    /\ i.op = "Withdraw" => \E t \in Locators : /\ i.all = { t }
                                                /\ status[t].state = "CONTAINER_REQUESTED"
                                                /\ requests[t] = None
    /\ i.op = "Launch"   => \A t \in i.all : status[t].state = "CONTAINER_ALLOCATED"
    /\ i.op = "Retry"    => \A t \in i.all : status[t].state = "CONTAINER_COMPLETED"
    /\ i.op = "Missing"  => \A c \in i.all : live[c] # None

\* The parts come in this order, each at most once, ...
Rank(i) ==
    IF i.op \in { "AllWaiting", "Request", "Withdraw", "Launch" } THEN 1
    ELSE IF i.op \in { "Complete", "Retry" } THEN 2
    ELSE IF i.op = "Seen" THEN 3
    ELSE IF i.op = "Missing" THEN 4 ELSE 5

\* ... and a container that is completed is not counted as missing after it.
Before(i, j) ==
    /\ Rank(i) < Rank(j)
    /\ i.op = "Complete" /\ j.op = "Missing" => i.container \notin j.all

SoundTodo(w, status, requests, live) ==
    /\ w \in Seq(TodoItems)
    /\ \A i \in 1 .. Len(w) : Valid(w[i], status, requests, live)
    /\ \A i, j \in 1 .. Len(w) : i < j => Before(w[i], w[j])

TodoSound == SoundTodo(todo, taskStatus, containerRequests, liveLocators)

-----------------------------------------------------------------------------
(* Timers and messages *)

\* A request's timeout finds this request or none, a delayed request a status
\* that waits.
TimerSound(d) ==
    /\ d.op = "Timeout" => /\ d.priority < nextPriority
                           /\ priorityLocators[d.priority] \in { None, d.task }
    /\ d.op = "Again"   => d.status.state = "TASK_WAITING"
TimersSound ==
    /\ \A d \in timers : TimerSound(d)
    /\ \A i \in 1 .. Len(queue) : TimerSound(queue[i])

\* What says that container c was granted, or started.
GrantIn(i, c)   == i.op = "Allocate" /\ i.container = c
StartedIn(i, c) == i.op = "Started" /\ i.container = c

GrantPending(c) ==
    \/ \E n \in inbox : GrantIn(n, c)
    \/ \E i \in 1 .. Len(queue) : GrantIn(queue[i], c)
StartPending(c) ==
    \/ c \in starting
    \/ \E n \in inbox : StartedIn(n, c)
    \/ \E i \in 1 .. Len(queue) : StartedIn(queue[i], c)

Unassociated(c) ==
    \A t \in Locators : taskStatus[t].container # c /\ zkStatus[t].container # c

\* A container is granted once, to nobody before, and is told of once; one that
\* is started has been launched.
GrantsSound ==
    \A c \in Containers :
        /\ container[c] = "free" \/ GrantPending(c) => Unassociated(c) /\ ~StartPending(c)
        /\ container[c] = "free" => ~GrantPending(c)
        /\ \A m, n \in inbox : GrantIn(m, c) /\ GrantIn(n, c) => m = n
        /\ \A i, j \in 1 .. Len(queue) : GrantIn(queue[i], c) /\ GrantIn(queue[j], c) => i = j
        /\ \A n \in inbox, i \in 1 .. Len(queue) : ~(GrantIn(n, c) /\ GrantIn(queue[i], c))
        /\ StartPending(c) /\ liveLocators[c] # None =>
              taskStatus[liveLocators[c]].state \in { "CONTAINER_LAUNCHED", "CONTAINER_RUNNING" }

\* The RM is asked only for what a task still requests.
AsksSound == \A p \in asks : priorityLocators[p] # None

\* The inductive invariant.
AMInv ==
    /\ IInv
    /\ AMTypes
    /\ TodoSound
    /\ TimersSound
    /\ GrantsSound
    /\ AsksSound

-----------------------------------------------------------------------------
(* Sequences of parts *)

\* An element before others.
LEMMA Prefixed ==
    ASSUME NEW S, NEW e \in S, NEW w \in Seq(S)
    PROVE  /\ << e >> \o w \in Seq(S) /\ Len(<< e >> \o w) = Len(w) + 1 /\ Len(w) \in Nat
           /\ (<< e >> \o w)[1] = e
           /\ \A i \in 1 .. Len(<< e >> \o w) :
                 i = 1 \/ (i - 1 \in 1 .. Len(w) /\ (<< e >> \o w)[i] = w[i - 1])
OBVIOUS

\* The first element and the others.
LEMMA Shifted ==
    ASSUME NEW S, NEW w \in Seq(S), w # << >>
    PROVE  /\ Head(w) \in S /\ Head(w) = w[1] /\ 1 \in 1 .. Len(w) /\ Tail(w) \in Seq(S)
           /\ \A i \in 1 .. Len(Tail(w)) : i + 1 \in 1 .. Len(w) /\ Tail(w)[i] = w[i + 1]
           /\ \A i \in 1 .. Len(w) : i = 1 \/ (i - 1 \in 1 .. Len(Tail(w)) /\ w[i] = Tail(w)[i - 1])
OBVIOUS

\* The elements after one at the end.
LEMMA Suffixed ==
    ASSUME NEW S, NEW w \in Seq(S), NEW e \in S
    PROVE  /\ w \o << e >> \in Seq(S) /\ Len(w) \in Nat
           /\ Len(w \o << e >>) = Len(w) + 1
           /\ \A i \in 1 .. Len(w) : i \in 1 .. Len(w \o << e >>) /\ (w \o << e >>)[i] = w[i]
           /\ (w \o << e >>)[Len(w) + 1] = e
           /\ \A i \in 1 .. Len(w \o << e >>) : i = Len(w) + 1 \/ i \in 1 .. Len(w)
OBVIOUS

\* Nothing before or after others.
LEMMA Unchanged == ASSUME NEW S, NEW w \in Seq(S) PROVE w \o << >> = w /\ << >> \o w = w
OBVIOUS

\* Three sequences, one after the other.
LEMMA Associate ==
    ASSUME NEW S, NEW u \in Seq(S), NEW v \in Seq(S), NEW w \in Seq(S)
    PROVE  (u \o v) \o w = u \o (v \o w) /\ v \o w \in Seq(S)
OBVIOUS

\* Nothing is left.
LEMMA NothingLeft ==
    ASSUME NEW status, NEW requests, NEW live
    PROVE  SoundTodo(<< >>, status, requests, live)
<1>1. << >> \in Seq(TodoItems) /\ Len(<< >>) = 0
  OBVIOUS
<1>. QED BY <1>1 DEF SoundTodo

\* A part that precedes every other one is put before them.
LEMMA PutFirst ==
    ASSUME NEW w, NEW status, NEW requests, NEW live, SoundTodo(w, status, requests, live),
           NEW e \in TodoItems, Valid(e, status, requests, live),
           \A j \in 1 .. Len(w) : Before(e, w[j])
    PROVE  /\ SoundTodo(<< e >> \o w, status, requests, live)
           /\ \A d : Before(d, e) /\ (\A j \in 1 .. Len(w) : Before(d, w[j]))
                        => \A j \in 1 .. Len(<< e >> \o w) : Before(d, (<< e >> \o w)[j])
<1>1. w \in Seq(TodoItems) /\ Len(w) \in Nat
  BY DEF SoundTodo
<1>2. PICK v \in Seq(TodoItems) : v = << e >> \o w
  BY <1>1, Prefixed
<1>3. /\ Len(v) = Len(w) + 1 /\ v[1] = e
      /\ \A i \in 1 .. Len(v) : i = 1 \/ (i - 1 \in 1 .. Len(w) /\ v[i] = w[i - 1])
  BY <1>1, <1>2, Prefixed
<1>4. \A i \in 1 .. Len(v) : Valid(v[i], status, requests, live)
  BY <1>3 DEF SoundTodo
<1>5. ASSUME NEW i \in 1 .. Len(v), NEW j \in 1 .. Len(v), i < j
      PROVE  Before(v[i], v[j])
  <2>1. j - 1 \in 1 .. Len(w) /\ v[j] = w[j - 1]
    BY <1>1, <1>3, <1>5
  <2>2. CASE i = 1
    BY <1>3, <2>1, <2>2
  <2>3. CASE i # 1
    <3>1. i - 1 \in 1 .. Len(w) /\ v[i] = w[i - 1] /\ i - 1 < j - 1
      BY <1>1, <1>3, <1>5, <2>3
    <3>. QED BY <2>1, <3>1 DEF SoundTodo
  <2>. QED BY <2>2, <2>3
<1>6. SoundTodo(v, status, requests, live)
  BY <1>4, <1>5 DEF SoundTodo
<1>. QED BY <1>2, <1>3, <1>6

\* The same of a part for each element of a set, if there is any.
LEMMA PutEach ==
    ASSUME NEW w, NEW status, NEW requests, NEW live, SoundTodo(w, status, requests, live),
           NEW op, NEW s,
           s # {} => LET e == [ op |-> op, all |-> s ]
                     IN  /\ e \in TodoItems /\ Valid(e, status, requests, live)
                         /\ \A j \in 1 .. Len(w) : Before(e, w[j])
    PROVE  /\ SoundTodo(ForEach(op, s) \o w, status, requests, live)
           /\ ForEach(op, s) \in Seq(TodoItems)
           /\ \A d : /\ s # {} => Before(d, [ op |-> op, all |-> s ])
                     /\ \A j \in 1 .. Len(w) : Before(d, w[j])
                     => \A j \in 1 .. Len(ForEach(op, s) \o w) : Before(d, (ForEach(op, s) \o w)[j])
<1>1. w \in Seq(TodoItems)
  BY DEF SoundTodo
<1>2. CASE s = {}
  <2>1. ForEach(op, s) = << >> /\ << >> \o w = w /\ << >> \in Seq(TodoItems)
    BY <1>1, <1>2, Unchanged DEF ForEach
  <2>. QED BY <2>1
<1>3. CASE s # {}
  <2>1. PICK e \in TodoItems : e = [ op |-> op, all |-> s ]
    BY <1>3
  <2>2. ForEach(op, s) = << e >> /\ << e >> \in Seq(TodoItems)
    BY <1>3, <2>1 DEF ForEach
  <2>. QED BY <1>3, <2>1, <2>2, PutFirst
<1>. QED BY <1>2, <1>3

\* What follows the first part of a system task.
LEMMA TakeFirst ==
    ASSUME NEW w, NEW status, NEW requests, NEW live, SoundTodo(w, status, requests, live),
           w # << >>
    PROVE  /\ Head(w) \in TodoItems /\ Valid(Head(w), status, requests, live)
           /\ SoundTodo(Tail(w), status, requests, live)
           /\ \A j \in 1 .. Len(Tail(w)) : Before(Head(w), Tail(w)[j])
<1>1. w \in Seq(TodoItems) /\ Len(w) \in Nat
  BY DEF SoundTodo
<1>2. PICK v \in Seq(TodoItems) : v = Tail(w)
  BY <1>1, Shifted
<1>3. /\ Head(w) \in TodoItems /\ Head(w) = w[1] /\ 1 \in 1 .. Len(w)
      /\ \A i \in 1 .. Len(v) : i + 1 \in 1 .. Len(w) /\ v[i] = w[i + 1]
  BY <1>1, <1>2, Shifted
<1>4. \A i \in 1 .. Len(v) : Valid(v[i], status, requests, live) /\ Before(Head(w), v[i])
  <2>. SUFFICES ASSUME NEW i \in 1 .. Len(v)
                PROVE  Valid(v[i], status, requests, live) /\ Before(Head(w), v[i])
    OBVIOUS
  <2>1. i + 1 \in 1 .. Len(w) /\ v[i] = w[i + 1] /\ 1 < i + 1
    BY <1>3
  <2>. QED BY <1>3, <2>1 DEF SoundTodo
<1>5. ASSUME NEW i \in 1 .. Len(v), NEW j \in 1 .. Len(v), i < j
      PROVE  Before(v[i], v[j])
  <2>1. i + 1 \in 1 .. Len(w) /\ j + 1 \in 1 .. Len(w) /\ i + 1 < j + 1
    BY <1>3, <1>5
  <2>. QED BY <1>3, <2>1 DEF SoundTodo
<1>6. Valid(Head(w), status, requests, live)
  BY <1>3 DEF SoundTodo
<1>7. SoundTodo(v, status, requests, live)
  BY <1>4, <1>5 DEF SoundTodo
<1>. QED BY <1>2, <1>3, <1>4, <1>6, <1>7

\* Parts stay sound in another state in which each of them is valid.
LEMMA StaySound ==
    ASSUME NEW w, NEW status, NEW requests, NEW live, SoundTodo(w, status, requests, live),
           NEW status1, NEW requests1, NEW live1,
           \A j \in 1 .. Len(w) : Valid(w[j], status1, requests1, live1)
    PROVE  SoundTodo(w, status1, requests1, live1)
BY DEF SoundTodo

-----------------------------------------------------------------------------
(* A step of the running system task *)

\* The parts after the one that is worked on.
Rest == IF todo # << >> THEN Tail(todo) ELSE << >>

\* Only some of the system tasks leave parts behind, and only those are queued.
LEMMA WorkFacts ==
    ASSUME AMTypes, TodoSound, TimersSound, HasWork
    PROVE  /\ Work \in TodoItems \cup QueueItems
           /\ Work.op \in { "Request", "Withdraw", "Launch", "Retry" }
                 => Work.all \in (SUBSET Locators) \ { {} }
           /\ Work.op \in { "Seen", "Missing" } => Work.all \in (SUBSET Containers) \ { {} }
           /\ Work.op = "Complete" => Work \in CompletionItems
           /\ Work.op = "Numbers" => Work.numbers \in Numbers
           /\ Work.op \in { "Allocate", "Started", "StartFailed" } => Work.container \in Containers
           /\ Work.op = "Allocate" => Work.priority \in Priorities
           /\ Work.op = "Timeout" => Work.priority \in Priorities /\ Work.task \in Locators
           /\ Work.op = "Again" => Work.task \in Locators /\ Work.status \in TaskStatuses
           /\ Work.op \in { "Request", "Withdraw", "Launch", "Retry", "Seen", "Missing" }
                 => Valid(Work, taskStatus, containerRequests, liveLocators)
           /\ todo = << >> => /\ queue # << >> /\ Work = queue[1] /\ 1 \in 1 .. Len(queue)
                              /\ TimerSound(Work)
           /\ Work.op \in { "Allocate", "Timeout", "Again", "Started", "StartFailed", "Numbers",
                            "Resync", "RetryAll", "LaunchAll", "GangTimeout" } => todo = << >>
           /\ SoundTodo(Rest, taskStatus, containerRequests, liveLocators)
           /\ \A j \in 1 .. Len(Rest) : Before(Work, Rest[j])
<1>1. CASE todo # << >>
  <2>1. /\ Work \in TodoItems /\ Valid(Work, taskStatus, containerRequests, liveLocators)
        /\ SoundTodo(Rest, taskStatus, containerRequests, liveLocators)
        /\ \A j \in 1 .. Len(Rest) : Before(Work, Rest[j])
    BY <1>1, TakeFirst DEF TodoSound, Work, Rest
  <2>2. /\ Work.op \in { "Request", "Withdraw", "Launch", "Retry" }
              => Work.all \in (SUBSET Locators) \ { {} }
        /\ Work.op \in { "Seen", "Missing" } => Work.all \in (SUBSET Containers) \ { {} }
        /\ Work.op = "Complete" => Work \in CompletionItems
        /\ Work.op \in { "AllWaiting", "QueueResync", "Request", "Withdraw", "Launch", "Retry",
                         "Seen", "Missing", "Complete" }
    BY <2>1 DEF TodoItems, CompletionItems
  <2>. QED BY <1>1, <2>1, <2>2
<1>2. CASE todo = << >>
  <2>1. queue # << >> /\ Work = Head(queue) /\ Rest = << >> /\ queue \in Seq(QueueItems)
    BY <1>2 DEF HasWork, Work, Rest, AMTypes
  <2>2. Work \in QueueItems /\ Work = queue[1] /\ 1 \in 1 .. Len(queue)
    BY <2>1, Shifted
  <2>3. TimerSound(Work)
    BY <2>2 DEF TimersSound
  <2>4. /\ Work.op \notin { "Request", "Withdraw", "Launch", "Retry", "Seen", "Missing" }
        /\ Work.op = "Complete" => Work \in CompletionItems
        /\ Work.op = "Numbers" => Work.numbers \in Numbers
        /\ Work.op \in { "Allocate", "Started", "StartFailed" } => Work.container \in Containers
        /\ Work.op = "Allocate" => Work.priority \in Priorities
        /\ Work.op = "Timeout" => Work.priority \in Priorities /\ Work.task \in Locators
        /\ Work.op = "Again" => Work.task \in Locators /\ Work.status \in TaskStatuses
    BY <2>2 DEF QueueItems, TimerItems, InboxItems, CompletionItems
  <2>5. Len(Rest) = 0
    BY <2>1
  <2>. QED BY <1>2, <2>1, <2>2, <2>3, <2>4, <2>5, NothingLeft
<1>. QED BY <1>1, <1>2

\* The queue after a step: without its first system task, when that is the one
\* worked on, and with the callback of a task that disappeared.
LEMMA QueueAfter ==
    ASSUME AMTypes, HasWork, NEW then, NEW submitted, Proceed(then, submitted),
           submitted \in { << >>, << Plain("LaunchAll") >> }
    PROVE  /\ todo' = then \o Rest /\ queue' \in Seq(QueueItems)
           /\ \E s \in { 0, 1 } :
                 /\ s = 1 <=> todo = << >>
                 /\ \A i \in 1 .. Len(queue') :
                       \/ queue'[i] = Plain("LaunchAll")
                       \/ i + s \in 1 .. Len(queue) /\ queue'[i] = queue[i + s]
<1>1. PICK base \in Seq(QueueItems), s \in { 0, 1 } :
         /\ queue' = base \o submitted /\ (s = 1 <=> todo = << >>)
         /\ \A i \in 1 .. Len(base) : i + s \in 1 .. Len(queue) /\ base[i] = queue[i + s]
  <2>0. queue \in Seq(QueueItems)
    BY DEF AMTypes
  <2>1. CASE todo # << >>
    <3>1. \A i \in 1 .. Len(queue) : i + 0 \in 1 .. Len(queue) /\ queue[i] = queue[i + 0]
      OBVIOUS
    <3>2. queue' = queue \o submitted
      BY <2>1 DEF Proceed
    <3>. QED BY <2>0, <2>1, <3>1, <3>2
  <2>2. CASE todo = << >>
    <3>1. queue # << >> /\ queue' = Tail(queue) \o submitted
      BY <2>2 DEF Proceed, HasWork
    <3>2. PICK b \in Seq(QueueItems) : b = Tail(queue)
      BY <2>0, <3>1, Shifted
    <3>3. \A i \in 1 .. Len(b) : i + 1 \in 1 .. Len(queue) /\ b[i] = queue[i + 1]
      BY <2>0, <3>1, <3>2, Shifted
    <3>4. queue' = b \o submitted
      BY <3>1, <3>2
    <3>. QED BY <2>2, <3>3, <3>4
  <2>. QED BY <2>1, <2>2
<1>2. todo' = then \o Rest
  BY DEF Proceed, Rest
<1>3. /\ queue' \in Seq(QueueItems)
      /\ \A i \in 1 .. Len(queue') :
            queue'[i] = Plain("LaunchAll") \/ (i \in 1 .. Len(base) /\ queue'[i] = base[i])
  <2>1. CASE submitted = << >>
    BY <1>1, <2>1, Unchanged
  <2>2. CASE submitted = << Plain("LaunchAll") >>
    <3>1. PICK e \in QueueItems : e = Plain("LaunchAll")
      BY DEF QueueItems, Plain
    <3>2. queue' = base \o << e >>
      BY <1>1, <2>2, <3>1
    <3>3. PICK q \in Seq(QueueItems) : q = base \o << e >>
      BY <3>2, Suffixed
    <3>4. \A i \in 1 .. Len(q) : q[i] = e \/ (i \in 1 .. Len(base) /\ q[i] = base[i])
      BY <3>3, Suffixed
    <3>. QED BY <3>1, <3>2, <3>3, <3>4
  <2>. QED BY <2>1, <2>2
<1>. QED BY <1>1, <1>2, <1>3

-----------------------------------------------------------------------------
(* What an edge of a task state leaves as it was *)

\* The maps after transitionTaskState along an edge.
LEMMA EdgeSummary ==
    ASSUME IInv, NEW t \in Locators, NEW dst \in TaskStates, NEW event \in Events,
           LegalEdge(t, dst, event), TransitionTaskState(t, dst, event)
    PROVE  LET src == taskStatus[t].state IN
           /\ IInv'
           /\ taskStatus'[t].state = dst
           /\ \A u \in Locators : u # t => /\ taskStatus'[u] = taskStatus[u]
                                           /\ containerRequests'[u] = containerRequests[u]
           /\ UNCHANGED << taskNumber, zkNumber, zkStatus >>
           /\ \A u \in Locators :
                 \/ taskStatus'[u].container \in { None, taskStatus[u].container }
                 \/ u = t /\ dst = "CONTAINER_ALLOCATED" /\ taskStatus'[u].container = event.container
           /\ dst = "CONTAINER_REQUESTED" =>
                 /\ nextPriority \in Priorities /\ nextPriority' = nextPriority + 1
                 /\ priorityLocators' = [ priorityLocators EXCEPT ![nextPriority] = t ]
                 /\ containerRequests'[t] = nextPriority
           /\ dst # "CONTAINER_REQUESTED" =>
                 /\ nextPriority' = nextPriority
                 /\ containerRequests'[t] = IF src = "CONTAINER_REQUESTED" THEN None
                                            ELSE containerRequests[t]
                 /\ \A p \in Priorities :
                       priorityLocators'[p] =
                           IF src = "CONTAINER_REQUESTED" /\ priorityLocators[p] = t THEN None
                           ELSE priorityLocators[p]
           /\ \A c \in Containers :
                 /\ liveLocators[c] \notin { None, t } => liveLocators'[c] = liveLocators[c]
                 /\ liveLocators[c] = t /\ dst \in LIVE_STATES => liveLocators'[c] = t
                 /\ liveLocators'[c] # None =>
                       \/ liveLocators'[c] = liveLocators[c]
                       \/ dst = "CONTAINER_ALLOCATED" /\ c = event.container
<1> DEFINE src == taskStatus[t].state
<1>1. IInv' /\ SMTypeOK /\ EdgeEffects(t, dst, event)
  BY EdgeKeepsIInv, EdgeHasEffects DEF IInv
<1>2. /\ taskStatus'[t].state = dst /\ taskStatus[t].state # dst
      /\ \A u \in Locators : u # t => taskStatus'[u] = taskStatus[u]
      /\ dst \notin ASSOCIATED_STATES => taskStatus'[t].container = None
      /\ dst \in ASSOCIATED_STATES /\ src \in ASSOCIATED_STATES
            => taskStatus'[t].container = taskStatus[t].container
      /\ dst = "CONTAINER_ALLOCATED" => taskStatus'[t].container = event.container
  <2>1. dst = "CONTAINER_ALLOCATED" => dst \in ASSOCIATED_STATES /\ src \notin ASSOCIATED_STATES
    BY DEF LegalEdge, ASSOCIATED_STATES, LIVE_STATES
  <2>. QED BY <1>1, <2>1, EdgeStatuses DEF EdgeEffects
<1>3. \A u \in Locators :
         \/ taskStatus'[u].container \in { None, taskStatus[u].container }
         \/ u = t /\ dst = "CONTAINER_ALLOCATED" /\ taskStatus'[u].container = event.container
  <2>1. dst \in ASSOCIATED_STATES => src \in ASSOCIATED_STATES \/ dst = "CONTAINER_ALLOCATED"
    BY DEF LegalEdge, ASSOCIATED_STATES, LIVE_STATES
  <2>. QED BY <1>2, <2>1
<1>4. UNCHANGED << taskNumber, zkNumber, zkStatus >> /\ TransitionRequest(t, src, dst)
  BY <1>1 DEF EdgeEffects
<1>5. dst = "CONTAINER_REQUESTED" =>
         /\ nextPriority \in Priorities /\ nextPriority' = nextPriority + 1
         /\ priorityLocators' = [ priorityLocators EXCEPT ![nextPriority] = t ]
         /\ containerRequests' = [ containerRequests EXCEPT ![t] = nextPriority ]
  BY <1>1, <1>4, ConstantsAssumption DEF TransitionRequest, LegalEdge, Priorities, SMTypeOK
<1>6. dst # "CONTAINER_REQUESTED" =>
         /\ nextPriority' = nextPriority
         /\ \A u \in Locators :
               containerRequests'[u] = IF src = "CONTAINER_REQUESTED" /\ u = t THEN None
                                       ELSE containerRequests[u]
         /\ \A p \in Priorities :
               priorityLocators'[p] = IF src = "CONTAINER_REQUESTED" /\ priorityLocators[p] = t
                                      THEN None ELSE priorityLocators[p]
  BY <1>4, NoneAssumption DEF TransitionRequest, WithoutRequests, reqVars
<1>7. /\ \A u \in Locators : u # t => containerRequests'[u] = containerRequests[u]
      /\ dst = "CONTAINER_REQUESTED" => containerRequests'[t] = nextPriority
      /\ dst # "CONTAINER_REQUESTED" =>
            containerRequests'[t] = IF src = "CONTAINER_REQUESTED" THEN None
                                    ELSE containerRequests[t]
  BY <1>1, <1>5, <1>6 DEF SMTypeOK
<1>8. ASSUME NEW c \in Containers
      PROVE  /\ liveLocators[c] \notin { None, t } => liveLocators'[c] = liveLocators[c]
             /\ liveLocators[c] = t /\ dst \in LIVE_STATES => liveLocators'[c] = t
             /\ liveLocators'[c] # None =>
                   \/ liveLocators'[c] = liveLocators[c]
                   \/ dst = "CONTAINER_ALLOCATED" /\ c = event.container
  <2>1. /\ \A u \in Locators : liveLocators[c] = u <=>
              taskStatus[u].state \in LIVE_STATES /\ taskStatus[u].container = c
        /\ \A u \in Locators : liveLocators'[c] = u <=>
              taskStatus'[u].state \in LIVE_STATES /\ taskStatus'[u].container = c
        /\ liveLocators[c] \in Locators \cup { None } /\ liveLocators'[c] \in Locators \cup { None }
    BY <1>1 DEF IInv, SMTypeOK, IndexesExact, LiveIndexExact
  <2>2. LIVE_STATES \subseteq ASSOCIATED_STATES
    BY DEF ASSOCIATED_STATES
  <2>3. dst \in LIVE_STATES => src \in LIVE_STATES \/ dst = "CONTAINER_ALLOCATED"
    BY DEF LegalEdge, LIVE_STATES
  <2>4. liveLocators[c] \notin { None, t } => liveLocators'[c] = liveLocators[c]
    BY <1>2, <2>1
  <2>5. liveLocators[c] = t /\ dst \in LIVE_STATES => liveLocators'[c] = t
    BY <1>2, <2>1, <2>2
  <2>6. liveLocators'[c] = t => liveLocators[c] = t \/ (dst = "CONTAINER_ALLOCATED" /\ c = event.container)
    BY <1>2, <2>1, <2>2, <2>3
  <2>7. ASSUME NEW u \in Locators, u # t, liveLocators'[c] = u PROVE liveLocators[c] = u
    BY <1>2, <2>1, <2>7
  <2>. QED BY <2>1, <2>4, <2>5, <2>6, <2>7
<1>. QED BY <1>1, <1>2, <1>3, <1>4, <1>5, <1>6, <1>7, <1>8

\* Parts that are about other tasks stay sound.
LEMMA EdgeKeepsRest ==
    ASSUME IInv, NEW t \in Locators, NEW dst \in TaskStates, NEW event \in Events,
           LegalEdge(t, dst, event), TransitionTaskState(t, dst, event),
           NEW w, SoundTodo(w, taskStatus, containerRequests, liveLocators),
           \A j \in 1 .. Len(w) :
              /\ w[j].op \notin { "Request", "Withdraw", "Launch" }
              /\ w[j].op = "Retry" => taskStatus[t].state # "CONTAINER_COMPLETED"
              /\ w[j].op = "Missing" /\ dst \notin LIVE_STATES
                    => \A c \in w[j].all : liveLocators[c] # t
    PROVE  SoundTodo(w, taskStatus', containerRequests', liveLocators')
<1>1. ASSUME NEW j \in 1 .. Len(w)
      PROVE  Valid(w[j], taskStatus', containerRequests', liveLocators')
  <2>1. w[j] \in TodoItems /\ Valid(w[j], taskStatus, containerRequests, liveLocators)
    BY DEF SoundTodo
  <2>2. CASE w[j].op = "Retry"
    <3>1. w[j].all \subseteq Locators
      BY <2>1, <2>2 DEF TodoItems, CompletionItems
    <3>. QED BY <2>1, <2>2, <3>1, EdgeSummary DEF Valid
  <2>3. CASE w[j].op = "Missing"
    <3>1. w[j].all \subseteq Containers
      BY <2>1, <2>3 DEF TodoItems, CompletionItems
    <3>2. t # None
      BY NoneAssumption
    <3>. QED BY <2>1, <2>3, <3>1, <3>2, EdgeSummary DEF Valid
  <2>. QED BY <2>2, <2>3 DEF Valid
<1>. QED BY <1>1, StaySound

\* Events of the steps below.
LEMMA EventsAreEvents ==
    /\ NoEvent \in Events
    /\ \A c \in Containers : /\ [ NoEvent EXCEPT !.container = c ] \in Events
                             /\ [ NoEvent EXCEPT !.container = c ].container = c
    /\ \A e \in ExitTypes : [ NoEvent EXCEPT !.exit = e ] \in Events
    /\ \A n \in 0 .. MaxRetried : [ NoEvent EXCEPT !.retried = n ] \in Events
BY ConstantsAssumption DEF NoEvent, Events

-----------------------------------------------------------------------------
(* What a step of the system task keeps *)

\* The messages and timers, the requests and the numbers a step may touch.
WorkFrame ==
    /\ phase' \in { "running", "stopping" }
    /\ exceed' \in [ Containers -> 0 .. MaxExceed ]
    /\ migrate' \subseteq migrate
    /\ asks' \subseteq Priorities /\ releasing' \subseteq Containers /\ starting' \subseteq Containers
    /\ UNCHANGED quietVars

\* Grants are still told of once, to nobody before, when the step tells nobody
\* anything and associates none of the granted containers that remain.
LEMMA GrantsKept ==
    ASSUME AMTypes, GrantsSound, queue' \in Seq(QueueItems),
           NEW s \in { 0, 1 },
           \A i \in 1 .. Len(queue') :
               \/ queue'[i] = Plain("LaunchAll")
               \/ i + s \in 1 .. Len(queue) /\ queue'[i] = queue[i + s],
           inbox' = inbox, container' = container,
           \A c \in Containers : Unassociated(c) =>
               Unassociated(c)' \/ (container[c] # "free" /\ ~GrantPending(c)'),
           \A c \in starting' : c \in starting \/ ~Unassociated(c),
           \A c \in Containers : StartPending(c)' /\ liveLocators'[c] # None =>
               taskStatus'[liveLocators'[c]].state \in { "CONTAINER_LAUNCHED", "CONTAINER_RUNNING" }
    PROVE  GrantsSound'
<1>1. ASSUME NEW c \in Containers, NEW i \in 1 .. Len(queue'), GrantIn(queue'[i], c)
      PROVE  i + s \in 1 .. Len(queue) /\ queue'[i] = queue[i + s]
  BY <1>1 DEF GrantIn, Plain
<1>2. ASSUME NEW c \in Containers, NEW i \in 1 .. Len(queue'), StartedIn(queue'[i], c)
      PROVE  i + s \in 1 .. Len(queue) /\ queue'[i] = queue[i + s]
  BY <1>2 DEF StartedIn, Plain
<1>3. ASSUME NEW c \in Containers
      PROVE  /\ GrantPending(c)' => GrantPending(c)
             /\ StartPending(c)' => StartPending(c) \/ c \in starting'
  BY <1>1, <1>2 DEF GrantPending, StartPending
<1>4. ASSUME NEW c \in Containers, container'[c] = "free" \/ GrantPending(c)'
      PROVE  Unassociated(c)' /\ ~StartPending(c)'
  <2>1. container[c] = "free" \/ GrantPending(c)
    BY <1>3, <1>4
  <2>2. Unassociated(c) /\ ~StartPending(c)
    BY <2>1 DEF GrantsSound
  <2>3. ~StartPending(c)'
    BY <1>3, <2>2 DEF StartPending
  <2>. QED BY <1>3, <1>4, <2>2, <2>3
<1>5. ASSUME NEW c \in Containers
      PROVE  /\ container'[c] = "free" => ~GrantPending(c)'
             /\ \A m, n \in inbox' : GrantIn(m, c) /\ GrantIn(n, c) => m = n
  BY <1>3 DEF GrantsSound
<1>6. ASSUME NEW c \in Containers, NEW i \in 1 .. Len(queue'), NEW j \in 1 .. Len(queue'),
             GrantIn(queue'[i], c), GrantIn(queue'[j], c)
      PROVE  i = j
  <2>1. i + s \in 1 .. Len(queue) /\ j + s \in 1 .. Len(queue)
        /\ GrantIn(queue[i + s], c) /\ GrantIn(queue[j + s], c)
    BY <1>1, <1>6
  <2>2. i + s = j + s
    BY <2>1 DEF GrantsSound
  <2>. QED BY <2>2
<1>7. ASSUME NEW c \in Containers, NEW n \in inbox', NEW i \in 1 .. Len(queue'),
             GrantIn(n, c), GrantIn(queue'[i], c)
      PROVE  FALSE
  <2>1. i + s \in 1 .. Len(queue) /\ GrantIn(queue[i + s], c) /\ n \in inbox
    BY <1>1, <1>7
  <2>. QED BY <1>7, <2>1 DEF GrantsSound
<1>. QED BY <1>4, <1>5, <1>6, <1>7 DEF GrantsSound

\* A step of the system task that leaves sound parts behind, arms sound timers,
\* withdraws the requests it forgets and associates no container still granted.
LEMMA StepKeeps ==
    ASSUME AMInv, IInv', HasWork, NEW then, NEW submitted, Proceed(then, submitted),
           submitted \in { << >>, << Plain("LaunchAll") >> }, WorkFrame,
           SoundTodo(then \o Rest, taskStatus', containerRequests', liveLocators'),
           timers' \subseteq TimerItems,
           nextPriority <= nextPriority',
           \A p \in Priorities : p < nextPriority => priorityLocators'[p] \in { None, priorityLocators[p] },
           \A d \in timers' : d \in timers \/ TimerSound(d)',
           AsksSound',
           \A c \in Containers : Unassociated(c) =>
               \/ Unassociated(c)'
               \/ todo = << >> /\ GrantIn(Work, c),
           \A c \in starting' : c \in starting \/ ~Unassociated(c),
           \A c \in Containers : (StartPending(c) \/ c \in starting') /\ liveLocators'[c] # None =>
               taskStatus'[liveLocators'[c]].state \in { "CONTAINER_LAUNCHED", "CONTAINER_RUNNING" }
    PROVE  AMInv'
<1>1. PICK s \in { 0, 1 } :
         /\ s = 1 <=> todo = << >>
         /\ \A i \in 1 .. Len(queue') :
               \/ queue'[i] = Plain("LaunchAll")
               \/ i + s \in 1 .. Len(queue) /\ queue'[i] = queue[i + s]
  BY QueueAfter DEF AMInv
<1>2. todo' = then \o Rest /\ queue' \in Seq(QueueItems)
  BY QueueAfter DEF AMInv
<1>3. TodoSound'
  BY <1>2 DEF TodoSound
<1>4. AMTypes'
  <2>1. IsFiniteSet(migrate')
    BY FS_Subset DEF AMInv, AMTypes, WorkFrame
  <2>. QED BY <1>2, <2>1 DEF AMInv, AMTypes, WorkFrame, quietVars, cntVars
<1>5. TimersSound'
  <2>1. nextPriority \in Nat /\ nextPriority' \in Nat /\ Priorities \subseteq Nat
    BY DEF AMInv, IInv, SMTypeOK, Priorities
  <2>2. ASSUME NEW d \in TimerItems \cup QueueItems, TimerSound(d) PROVE TimerSound(d)'
    <3>1. d.op = "Timeout" => d.priority \in Priorities
      BY DEF TimerItems, QueueItems, InboxItems, CompletionItems
    <3>2. CASE d.op = "Timeout"
      <4>1. d.priority \in Priorities /\ d.priority < nextPriority
            /\ priorityLocators[d.priority] \in { None, d.task }
        BY <2>2, <3>1, <3>2 DEF TimerSound
      <4>2. priorityLocators'[d.priority] \in { None, d.task }
        BY <4>1
      <4>3. d.priority < nextPriority'
        <5>1. PICK p \in Nat : p = d.priority
          BY <2>1, <4>1
        <5>2. p < nextPriority /\ nextPriority <= nextPriority'
          BY <4>1, <5>1
        <5>3. p < nextPriority'
          BY <2>1, <5>2
        <5>. QED BY <5>1, <5>3
      <4>. QED BY <3>2, <4>2, <4>3 DEF TimerSound
    <3>3. CASE d.op # "Timeout"
      BY <2>2, <3>3 DEF TimerSound
    <3>. QED BY <3>2, <3>3
  <2>3. \A d \in timers' : TimerSound(d)'
    BY <2>2 DEF AMInv, AMTypes, TimersSound
  <2>4. ASSUME NEW i \in 1 .. Len(queue'), NEW d, d = queue'[i] PROVE TimerSound(d)'
    <3>1. CASE d = Plain("LaunchAll")
      BY <3>1 DEF Plain, TimerSound
    <3>2. CASE i + s \in 1 .. Len(queue) /\ d = queue[i + s]
      <4>1. d \in QueueItems /\ TimerSound(d)
        BY <3>2 DEF AMInv, AMTypes, TimersSound
      <4>. QED BY <2>2, <4>1
    <3>. QED BY <1>1, <2>4, <3>1, <3>2
  <2>5. \A i \in 1 .. Len(queue') : TimerSound(queue[i])'
    BY <2>4 DEF TimerSound
  <2>. QED BY <2>3, <2>5 DEF TimersSound
<1>6. ASSUME NEW c \in Containers, todo = << >>, GrantIn(Work, c)
      PROVE  container[c] # "free" /\ ~GrantPending(c)'
  <2>1. queue # << >> /\ Work = queue[1] /\ 1 \in 1 .. Len(queue) /\ s = 1
    BY <1>1, <1>6, WorkFacts DEF AMInv
  <2>2. container[c] # "free"
    BY <1>6, <2>1 DEF AMInv, GrantsSound, GrantPending
  <2>3. ASSUME NEW i \in 1 .. Len(queue'), GrantIn(queue'[i], c) PROVE FALSE
    <3>1. i + 1 \in 1 .. Len(queue) /\ GrantIn(queue[i + 1], c)
      BY <1>1, <2>1, <2>3 DEF GrantIn, Plain
    <3>2. i + 1 = 1
      BY <1>6, <2>1, <3>1 DEF AMInv, GrantsSound
    <3>. QED BY <3>2
  <2>4. \A n \in inbox' : ~GrantIn(n, c)
    BY <1>6, <2>1 DEF AMInv, GrantsSound, WorkFrame, quietVars
  <2>. QED BY <2>2, <2>3, <2>4 DEF GrantPending
<1>7. \A c \in Containers : StartPending(c)' => StartPending(c) \/ c \in starting'
  <2>. SUFFICES ASSUME NEW c \in Containers, NEW i \in 1 .. Len(queue'), StartedIn(queue'[i], c)
                PROVE  StartPending(c)
    BY DEF StartPending, WorkFrame, quietVars
  <2>. QED BY <1>1 DEF StartPending, StartedIn, Plain
<1>8. GrantsSound'
  <2>1. inbox' = inbox /\ container' = container
    BY DEF WorkFrame, quietVars
  <2>. QED BY <1>1, <1>2, <1>6, <1>7, <2>1, GrantsKept DEF AMInv
<1>. QED BY <1>3, <1>4, <1>5, <1>8 DEF AMInv

\* Along a legal edge whose request goes with it, whose container, if it gets
\* one, is the one this system task was granted, and which starts at most the
\* container of its task.
LEMMA EdgeStep ==
    ASSUME AMInv, HasWork, NEW t \in Locators, NEW dst \in TaskStates, NEW event \in Events,
           LegalEdge(t, dst, event), NEW then, NEW delayed, Transit(t, dst, event, then, delayed),
           WorkFrame,
           SoundTodo(then \o Rest, taskStatus', containerRequests', liveLocators'),
           delayed = {} \/ (dst = "CONTAINER_REQUESTED" /\ delayed = { TimeoutOf(nextPriority, t) }),
           \A p \in asks' :
               \/ p \in asks /\ (taskStatus[t].state = "CONTAINER_REQUESTED" => priorityLocators[p] # t)
               \/ dst = "CONTAINER_REQUESTED" /\ p = nextPriority,
           dst = "CONTAINER_ALLOCATED" => todo = << >> /\ GrantIn(Work, event.container),
           \/ starting' = starting
           \/ dst = "CONTAINER_LAUNCHED" /\ starting' = starting \cup { taskStatus[t].container }
    PROVE  AMInv'
<1> DEFINE src == taskStatus[t].state
<1>1. PICK submitted \in { << >>, << Plain("LaunchAll") >> } :
         /\ Proceed(then, submitted)
         /\ timers' = Armed(timers \cup delayed \cup
                IF Gang /\ Appears(FALSE) THEN { GangTimeout(round) } ELSE {})
  BY DEF Transit, ProceedWithCallbacks
<1>2. TransitionTaskState(t, dst, event) /\ IInv
  BY DEF Transit, AMInv
<1>3. /\ IInv'
      /\ taskStatus'[t].state = dst
      /\ \A u \in Locators : u # t => taskStatus'[u] = taskStatus[u]
      /\ zkStatus' = zkStatus
      /\ \A u \in Locators :
            \/ taskStatus'[u].container \in { None, taskStatus[u].container }
            \/ u = t /\ dst = "CONTAINER_ALLOCATED" /\ taskStatus'[u].container = event.container
      /\ dst = "CONTAINER_REQUESTED" =>
            /\ nextPriority \in Priorities /\ nextPriority' = nextPriority + 1
            /\ priorityLocators' = [ priorityLocators EXCEPT ![nextPriority] = t ]
      /\ dst # "CONTAINER_REQUESTED" =>
            /\ nextPriority' = nextPriority
            /\ \A p \in Priorities :
                  priorityLocators'[p] =
                      IF src = "CONTAINER_REQUESTED" /\ priorityLocators[p] = t THEN None
                      ELSE priorityLocators[p]
      /\ \A c \in Containers : liveLocators'[c] # None =>
            \/ liveLocators'[c] = liveLocators[c]
            \/ dst = "CONTAINER_ALLOCATED" /\ c = event.container
  BY <1>2, EdgeSummary
<1>4. /\ nextPriority \in Nat /\ nextPriority' \in Nat /\ Priorities \subseteq Nat /\ round \in Nat
      /\ priorityLocators \in [ Priorities -> Locators \cup { None } ] /\ t # None
  BY <1>2, <1>3, NoneAssumption DEF IInv, SMTypeOK, Priorities
<1>5. nextPriority <= nextPriority'
  BY <1>3, <1>4
<1>6. \A p \in Priorities : p < nextPriority => priorityLocators'[p] \in { None, priorityLocators[p] }
  BY <1>3, <1>4
<1>7. /\ timers' \subseteq TimerItems
      /\ \A d \in timers' : d \in timers \/ TimerSound(d)'
  <2>1. \A d \in timers' : d \in timers \/ d \in delayed \/ d = GangTimeout(round)
    BY <1>1 DEF Armed
  <2>2. GangTimeout(round) \in TimerItems /\ TimerSound(GangTimeout(round))
    BY <1>4 DEF GangTimeout, TimerItems, TimerSound
  <2>3. ASSUME NEW d \in delayed PROVE d \in TimerItems /\ TimerSound(d)'
    <3>1. dst = "CONTAINER_REQUESTED" /\ d = TimeoutOf(nextPriority, t)
      BY <2>3
    <3>2. nextPriority \in Priorities /\ nextPriority < nextPriority'
          /\ priorityLocators'[nextPriority] = t
      BY <1>3, <1>4, <3>1
    <3>. QED BY <3>1, <3>2 DEF TimeoutOf, TimerItems, TimerSound
  <2>4. ASSUME NEW d, d = GangTimeout(round) PROVE TimerSound(d)'
    BY <2>4 DEF GangTimeout, TimerSound
  <2>5. timers \subseteq TimerItems
    BY DEF AMInv, AMTypes
  <2>. QED BY <2>1, <2>2, <2>3, <2>4, <2>5
<1>8. AsksSound'
  <2>. SUFFICES ASSUME NEW p \in asks' PROVE priorityLocators'[p] # None
    BY DEF AsksSound
  <2>1. p \in Priorities
    BY DEF WorkFrame
  <2>2. p \in asks => priorityLocators[p] # None
    BY DEF AMInv, AsksSound
  <2>. QED BY <1>3, <1>4, <2>1, <2>2
<1>9. \A c \in Containers : Unassociated(c) =>
         Unassociated(c)' \/ (todo = << >> /\ GrantIn(Work, c))
  <2>. SUFFICES ASSUME NEW c \in Containers, Unassociated(c), ~Unassociated(c)'
                PROVE  todo = << >> /\ GrantIn(Work, c)
    OBVIOUS
  <2>1. PICK u \in Locators : taskStatus'[u].container = c /\ taskStatus[u].container # c
    BY <1>3 DEF Unassociated
  <2>2. c # None
    BY ConstantsAssumption
  <2>. QED BY <1>3, <2>1, <2>2
<1>10. /\ \A c \in Containers, u \in Locators : liveLocators[c] = u <=>
             taskStatus[u].state \in LIVE_STATES /\ taskStatus[u].container = c
       /\ \A c \in Containers, u \in Locators : liveLocators'[c] = u <=>
             taskStatus'[u].state \in LIVE_STATES /\ taskStatus'[u].container = c
       /\ \A c \in Containers : liveLocators'[c] \in Locators \cup { None }
  BY <1>2, <1>3 DEF IInv, SMTypeOK, IndexesExact, LiveIndexExact
<1>11. /\ dst = "CONTAINER_ALLOCATED" => src \notin LIVE_STATES
       /\ dst = "CONTAINER_LAUNCHED" => src \in LIVE_STATES
       /\ dst \in LIVE_STATES => dst \in { "CONTAINER_ALLOCATED", "CONTAINER_LAUNCHED", "CONTAINER_RUNNING" }
  BY DEF LegalEdge, LIVE_STATES
<1>12. \A c \in starting' : c \in starting \/ ~Unassociated(c)
  BY DEF Unassociated
<1>13. ASSUME NEW c \in Containers, StartPending(c) \/ c \in starting', liveLocators'[c] # None
       PROVE  taskStatus'[liveLocators'[c]].state \in { "CONTAINER_LAUNCHED", "CONTAINER_RUNNING" }
  <2>1. CASE dst = "CONTAINER_ALLOCATED" /\ c = event.container
    <3>1. GrantPending(c)
      BY <2>1, WorkFacts DEF AMInv, GrantPending
    <3>2. ~StartPending(c)
      BY <3>1 DEF AMInv, GrantsSound
    <3>3. c \notin starting'
      BY <2>1, <3>2 DEF StartPending
    <3>. QED BY <1>13, <3>2, <3>3
  <2>2. CASE liveLocators'[c] = liveLocators[c]
    <3>1. PICK u \in Locators : u = liveLocators[c] /\ u = liveLocators'[c]
      BY <1>10, <1>13, <2>2
    <3>2. CASE u # t
      <4>1. StartPending(c)
        <5>1. c # taskStatus[t].container \/ dst # "CONTAINER_LAUNCHED"
          BY <1>10, <1>11, <3>1, <3>2
        <5>. QED BY <1>13, <5>1 DEF StartPending
      <4>2. taskStatus[u].state \in { "CONTAINER_LAUNCHED", "CONTAINER_RUNNING" }
        BY <1>13, <3>1, <4>1, <2>2 DEF AMInv, GrantsSound
      <4>. QED BY <1>3, <3>1, <3>2, <4>2
    <3>3. CASE u = t
      <4>1. src \in LIVE_STATES /\ taskStatus'[t].state \in LIVE_STATES
        <5>1. liveLocators[c] = t /\ liveLocators'[c] = t
          BY <3>1, <3>3
        <5>. QED BY <1>10, <5>1
      <4>2. dst \in { "CONTAINER_LAUNCHED", "CONTAINER_RUNNING" }
        BY <1>3, <1>11, <4>1
      <4>. QED BY <1>3, <3>1, <3>3, <4>2
    <3>. QED BY <3>2, <3>3
  <2>. QED BY <1>3, <1>13, <2>1, <2>2
<1>. QED BY <1>1, <1>3, <1>5, <1>6, <1>7, <1>8, <1>9, <1>12, <1>13, StepKeeps

\* A step that leaves the StatusManager alone.
LEMMA QuietStep ==
    ASSUME AMInv, HasWork, NEW then, Proceed(then, << >>), WorkFrame, UNCHANGED smVars,
           SoundTodo(then \o Rest, taskStatus, containerRequests, liveLocators),
           timers' \subseteq TimerItems,
           \A d \in timers' : d \in timers \/ TimerSound(d),
           asks' \subseteq asks, starting' = starting
    PROVE  AMInv'
<1>1. /\ UNCHANGED << taskStatus, containerRequests, priorityLocators, nextPriority >>
      /\ UNCHANGED << liveLocators, zkStatus >>
  BY DEF smVars, memVars, extVars, reqVars, zkVars
<1>2. IInv /\ IInv'
  BY NextIInv DEF AMInv
<1>3. nextPriority \in Nat
  BY <1>2 DEF IInv, SMTypeOK
<1>4. \A d \in timers' : d \in timers \/ TimerSound(d)'
  BY <1>1 DEF TimerSound
<1>5. AsksSound'
  BY <1>1 DEF AMInv, AsksSound
<1>6. \A c \in Containers : Unassociated(c) => Unassociated(c)'
  BY <1>1 DEF Unassociated
<1>7. \A c \in Containers : (StartPending(c) \/ c \in starting') /\ liveLocators'[c] # None =>
         taskStatus'[liveLocators'[c]].state \in { "CONTAINER_LAUNCHED", "CONTAINER_RUNNING" }
  BY <1>1 DEF AMInv, GrantsSound, StartPending
<1>8. SoundTodo(then \o Rest, taskStatus', containerRequests', liveLocators')
  BY <1>1
<1>9. nextPriority <= nextPriority'
  BY <1>1, <1>3
<1>10. \A p \in Priorities : priorityLocators'[p] \in { None, priorityLocators[p] }
  BY <1>1
<1>. QED BY <1>2, <1>4, <1>5, <1>6, <1>7, <1>8, <1>9, <1>10, StepKeeps

-----------------------------------------------------------------------------
(* The system tasks *)

\* What the steps of the AM do to the StatusManager.
SMStep == SMNext \/ UNCHANGED smVars

\* The parts that follow a part of the first kind are of none of these.
LEMMA RestOfTasks ==
    ASSUME AMInv, HasWork
    PROVE  /\ SoundTodo(Rest, taskStatus, containerRequests, liveLocators)
           /\ Work.op \in { "AllWaiting", "Request", "Withdraw", "Launch", "Complete", "Retry" } =>
                 \A j \in 1 .. Len(Rest) :
                    /\ Rest[j].op \notin { "AllWaiting", "Request", "Withdraw", "Launch" }
                    /\ Rank(Work) < Rank(Rest[j])
           /\ Work.op \in { "Complete", "Retry" } => \A j \in 1 .. Len(Rest) : Rest[j].op # "Retry"
           /\ Work.op = "Complete" =>
                 \A j \in 1 .. Len(Rest) : Rest[j].op = "Missing" => Work.container \notin Rest[j].all
<1>1. /\ SoundTodo(Rest, taskStatus, containerRequests, liveLocators)
      /\ \A j \in 1 .. Len(Rest) : Before(Work, Rest[j])
  BY WorkFacts DEF AMInv
<1>. QED BY <1>1 DEF Before, Rank

\* A task that waits, is requested or is completed has no live container, and one
\* whose container is live has this one.
LEMMA LiveTask ==
    ASSUME AMInv, NEW t \in Locators
    PROVE  /\ \A c \in Containers : liveLocators[c] = t =>
                 taskStatus[t].state \in LIVE_STATES /\ taskStatus[t].container = c
           /\ taskStatus[t].state \in LIVE_STATES => /\ taskStatus[t].container \in Containers
                                                     /\ liveLocators[taskStatus[t].container] = t
<1>1. taskStatus[t].state \in LIVE_STATES => taskStatus[t].container \in Containers
  BY DEF AMInv, IInv, SMTypeOK, StatusesWellFormed, WellFormed, TaskStatuses, ASSOCIATED_STATES
<1>. QED BY <1>1 DEF AMInv, IInv, IndexesExact, LiveIndexExact

\* addContainerRequest keeps the invariant and is Request, or nothing yet.
LEMMA RequestKeeps == ASSUME AMInv, DoRequest PROVE AMInv' /\ SMStep
<1>1. PICK t \in NextToRequest : LET rest == ForEach("Request", Work.all \ { t }) IN
          \/ /\ nextPriority < MaxRequests
             /\ asks' = asks \cup { nextPriority }
             /\ Transit(t, "CONTAINER_REQUESTED", NoEvent, rest, { TimeoutOf(nextPriority, t) })
          \/ /\ "setup" \in Faults
             /\ timers' = timers \cup { AgainFor(t) }
             /\ Proceed(rest, <<>>)
             /\ UNCHANGED << smVars, asks >>
  BY Zenon DEF DoRequest
<1>2. Doing("Request") /\ UNCHANGED << phase, exceed, migrate, releasing, starting, quietVars >>
  BY DEF DoRequest
<1>3. HasWork /\ Work.op = "Request" /\ phase = "running"
  BY <1>2 DEF Doing, HasWork
<1>4. /\ Work.all \subseteq Locators /\ t \in Work.all /\ t \in Locators
      /\ \A u \in Work.all : taskStatus[u].state = "TASK_WAITING"
  BY <1>3, WorkFacts DEF AMInv, NextToRequest, Valid
<1>5. PICK more \in SUBSET Locators : more = Work.all \ { t }
  BY <1>4
<1>6. nextPriority \in Nat /\ taskStatus[t] \in TaskStatuses
  BY <1>4 DEF AMInv, IInv, SMTypeOK
<1>7. /\ SoundTodo(Rest, taskStatus, containerRequests, liveLocators)
      /\ \A j \in 1 .. Len(Rest) :
            /\ Rest[j].op \notin { "Request", "Withdraw", "Launch" }
            /\ \A e : e = [ op |-> "Request", all |-> more ] => Before(e, Rest[j])
  BY <1>3, RestOfTasks DEF Before, Rank
<1>8. \A e : e = [ op |-> "Request", all |-> more ] /\ more # {} => e \in TodoItems
  BY DEF TodoItems
<1>9. CASE /\ nextPriority < MaxRequests
           /\ asks' = asks \cup { nextPriority }
           /\ Transit(t, "CONTAINER_REQUESTED", NoEvent, ForEach("Request", more),
                      { TimeoutOf(nextPriority, t) })
  <2>1. LegalEdge(t, "CONTAINER_REQUESTED", NoEvent) /\ NoEvent \in Events
    BY <1>4, <1>9, EventsAreEvents DEF LegalEdge
  <2>2. /\ "CONTAINER_REQUESTED" \in TaskStates
        /\ TransitionTaskState(t, "CONTAINER_REQUESTED", NoEvent)
    BY <1>9 DEF TaskStates, Transit
  <2>3. \A c \in Containers : liveLocators[c] # t
    BY <1>4, LiveTask DEF LIVE_STATES
  <2>4. \A j \in 1 .. Len(Rest) : Rest[j].op = "Missing" => Rest[j].all \subseteq Containers
    BY <1>7 DEF SoundTodo, TodoItems, CompletionItems
  <2>5. SoundTodo(Rest, taskStatus', containerRequests', liveLocators')
    BY <1>4, <1>7, <2>1, <2>2, <2>3, <2>4, EdgeKeepsRest DEF AMInv
  <2>6. \A u \in more : taskStatus'[u].state = "TASK_WAITING"
    BY <1>4, <1>5, <2>1, <2>2, EdgeSummary DEF AMInv
  <2>7. \A e : e = [ op |-> "Request", all |-> more ] =>
               Valid(e, taskStatus', containerRequests', liveLocators')
    BY <2>6 DEF Valid
  <2>8. SoundTodo(ForEach("Request", more) \o Rest, taskStatus', containerRequests', liveLocators')
    BY <1>7, <1>8, <2>5, <2>7, PutEach
  <2>9. WorkFrame
    BY <1>2, <1>3, <1>6, <1>9, ConstantsAssumption DEF WorkFrame, AMInv, AMTypes, Priorities
  <2>10. AMInv'
    <3>1. \A p \in asks' : p \in asks \/ p = nextPriority
      BY <1>9
    <3>2. starting' = starting /\ taskStatus[t].state # "CONTAINER_REQUESTED"
      BY <1>2, <1>4
    <3>. QED BY <1>3, <1>4, <1>9, <2>1, <2>2, <2>8, <2>9, <3>1, <3>2, EdgeStep
  <2>11. Request(t)
    BY <1>4, <1>9, <2>2 DEF Request
  <2>. QED BY <1>4, <2>10, <2>11 DEF SMStep, SMNext
<1>10. CASE /\ timers' = timers \cup { AgainFor(t) }
            /\ Proceed(ForEach("Request", more), <<>>)
            /\ UNCHANGED << smVars, asks >>
  <2>1. \A e : e = [ op |-> "Request", all |-> more ] =>
               Valid(e, taskStatus, containerRequests, liveLocators)
    BY <1>4, <1>5 DEF Valid
  <2>2. SoundTodo(ForEach("Request", more) \o Rest, taskStatus, containerRequests, liveLocators)
    BY <1>7, <1>8, <2>1, PutEach
  <2>3. AgainFor(t) \in TimerItems /\ TimerSound(AgainFor(t))
    BY <1>4, <1>6 DEF AgainFor, TimerItems, TimerSound
  <2>4. WorkFrame
    BY <1>2, <1>3, <1>10 DEF WorkFrame, AMInv, AMTypes
  <2>5. timers' \subseteq TimerItems /\ \A d \in timers' : d \in timers \/ TimerSound(d)
    BY <1>10, <2>3 DEF AMInv, AMTypes
  <2>. QED BY <1>2, <1>3, <1>10, <2>2, <2>4, <2>5, QuietStep DEF SMStep
<1>. QED BY <1>1, <1>5, <1>9, <1>10

\* A system task that has nothing more to do.
LEMMA IgnoreStep ==
    ASSUME AMInv, HasWork, Ignore, WorkFrame, asks' \subseteq asks, starting' = starting
    PROVE  AMInv' /\ SMStep
<1>1. SoundTodo(Rest, taskStatus, containerRequests, liveLocators)
  BY RestOfTasks
<1>2. << >> \o Rest = Rest
  BY <1>1, Unchanged DEF SoundTodo
<1>3. timers \subseteq TimerItems
  BY DEF AMInv, AMTypes
<1>. QED BY <1>1, <1>2, <1>3, QuietStep DEF Ignore, SMStep

\* The task of a request is CONTAINER_REQUESTED, and it has no other request.
LEMMA TaskOfRequest ==
    ASSUME AMInv, NEW p \in Priorities, NEW t \in Locators, priorityLocators[p] = t
    PROVE  containerRequests[t] = p /\ taskStatus[t].state = "CONTAINER_REQUESTED"
<1>1. containerRequests[t] = p /\ p # None
  BY NoneAssumption DEF AMInv, IInv, IndexesExact, RequestIndexExact
<1>. QED BY <1>1 DEF AMInv, IInv, IndexesExact, RequestIndexExact

\* A requested task goes back to TASK_WAITING and is requested again.
LEMMA WithdrawStep ==
    ASSUME AMInv, HasWork, NEW t \in Locators, taskStatus[t].state = "CONTAINER_REQUESTED",
           Transit(t, "TASK_WAITING", NoEvent, ForEach("Request", { t }), {}), WorkFrame,
           starting' = starting, \A p \in asks' : p \in asks /\ priorityLocators[p] # t,
           \A j \in 1 .. Len(Rest) : Rank(Rest[j]) > 1
    PROVE  AMInv' /\ SMStep
<1>1. LegalEdge(t, "TASK_WAITING", NoEvent) /\ NoEvent \in Events
  BY EventsAreEvents DEF LegalEdge
<1>2. /\ "TASK_WAITING" \in TaskStates /\ TransitionTaskState(t, "TASK_WAITING", NoEvent)
  BY DEF TaskStates, Transit
<1>3. \A c \in Containers : liveLocators[c] # t
  BY LiveTask DEF LIVE_STATES
<1>4. SoundTodo(Rest, taskStatus, containerRequests, liveLocators)
  BY RestOfTasks
<1>5. \A j \in 1 .. Len(Rest) : /\ Rest[j].op = "Missing" => Rest[j].all \subseteq Containers
                                /\ Rest[j].op \notin { "Request", "Withdraw", "Launch" }
  BY <1>4 DEF SoundTodo, TodoItems, CompletionItems, Rank
<1>6. SoundTodo(Rest, taskStatus', containerRequests', liveLocators')
  BY <1>1, <1>2, <1>3, <1>4, <1>5, EdgeKeepsRest DEF AMInv
<1>7. taskStatus'[t].state = "TASK_WAITING"
  BY <1>1, <1>2, EdgeSummary DEF AMInv
<1>8. \A e : e = [ op |-> "Request", all |-> { t } ] =>
             /\ e \in TodoItems /\ Valid(e, taskStatus', containerRequests', liveLocators')
             /\ \A j \in 1 .. Len(Rest) : Before(e, Rest[j])
  BY <1>7 DEF Valid, TodoItems, Before, Rank
<1>9. SoundTodo(ForEach("Request", { t }) \o Rest, taskStatus', containerRequests', liveLocators')
  BY <1>6, <1>8, PutEach
<1>10. AMInv'
  BY <1>1, <1>2, <1>9, EdgeStep
<1>11. Withdraw(t)
  BY <1>2 DEF Withdraw
<1>. QED BY <1>10, <1>11 DEF SMStep, SMNext

\* The timeout of a request keeps the invariant and is Withdraw, or nothing.
LEMMA TimeoutKeeps == ASSUME AMInv, DoTimeout PROVE AMInv' /\ SMStep
<1>1. HasWork /\ Work.op = "Timeout" /\ phase = "running"
  BY DEF DoTimeout, Doing, HasWork
<1>2. /\ UNCHANGED << phase, exceed, migrate, releasing, starting, quietVars >>
      /\ IF priorityLocators[Work.priority] # None
         THEN /\ asks' = asks \ RequestsOf({ Work.task })
              /\ Transit(Work.task, "TASK_WAITING", NoEvent, ForEach("Request", { Work.task }), {})
         ELSE Ignore /\ UNCHANGED asks
  BY DEF DoTimeout
<1>3. /\ Work.priority \in Priorities /\ Work.task \in Locators /\ todo = << >>
      /\ priorityLocators[Work.priority] \in { None, Work.task }
  BY <1>1, WorkFacts DEF AMInv, TimerSound
<1>4. asks' \subseteq asks /\ WorkFrame
  BY <1>1, <1>2 DEF WorkFrame, AMInv, AMTypes
<1>5. CASE priorityLocators[Work.priority] = None
  BY <1>1, <1>2, <1>4, <1>5, IgnoreStep
<1>6. CASE priorityLocators[Work.priority] # None
  <2>1. PICK t \in Locators : t = Work.task /\ priorityLocators[Work.priority] = t
    BY <1>3, <1>6
  <2>2. taskStatus[t].state = "CONTAINER_REQUESTED"
    BY <1>3, <2>1, TaskOfRequest
  <2>3. \A p \in asks' : p \in asks /\ p # containerRequests[t]
    BY <1>2, <1>6, <2>1 DEF RequestsOf
  <2>4. \A p \in asks' : p \in asks /\ priorityLocators[p] # t
    BY <2>3, TaskOfRequest DEF AMInv, AMTypes
  <2>5. \A j \in 1 .. Len(Rest) : Rank(Rest[j]) > 1
    BY <1>3 DEF Rest
  <2>6. Transit(t, "TASK_WAITING", NoEvent, ForEach("Request", { t }), {})
    BY <1>2, <1>6, <2>1
  <2>. QED BY <1>1, <1>2, <1>4, <2>2, <2>4, <2>5, <2>6, WithdrawStep
<1>. QED BY <1>5, <1>6

\* The withdrawal of a request whose association failed.
LEMMA WithdrawKeeps == ASSUME AMInv, DoWithdraw PROVE AMInv' /\ SMStep
<1>1. HasWork /\ Work.op = "Withdraw" /\ phase = "running"
  BY DEF DoWithdraw, Doing, HasWork
<1>2. PICK t \in Work.all : Transit(t, "TASK_WAITING", NoEvent, ForEach("Request", { t }), {})
  BY DEF DoWithdraw
<1>3. UNCHANGED << phase, exceed, migrate, asks, releasing, starting, quietVars >>
  BY DEF DoWithdraw
<1>4. t \in Locators /\ taskStatus[t].state = "CONTAINER_REQUESTED" /\ containerRequests[t] = None
  BY <1>1, <1>2, WorkFacts DEF AMInv, Valid
<1>5. \A p \in asks' : p \in asks /\ p \in Priorities /\ priorityLocators[p] # t
  BY <1>3, <1>4, TaskOfRequest, NoneAssumption DEF AMInv, AMTypes
<1>6. \A j \in 1 .. Len(Rest) : Rank(Rest[j]) > 1
  BY <1>1, RestOfTasks DEF Rank
<1>7. WorkFrame
  BY <1>1, <1>3 DEF WorkFrame, AMInv, AMTypes
<1>. QED BY <1>1, <1>2, <1>3, <1>4, <1>5, <1>6, <1>7, WithdrawStep

\* A launch keeps the invariant and is Launch.
LEMMA LaunchKeeps == ASSUME AMInv, DoLaunch PROVE AMInv' /\ SMStep
<1>1. HasWork /\ Work.op = "Launch" /\ phase = "running"
  BY DEF DoLaunch, Doing, HasWork
<1>2. PICK t \in Work.all : /\ starting' = starting \cup { allocated[t] }
                            /\ Transit(t, "CONTAINER_LAUNCHED", NoEvent,
                                       ForEach("Launch", Work.all \ { t }), {})
  BY DEF DoLaunch
<1>3. UNCHANGED << phase, exceed, migrate, asks, releasing, quietVars >>
  BY DEF DoLaunch
<1>4. /\ Work.all \subseteq Locators /\ t \in Locators
      /\ \A u \in Work.all : taskStatus[u].state = "CONTAINER_ALLOCATED"
  BY <1>1, <1>2, WorkFacts DEF AMInv, Valid
<1>5. PICK more \in SUBSET Locators : more = Work.all \ { t }
  BY <1>4
<1>6. allocated[t] = taskStatus[t].container /\ taskStatus[t].container \in Containers
  BY <1>2, <1>4, LiveTask DEF AMInv, IInv, IndexesExact, AllocatedIndexExact, LIVE_STATES
<1>7. LegalEdge(t, "CONTAINER_LAUNCHED", NoEvent) /\ NoEvent \in Events
  BY <1>2, <1>4, EventsAreEvents DEF LegalEdge
<1>8. /\ "CONTAINER_LAUNCHED" \in TaskStates /\ "CONTAINER_LAUNCHED" \in LIVE_STATES
      /\ TransitionTaskState(t, "CONTAINER_LAUNCHED", NoEvent)
  BY <1>2 DEF TaskStates, Transit, LIVE_STATES
<1>9. /\ SoundTodo(Rest, taskStatus, containerRequests, liveLocators)
      /\ \A j \in 1 .. Len(Rest) :
            /\ Rest[j].op \notin { "Request", "Withdraw", "Launch" }
            /\ \A e : e = [ op |-> "Launch", all |-> more ] => Before(e, Rest[j])
  BY <1>1, RestOfTasks DEF Before, Rank
<1>10. SoundTodo(Rest, taskStatus', containerRequests', liveLocators')
  BY <1>2, <1>4, <1>7, <1>8, <1>9, EdgeKeepsRest DEF AMInv
<1>11. \A u \in more : taskStatus'[u].state = "CONTAINER_ALLOCATED"
  BY <1>4, <1>5, <1>7, <1>8, EdgeSummary DEF AMInv
<1>12. \A e : e = [ op |-> "Launch", all |-> more ] =>
              /\ Valid(e, taskStatus', containerRequests', liveLocators')
              /\ more # {} => e \in TodoItems
  BY <1>11 DEF Valid, TodoItems
<1>13. SoundTodo(ForEach("Launch", more) \o Rest, taskStatus', containerRequests', liveLocators')
  BY <1>9, <1>10, <1>12, PutEach
<1>14. WorkFrame
  BY <1>1, <1>2, <1>3, <1>6 DEF WorkFrame, AMInv, AMTypes
<1>15. AMInv'
  BY <1>1, <1>2, <1>3, <1>4, <1>5, <1>6, <1>7, <1>8, <1>13, <1>14, EdgeStep
<1>16. Launch(t)
  BY <1>2, <1>4, <1>8 DEF Launch
<1>. QED BY <1>4, <1>15, <1>16 DEF SMStep, SMNext

\* The start of a container keeps the invariant and is Start, or nothing: it was
\* told of before, or the task is gone.
LEMMA StartedKeeps == ASSUME AMInv, DoStarted PROVE AMInv' /\ SMStep
<1>1. HasWork /\ Work.op = "Started" /\ phase = "running"
  BY DEF DoStarted, Doing, HasWork
<1>2. /\ UNCHANGED << phase, exceed, migrate, asks, releasing, starting, quietVars >>
      /\ IF IsLiveAssociated(Work.container)
         THEN Transit(liveLocators[Work.container], "CONTAINER_RUNNING", NoEvent, <<>>, {})
         ELSE Ignore
  BY DEF DoStarted
<1>3. PICK c \in Containers : c = Work.container
  BY <1>1, WorkFacts DEF AMInv
<1>4. WorkFrame
  BY <1>1, <1>2 DEF WorkFrame, AMInv, AMTypes
<1>5. todo = << >> /\ StartPending(c)
  BY <1>1, <1>3, WorkFacts DEF AMInv, StartPending, StartedIn
<1>6. CASE liveLocators[c] = None
  BY <1>1, <1>2, <1>3, <1>4, <1>6, IgnoreStep DEF IsLiveAssociated
<1>7. CASE liveLocators[c] # None
  <2>1. PICK t \in Locators : t = liveLocators[c]
    BY <1>7 DEF AMInv, IInv, SMTypeOK
  <2>2. taskStatus[t].state \in { "CONTAINER_LAUNCHED", "CONTAINER_RUNNING" }
    BY <1>5, <1>7, <2>1 DEF AMInv, GrantsSound
  <2>3. Transit(t, "CONTAINER_RUNNING", NoEvent, <<>>, {})
    BY <1>2, <1>3, <1>7, <2>1 DEF IsLiveAssociated
  <2>4. TransitionTaskState(t, "CONTAINER_RUNNING", NoEvent) /\ "CONTAINER_RUNNING" \in TaskStates
    BY <2>3 DEF Transit, TaskStates
  <2>5. Len(Rest) = 0 /\ << >> \o Rest = << >>
    BY <1>5 DEF Rest
  <2>6. CASE taskStatus[t].state = "CONTAINER_RUNNING"
    <3>1. UNCHANGED smVars
      BY <2>4, <2>6 DEF TransitionTaskState
    <3>2. UNCHANGED taskStateLocators
      BY <3>1 DEF smVars, extVars
    <3>3. ~Disappears(FALSE) /\ ~Appears(FALSE)
      BY <3>2 DEF Disappears, Appears, Outstanding, TasksIn
    <3>4. Proceed(<< >>, << >>) /\ timers' \subseteq timers
      BY <2>3, <3>3 DEF Transit, ProceedWithCallbacks, Armed
    <3>5. SoundTodo(<< >> \o Rest, taskStatus, containerRequests, liveLocators)
      BY <2>5, NothingLeft
    <3>. QED BY <1>1, <1>2, <1>4, <3>1, <3>4, <3>5, QuietStep DEF AMInv, AMTypes, SMStep
  <2>7. CASE taskStatus[t].state = "CONTAINER_LAUNCHED"
    <3>1. LegalEdge(t, "CONTAINER_RUNNING", NoEvent) /\ NoEvent \in Events
      BY <2>7, EventsAreEvents DEF LegalEdge
    <3>2. SoundTodo(<< >> \o Rest, taskStatus', containerRequests', liveLocators')
      BY <2>5, NothingLeft
    <3>3. AMInv'
      BY <1>1, <1>2, <1>4, <2>3, <2>4, <2>7, <3>1, <3>2, EdgeStep
    <3>4. Start(t)
      BY <2>4, <2>7 DEF Start
    <3>. QED BY <3>3, <3>4 DEF SMStep, SMNext
  <2>. QED BY <2>2, <2>6, <2>7
<1>. QED BY <1>6, <1>7

\* completeContainer keeps the invariant and is CompleteContainer, or nothing.
LEMMA CompleteKeeps == ASSUME AMInv, DoComplete PROVE AMInv' /\ SMStep
<1>1. HasWork /\ Work.op = "Complete" /\ phase = "running"
  BY DEF DoComplete, Doing, HasWork
<1>2. /\ UNCHANGED << phase, exceed, asks, starting, quietVars >>
      /\ releasing' = IF Work.release THEN releasing \cup { Work.container } ELSE releasing
      /\ migrate' = IF Work.why = "migrate" THEN migrate \ { Work.container } ELSE migrate
      /\ IF liveLocators[Work.container] = None THEN Ignore
         ELSE Transit(liveLocators[Work.container], "CONTAINER_COMPLETED",
                      [ NoEvent EXCEPT !.exit = Work.exit ],
                      ForEach("Retry", { liveLocators[Work.container] }), {})
  BY DEF DoComplete
<1>3. PICK c \in Containers, exit \in ExitTypes : c = Work.container /\ exit = Work.exit
  BY <1>1, WorkFacts DEF AMInv, CompletionItems
<1>4. WorkFrame
  BY <1>1, <1>2, <1>3 DEF WorkFrame, AMInv, AMTypes
<1>5. CASE liveLocators[c] = None
  BY <1>1, <1>2, <1>3, <1>4, <1>5, IgnoreStep
<1>6. CASE liveLocators[c] # None
  <2>1. PICK t \in Locators : t = liveLocators[c]
    BY <1>6 DEF AMInv, IInv, SMTypeOK
  <2>2. PICK event \in Events : event = [ NoEvent EXCEPT !.exit = exit ]
    BY EventsAreEvents
  <2>3. taskStatus[t].state \in LIVE_STATES /\ taskStatus[t].container = c
    BY <2>1, LiveTask
  <2>4. Transit(t, "CONTAINER_COMPLETED", event, ForEach("Retry", { t }), {})
    BY <1>2, <1>3, <1>6, <2>1, <2>2
  <2>5. /\ TransitionTaskState(t, "CONTAINER_COMPLETED", event)
        /\ LegalEdge(t, "CONTAINER_COMPLETED", event) /\ "CONTAINER_COMPLETED" \in TaskStates
    BY <2>3, <2>4 DEF Transit, LegalEdge, TaskStates
  <2>6. /\ SoundTodo(Rest, taskStatus, containerRequests, liveLocators)
        /\ \A j \in 1 .. Len(Rest) :
              /\ Rest[j].op \notin { "Request", "Withdraw", "Launch", "Retry" }
              /\ Rank(Rest[j]) > 2
              /\ Rest[j].op = "Missing" => \A d \in Rest[j].all : d \in Containers /\ d # c
    <3>1. /\ SoundTodo(Rest, taskStatus, containerRequests, liveLocators)
          /\ \A j \in 1 .. Len(Rest) : Rest[j] \in TodoItems
      BY <1>1, RestOfTasks DEF SoundTodo
    <3>2. \A j \in 1 .. Len(Rest) : Rest[j].op = "Missing" => Rest[j].all \subseteq Containers
      BY <3>1 DEF TodoItems, CompletionItems
    <3>3. Rank(Work) = 2
      BY <1>1 DEF Rank
    <3>. QED BY <1>1, <1>3, <3>1, <3>2, <3>3, RestOfTasks
  <2>7. \A j \in 1 .. Len(Rest) : Rest[j].op = "Missing" => \A d \in Rest[j].all : liveLocators[d] # t
    BY <2>3, <2>6, LiveTask
  <2>8. SoundTodo(Rest, taskStatus', containerRequests', liveLocators')
    BY <2>5, <2>6, <2>7, EdgeKeepsRest DEF AMInv
  <2>9. taskStatus'[t].state = "CONTAINER_COMPLETED"
    BY <2>5, EdgeSummary DEF AMInv
  <2>10. \A e : e = [ op |-> "Retry", all |-> { t } ] =>
             /\ e \in TodoItems /\ Valid(e, taskStatus', containerRequests', liveLocators')
             /\ \A j \in 1 .. Len(Rest) : Before(e, Rest[j])
    BY <2>6, <2>9 DEF Valid, TodoItems, Before, Rank
  <2>11. SoundTodo(ForEach("Retry", { t }) \o Rest, taskStatus', containerRequests', liveLocators')
    BY <2>8, <2>10, PutEach
  <2>12. taskStatus[t].state # "CONTAINER_REQUESTED"
    BY <2>3 DEF LIVE_STATES
  <2>13. AMInv'
    BY <1>1, <1>2, <1>4, <2>4, <2>5, <2>11, <2>12, EdgeStep
  <2>14. CompleteContainer(t, exit)
    BY <2>2, <2>3, <2>5 DEF CompleteContainer
  <2>. QED BY <2>13, <2>14 DEF SMStep, SMNext
<1>. QED BY <1>5, <1>6

\* A retry decision keeps the invariant and is RetryTask or CompleteTask.
LEMMA RetryKeeps == ASSUME AMInv, DoRetry PROVE AMInv' /\ SMStep
<1>1. HasWork /\ Work.op = "Retry" /\ phase = "running"
  BY DEF DoRetry, Doing, HasWork
<1>2. UNCHANGED << exceed, migrate, asks, releasing, starting, quietVars >>
  BY DEF DoRetry
<1>3. PICK t \in Work.all :
         \/ /\ Transit(t, "TASK_WAITING", [ NoEvent EXCEPT !.retried = taskStatus[t].retried ],
                       ForEach("Request", { t }) \o ForEach("Retry", Work.all \ { t }), {})
            /\ UNCHANGED phase
         \/ /\ taskStatus[t].retried < MaxRetried
            /\ Transit(t, "TASK_WAITING", [ NoEvent EXCEPT !.retried = taskStatus[t].retried + 1 ],
                       ForEach("Request", { t }) \o ForEach("Retry", Work.all \ { t }), {})
            /\ UNCHANGED phase
         \/ /\ Transit(t, "TASK_COMPLETED", NoEvent, ForEach("Retry", Work.all \ { t }), {})
            /\ phase' \in { "stopping", phase }
  BY DEF DoRetry
<1>4. /\ Work.all \subseteq Locators /\ t \in Locators
      /\ \A u \in Work.all : taskStatus[u].state = "CONTAINER_COMPLETED"
      /\ taskStatus[t].state = "CONTAINER_COMPLETED"
  BY <1>1, <1>3, WorkFacts DEF AMInv, Valid
<1>5. PICK more \in SUBSET Locators : more = Work.all \ { t }
  BY <1>4
<1>6. taskStatus[t].retried \in 0 .. MaxRetried /\ MaxRetried \in Nat
  BY <1>4, ConstantsAssumption DEF AMInv, IInv, SMTypeOK, TaskStatuses
<1>7. /\ SoundTodo(Rest, taskStatus, containerRequests, liveLocators)
      /\ \A j \in 1 .. Len(Rest) :
            /\ Rest[j].op \notin { "Request", "Withdraw", "Launch", "Retry" }
            /\ Rank(Rest[j]) > 2
            /\ Rest[j].op = "Missing" => Rest[j].all \subseteq Containers
            /\ \A e : e = [ op |-> "Retry", all |-> more ] => Before(e, Rest[j])
  <2>1. /\ SoundTodo(Rest, taskStatus, containerRequests, liveLocators)
        /\ \A j \in 1 .. Len(Rest) : Rest[j] \in TodoItems
    BY <1>1, RestOfTasks DEF SoundTodo
  <2>2. \A j \in 1 .. Len(Rest) : Rest[j].op = "Missing" => Rest[j].all \subseteq Containers
    BY <2>1 DEF TodoItems, CompletionItems
  <2>3. Rank(Work) = 2
    BY <1>1 DEF Rank
  <2>4. \A j \in 1 .. Len(Rest) : /\ Rank(Rest[j]) > 2
                                  /\ Rest[j].op \notin { "Request", "Withdraw", "Launch", "Retry" }
    BY <1>1, <2>3, RestOfTasks
  <2>. QED BY <2>1, <2>2, <2>4 DEF Before, Rank
<1>8. \A j \in 1 .. Len(Rest) : Rest[j].op = "Missing" => \A c \in Rest[j].all : liveLocators[c] # t
  BY <1>4, <1>7, LiveTask DEF LIVE_STATES
<1>9. ASSUME NEW dst \in TaskStates, NEW event \in Events, LegalEdge(t, dst, event),
             TransitionTaskState(t, dst, event)
      PROVE  /\ SoundTodo(ForEach("Retry", more) \o Rest, taskStatus', containerRequests', liveLocators')
             /\ taskStatus'[t].state = dst
             /\ \A d : Rank(d) = 1 /\ d.op # "Complete" =>
                   \A j \in 1 .. Len(ForEach("Retry", more) \o Rest) :
                       Before(d, (ForEach("Retry", more) \o Rest)[j])
             /\ ForEach("Retry", more) \in Seq(TodoItems)
  <2>1. SoundTodo(Rest, taskStatus', containerRequests', liveLocators')
    <3>1. \A j \in 1 .. Len(Rest) :
             /\ Rest[j].op \notin { "Request", "Withdraw", "Launch" }
             /\ Rest[j].op = "Retry" => taskStatus[t].state # "CONTAINER_COMPLETED"
             /\ Rest[j].op = "Missing" /\ dst \notin LIVE_STATES
                   => \A c \in Rest[j].all : liveLocators[c] # t
      BY <1>7, <1>8
    <3>2. IInv /\ SoundTodo(Rest, taskStatus, containerRequests, liveLocators)
      BY <1>7 DEF AMInv
    <3>. QED BY <1>4, <1>9, <3>1, <3>2, EdgeKeepsRest
  <2>2. taskStatus'[t].state = dst /\ \A u \in more : taskStatus'[u].state = "CONTAINER_COMPLETED"
    BY <1>4, <1>5, <1>9, EdgeSummary DEF AMInv
  <2>3. \A e : e = [ op |-> "Retry", all |-> more ] =>
            /\ Valid(e, taskStatus', containerRequests', liveLocators')
            /\ more # {} => e \in TodoItems
    BY <2>2 DEF Valid, TodoItems
  <2>4. ASSUME NEW d, Rank(d) = 1, d.op # "Complete"
        PROVE  /\ Before(d, [ op |-> "Retry", all |-> more ])
               /\ \A j \in 1 .. Len(Rest) : Before(d, Rest[j])
    <3>1. Rank([ op |-> "Retry", all |-> more ]) = 2
      BY DEF Rank
    <3>2. \A j \in 1 .. Len(Rest) : Rank(Rest[j]) > 2 /\ Rank(Rest[j]) \in Nat
      BY <1>7 DEF Rank
    <3>3. \A j \in 1 .. Len(Rest) : Rank(d) < Rank(Rest[j])
      BY <2>4, <3>2
    <3>. QED BY <2>4, <3>1, <3>3 DEF Before
  <2>. QED BY <1>7, <2>1, <2>2, <2>3, <2>4, PutEach
<1>10. ASSUME NEW count \in 0 .. MaxRetried, UNCHANGED phase,
              Transit(t, "TASK_WAITING", [ NoEvent EXCEPT !.retried = count ],
                      ForEach("Request", { t }) \o ForEach("Retry", more), {})
       PROVE  AMInv' /\ SMStep
  <2>1. PICK event \in Events : event = [ NoEvent EXCEPT !.retried = count ]
    BY EventsAreEvents
  <2>2. /\ TransitionTaskState(t, "TASK_WAITING", event) /\ "TASK_WAITING" \in TaskStates
        /\ LegalEdge(t, "TASK_WAITING", event)
    BY <1>4, <1>10, <2>1 DEF Transit, LegalEdge, TaskStates
  <2>10. /\ taskStatus'[t].state = "TASK_WAITING"
         /\ SoundTodo(ForEach("Retry", more) \o Rest, taskStatus', containerRequests', liveLocators')
         /\ ForEach("Retry", more) \in Seq(TodoItems)
    BY <1>9, <2>2
  <2>3. \A e : e = [ op |-> "Request", all |-> { t } ] =>
            /\ e \in TodoItems /\ Valid(e, taskStatus', containerRequests', liveLocators')
            /\ Rank(e) = 1 /\ e.op # "Complete"
    BY <1>4, <2>10 DEF Valid, TodoItems, Rank
  <2>4. /\ SoundTodo(ForEach("Request", { t }) \o (ForEach("Retry", more) \o Rest),
                     taskStatus', containerRequests', liveLocators')
        /\ ForEach("Request", { t }) \in Seq(TodoItems)
    BY <1>9, <2>2, <2>3, PutEach
  <2>5. (ForEach("Request", { t }) \o ForEach("Retry", more)) \o Rest
            = ForEach("Request", { t }) \o (ForEach("Retry", more) \o Rest)
    <3>1. Rest \in Seq(TodoItems)
      BY <1>7 DEF SoundTodo
    <3>. QED BY <2>4, <2>10, <3>1, Associate, SMTT(60)
  <2>6. WorkFrame
    BY <1>1, <1>2, <1>10 DEF WorkFrame, AMInv, AMTypes
  <2>7. taskStatus[t].state # "CONTAINER_REQUESTED"
    BY <1>4
  <2>8. AMInv'
    BY <1>1, <1>2, <1>4, <1>10, <2>1, <2>2, <2>4, <2>5, <2>6, <2>7, EdgeStep
  <2>9. RetryTask(t, count)
    BY <1>4, <2>1, <2>2 DEF RetryTask
  <2>. QED BY <1>4, <2>8, <2>9 DEF SMStep, SMNext
<1>11. ASSUME Transit(t, "TASK_COMPLETED", NoEvent, ForEach("Retry", more), {}),
              phase' \in { "stopping", phase }
       PROVE  AMInv' /\ SMStep
  <2>1. /\ TransitionTaskState(t, "TASK_COMPLETED", NoEvent) /\ "TASK_COMPLETED" \in TaskStates
        /\ LegalEdge(t, "TASK_COMPLETED", NoEvent) /\ NoEvent \in Events
    BY <1>4, <1>11, EventsAreEvents DEF Transit, LegalEdge, TaskStates
  <2>2. SoundTodo(ForEach("Retry", more) \o Rest, taskStatus', containerRequests', liveLocators')
    BY <1>9, <2>1
  <2>3. WorkFrame
    BY <1>1, <1>2, <1>11 DEF WorkFrame, AMInv, AMTypes
  <2>4. taskStatus[t].state # "CONTAINER_REQUESTED"
    BY <1>4
  <2>5. AMInv'
    BY <1>1, <1>2, <1>4, <1>11, <2>1, <2>2, <2>3, <2>4, EdgeStep
  <2>6. CompleteTask(t)
    BY <1>4, <2>1 DEF CompleteTask
  <2>. QED BY <1>4, <2>5, <2>6 DEF SMStep, SMNext
<1>12. taskStatus[t].retried < MaxRetried => taskStatus[t].retried + 1 \in 0 .. MaxRetried
  BY <1>6
<1>. QED BY <1>3, <1>5, <1>6, <1>10, <1>11, <1>12

\* The association fails: the request is forgotten, and the task is withdrawn next.
LEMMA AssociationFails ==
    ASSUME AMInv, HasWork, NEW t \in Locators, taskStatus[t].state = "CONTAINER_REQUESTED",
           FailToAssociate(t), Proceed(ForEach("Withdraw", { t }), <<>>), todo = << >>,
           timers' = Armed(timers), WorkFrame, starting' = starting,
           \A p \in asks' : p \in asks /\ priorityLocators[p] # t
    PROVE  AMInv' /\ SMStep
<1>1. AllocateFails(t)
  BY DEF AllocateFails
<1>2. SMNext
  BY <1>1 DEF SMNext
<1>3. IInv /\ IInv'
  BY <1>2, NextIInv DEF AMInv
<1>4. /\ UNCHANGED << taskStatus, liveLocators, nextPriority, zkStatus >>
      /\ containerRequests' = [ u \in Locators |-> IF u \in { t } THEN None ELSE containerRequests[u] ]
      /\ priorityLocators' = [ p \in Priorities |->
             IF priorityLocators[p] \in { t } THEN None ELSE priorityLocators[p] ]
  BY DEF FailToAssociate, WithoutRequests, memVars, extVars, zkVars
<1>5. \A e : e = [ op |-> "Withdraw", all |-> { t } ] =>
             e \in TodoItems /\ Valid(e, taskStatus', containerRequests', liveLocators')
  BY <1>4 DEF Valid, TodoItems
<1>6. Len(Rest) = 0 /\ SoundTodo(Rest, taskStatus', containerRequests', liveLocators')
  BY NothingLeft DEF Rest
<1>7. SoundTodo(ForEach("Withdraw", { t }) \o Rest, taskStatus', containerRequests', liveLocators')
  <2>1. \A e : \A j \in 1 .. Len(Rest) : Before(e, Rest[j])
    BY <1>6
  <2>. QED BY <1>5, <1>6, <2>1, PutEach
<1>8. AsksSound'
  BY <1>4 DEF AsksSound, AMInv, WorkFrame
<1>9. \A c \in Containers : Unassociated(c) => Unassociated(c)'
  BY <1>4 DEF Unassociated
<1>10. \A c \in Containers : (StartPending(c) \/ c \in starting') /\ liveLocators'[c] # None =>
         taskStatus'[liveLocators'[c]].state \in { "CONTAINER_LAUNCHED", "CONTAINER_RUNNING" }
  BY <1>4 DEF AMInv, GrantsSound, StartPending
<1>11. nextPriority <= nextPriority'
  BY <1>3, <1>4 DEF IInv, SMTypeOK
<1>12. \A p \in Priorities : priorityLocators'[p] \in { None, priorityLocators[p] }
  BY <1>4
<1>13. timers' \subseteq timers /\ timers' \subseteq TimerItems
  BY DEF Armed, AMInv, AMTypes
<1>14. AMInv'
  BY <1>3, <1>7, <1>8, <1>9, <1>10, <1>11, <1>12, <1>13, StepKeeps
<1>. QED BY <1>2, <1>14 DEF SMStep

\* allocateContainer keeps the invariant and is Allocate, Withdraw or AllocateFails,
\* or nothing when the request is gone.
LEMMA AllocateKeeps == ASSUME AMInv, DoAllocate PROVE AMInv' /\ SMStep
<1>1. HasWork /\ Work.op = "Allocate" /\ phase = "running"
  BY DEF DoAllocate, Doing, HasWork
<1>2. PICK c \in Containers, p \in Priorities : c = Work.container /\ p = Work.priority
  BY <1>1, WorkFacts DEF AMInv
<1>3. UNCHANGED << phase, migrate, starting, quietVars >>
  BY DEF DoAllocate
<1>4. IF priorityLocators[p] = None
      THEN /\ releasing' = releasing \cup { c }
           /\ Ignore
           /\ UNCHANGED << exceed, asks >>
      ELSE
      /\ asks' = asks \ { p }
      /\ \/ /\ releasing' = releasing \cup { c }
            /\ Transit(priorityLocators[p], "TASK_WAITING", NoEvent,
                       ForEach("Request", { priorityLocators[p] }), {})
            /\ UNCHANGED exceed
         \/ /\ Transit(priorityLocators[p], "CONTAINER_ALLOCATED", [ NoEvent EXCEPT !.container = c ],
                       IF Gang THEN <<>> ELSE ForEach("Launch", { priorityLocators[p] }), {})
            /\ exceed' = [ exceed EXCEPT ![c] = 0 ]
            /\ UNCHANGED releasing
         \/ /\ FailToAssociate(priorityLocators[p])
            /\ Proceed(ForEach("Withdraw", { priorityLocators[p] }), <<>>)
            /\ timers' = Armed(timers)
            /\ releasing' = releasing \cup { c }
            /\ UNCHANGED exceed
  BY <1>2, Zenon DEF DoAllocate
<1>5. MaxExceed \in Nat
  BY ApplicationMasterAssumption
<1>6. WorkFrame
  <2>1. asks' \subseteq asks
    BY <1>4
  <2>2. releasing' \subseteq Containers
    BY <1>4 DEF AMInv, AMTypes
  <2>3. exceed' \in [ Containers -> 0 .. MaxExceed ]
    BY <1>4, <1>5 DEF AMInv, AMTypes
  <2>. QED BY <1>1, <1>3, <2>1, <2>2, <2>3 DEF WorkFrame, AMInv, AMTypes
<1>7. /\ todo = << >> /\ GrantPending(c) /\ GrantIn(Work, c)
      /\ Len(Rest) = 0
  BY <1>1, <1>2, WorkFacts DEF AMInv, GrantPending, GrantIn, Rest
<1>8. CASE priorityLocators[p] = None
  BY <1>1, <1>3, <1>4, <1>6, <1>8, IgnoreStep
<1>9. CASE priorityLocators[p] # None
  <2>1. PICK t \in Locators : t = priorityLocators[p]
    BY <1>9 DEF AMInv, IInv, SMTypeOK
  <2>2. taskStatus[t].state = "CONTAINER_REQUESTED" /\ containerRequests[t] = p
    BY <2>1, TaskOfRequest
  <2>3. \A q \in asks' : q \in asks /\ priorityLocators[q] # t
    <3>1. \A q \in asks' : q \in asks /\ q # p /\ q \in Priorities
      BY <1>4, <1>9 DEF AMInv, AMTypes
    <3>. QED BY <2>2, <3>1, TaskOfRequest
  <2>4. starting' = starting
    BY <1>3
  <2>5. CASE Transit(t, "TASK_WAITING", NoEvent, ForEach("Request", { t }), {})
    BY <1>1, <1>6, <1>7, <2>2, <2>3, <2>4, <2>5, WithdrawStep
  <2>6. CASE Transit(t, "CONTAINER_ALLOCATED", [ NoEvent EXCEPT !.container = c ],
                     IF Gang THEN <<>> ELSE ForEach("Launch", { t }), {})
    <3>1. PICK event \in Events : event = [ NoEvent EXCEPT !.container = c ] /\ event.container = c
      BY EventsAreEvents
    <3>2. \A u \in Locators : zkStatus[u].container # c /\ taskStatus[u].container # c
      BY <1>7 DEF AMInv, GrantsSound, Unassociated
    <3>3. /\ LegalEdge(t, "CONTAINER_ALLOCATED", event) /\ "CONTAINER_ALLOCATED" \in TaskStates
          /\ TransitionTaskState(t, "CONTAINER_ALLOCATED", event)
      BY <2>2, <2>6, <3>1, <3>2 DEF LegalEdge, TaskStates, Transit
    <3>4. taskStatus'[t].state = "CONTAINER_ALLOCATED"
      BY <3>3, EdgeSummary DEF AMInv
    <3>5. SoundTodo(Rest, taskStatus', containerRequests', liveLocators') /\ << >> \o Rest = Rest
      BY <1>7, NothingLeft DEF Rest
    <3>6. \A e : e = [ op |-> "Launch", all |-> { t } ] =>
                 e \in TodoItems /\ Valid(e, taskStatus', containerRequests', liveLocators')
      BY <3>4 DEF Valid, TodoItems
    <3>7. SoundTodo(ForEach("Launch", { t }) \o Rest, taskStatus', containerRequests', liveLocators')
      <4>1. \A e : \A j \in 1 .. Len(Rest) : Before(e, Rest[j])
        BY <1>7
      <4>. QED BY <3>5, <3>6, <4>1, PutEach
    <3>8. SoundTodo((IF Gang THEN <<>> ELSE ForEach("Launch", { t })) \o Rest,
                    taskStatus', containerRequests', liveLocators')
      BY <3>5, <3>7
    <3>9. AMInv'
      BY <1>1, <1>6, <1>7, <2>3, <2>4, <2>6, <3>1, <3>3, <3>8, EdgeStep
    <3>10. Allocate(t, c)
      BY <2>2, <3>1, <3>2, <3>3 DEF Allocate
    <3>. QED BY <3>9, <3>10 DEF SMStep, SMNext
  <2>7. CASE /\ FailToAssociate(t) /\ Proceed(ForEach("Withdraw", { t }), <<>>)
             /\ timers' = Armed(timers)
    BY <1>1, <1>6, <1>7, <2>2, <2>3, <2>4, <2>7, AssociationFails
  <2>. QED BY <1>4, <1>9, <2>1, <2>5, <2>6, <2>7
<1>. QED BY <1>8, <1>9

-----------------------------------------------------------------------------
(* Steps that are no edges of a task state *)

\* Parts stay sound where no state, request or live container changes.
LEMMA SameStatesKeepSound ==
    ASSUME NEW w, NEW status, NEW requests, NEW live, SoundTodo(w, status, requests, live),
           NEW status1, \A t \in Locators : status1[t].state = status[t].state
    PROVE  SoundTodo(w, status1, requests, live)
<1>1. ASSUME NEW j \in 1 .. Len(w) PROVE Valid(w[j], status1, requests, live)
  <2>1. w[j] \in TodoItems /\ Valid(w[j], status, requests, live)
    BY DEF SoundTodo
  <2>2. w[j].op \in { "Request", "Launch", "Retry" } => w[j].all \subseteq Locators
    BY <2>1 DEF TodoItems, CompletionItems
  <2>. QED BY <2>1, <2>2 DEF Valid
<1>. QED BY <1>1, StaySound

\* A change of the lost counts.
LEMMA CountStep ==
    ASSUME AMInv, HasWork, NEW then, Proceed(then, << >>), WorkFrame, SMNext,
           NEW count, SetLostCounts(count),
           SoundTodo(then \o Rest, taskStatus, containerRequests, liveLocators),
           timers' \subseteq TimerItems, \A d \in timers' : d \in timers \/ TimerSound(d),
           asks' \subseteq asks, starting' = starting
    PROVE  AMInv' /\ SMStep
<1>1. IInv /\ IInv'
  BY NextIInv DEF AMInv
<1>2. /\ UNCHANGED << containerRequests, priorityLocators, nextPriority, liveLocators, zkStatus >>
      /\ taskStatus' = [ t \in Locators |-> [ taskStatus[t] EXCEPT !.lost = count[t] ] ]
  BY DEF SetLostCounts, extVars, reqVars, zkVars
<1>3. \A t \in Locators : /\ taskStatus'[t].state = taskStatus[t].state
                          /\ taskStatus'[t].container = taskStatus[t].container
  <2>1. \A t \in Locators : taskStatus[t] \in TaskStatuses
    BY <1>1 DEF IInv, SMTypeOK
  <2>. QED BY <1>2, <2>1 DEF TaskStatuses
<1>4. SoundTodo(then \o Rest, taskStatus', containerRequests', liveLocators')
  BY <1>2, <1>3, SameStatesKeepSound
<1>5. nextPriority <= nextPriority'
  BY <1>1, <1>2 DEF IInv, SMTypeOK
<1>6. \A d \in timers' : d \in timers \/ TimerSound(d)'
  BY <1>2 DEF TimerSound
<1>7. AsksSound'
  BY <1>2 DEF AMInv, AsksSound
<1>8. \A c \in Containers : Unassociated(c) => Unassociated(c)'
  BY <1>2, <1>3 DEF Unassociated
<1>9. \A c \in Containers : (StartPending(c) \/ c \in starting') /\ liveLocators'[c] # None =>
         taskStatus'[liveLocators'[c]].state \in { "CONTAINER_LAUNCHED", "CONTAINER_RUNNING" }
  <2>1. \A c \in Containers : liveLocators[c] \in Locators \cup { None }
    BY <1>1 DEF IInv, SMTypeOK
  <2>. QED BY <1>2, <1>3, <2>1 DEF AMInv, GrantsSound, StartPending
<1>10. \A p \in Priorities : priorityLocators'[p] \in { None, priorityLocators[p] }
  BY <1>2
<1>11. AMInv'
  BY <1>1, <1>4, <1>5, <1>6, <1>7, <1>8, <1>9, <1>10, StepKeeps
<1>. QED BY <1>11 DEF SMStep

\* onTaskNumbersUpdated keeps the invariant and is UpdateTaskNumbers.
LEMMA NumbersKeep == ASSUME AMInv, DoNumbers PROVE AMInv' /\ SMStep
<1>1. HasWork /\ Work.op = "Numbers" /\ phase = "running"
  BY DEF DoNumbers, Doing, HasWork
<1>2. PICK n \in [ Roles -> 0 .. MaxTasks ] : n = Work.numbers
  BY <1>1, WorkFacts, ApplicationMasterAssumption DEF AMInv
<1>3. PICK gone \in SUBSET Locators : gone = Removed(n)
  BY DEF Removed
<1>4. /\ UpdateTaskNumbers(n)
      /\ releasing' = releasing \cup ContainersOf(gone)
      /\ asks' = asks \ RequestsOf(gone)
      /\ ProceedWithCallbacks(<< Plain("AllWaiting") >>, ~triggered, {})
      /\ UNCHANGED << phase, exceed, migrate, starting, quietVars >>
  BY <1>2, <1>3 DEF DoNumbers
<1>5. PICK submitted \in { << >>, << Plain("LaunchAll") >> } :
         /\ Proceed(<< Plain("AllWaiting") >>, submitted)
         /\ timers' = Armed(timers \cup {} \cup
                IF Gang /\ Appears(~triggered) THEN { GangTimeout(round) } ELSE {})
  BY <1>4 DEF ProceedWithCallbacks
<1>6. IInv /\ IInv'
  BY <1>4, UpdateTaskNumbersKeepsIInv DEF AMInv
<1>7. SMNext
  BY <1>4 DEF SMNext
<1>8. WorkFrame
  <2>1. releasing' \subseteq Containers /\ asks' \subseteq Priorities
    BY <1>4 DEF ContainersOf, AMInv, AMTypes
  <2>. QED BY <1>1, <1>4, <2>1 DEF WorkFrame, AMInv, AMTypes
<1>9. /\ taskStatus' = [ t \in Locators |->
             IF t \in gone THEN NoTask
             ELSE IF t \in Added(n) THEN NewTask ELSE taskStatus[t] ]
      /\ liveLocators' = [ c \in Containers |->
             IF c \in { d \in Containers : liveLocators[d] \in gone } THEN None ELSE liveLocators[c] ]
      /\ priorityLocators' = [ p \in Priorities |->
             IF priorityLocators[p] \in gone THEN None ELSE priorityLocators[p] ]
      /\ UNCHANGED << nextPriority, zkStatus >>
  BY <1>3, <1>4 DEF UpdateTaskNumbers, ForgetLive, WithoutRequests, zkVars
<1>10. Len(Rest) = 0 /\ SoundTodo(Rest, taskStatus', containerRequests', liveLocators')
  <2>1. Rest = << >>
    BY <1>1, WorkFacts DEF AMInv, Rest
  <2>. QED BY <2>1, NothingLeft
<1>11. SoundTodo(<< Plain("AllWaiting") >> \o Rest, taskStatus', containerRequests', liveLocators')
  <2>1. \A e : \A j \in 1 .. Len(Rest) : Before(e, Rest[j])
    BY <1>10
  <2>2. /\ Plain("AllWaiting") \in TodoItems
        /\ Valid(Plain("AllWaiting"), taskStatus', containerRequests', liveLocators')
    BY DEF Plain, TodoItems, Valid
  <2>. QED BY <1>10, <2>1, <2>2, PutFirst
<1>12. timers' \subseteq TimerItems /\ \A d \in timers' : d \in timers \/ TimerSound(d)'
  <2>1. \A d \in timers' : d \in timers \/ d = GangTimeout(round)
    BY <1>5 DEF Armed
  <2>2. GangTimeout(round) \in TimerItems
    BY <1>6 DEF GangTimeout, TimerItems, IInv, SMTypeOK
  <2>3. ASSUME NEW d, d = GangTimeout(round) PROVE TimerSound(d)'
    BY <2>3 DEF GangTimeout, TimerSound
  <2>. QED BY <2>1, <2>2, <2>3 DEF AMInv, AMTypes
<1>13. nextPriority <= nextPriority'
  BY <1>6, <1>9 DEF IInv, SMTypeOK
<1>14. \A p \in Priorities : priorityLocators'[p] \in { None, priorityLocators[p] }
  BY <1>9
<1>15. AsksSound'
  <2>. SUFFICES ASSUME NEW p \in asks' PROVE priorityLocators'[p] # None
    BY DEF AsksSound
  <2>1. p \in Priorities /\ p \in asks /\ p \notin RequestsOf(gone)
    BY <1>4 DEF AMInv, AMTypes
  <2>2. priorityLocators[p] # None
    BY <2>1 DEF AMInv, AsksSound
  <2>3. priorityLocators[p] \notin gone
    BY <2>1, TaskOfRequest DEF RequestsOf
  <2>. QED BY <1>9, <2>1, <2>2, <2>3
<1>16. \A c \in Containers : Unassociated(c) => Unassociated(c)'
  <2>1. NoTask.container = None /\ NewTask.container = None
    BY DEF NoTask, NewTask
  <2>. QED BY <1>9, <2>1, ConstantsAssumption DEF Unassociated
<1>17. ASSUME NEW c \in Containers, StartPending(c) \/ c \in starting', liveLocators'[c] # None
       PROVE  taskStatus'[liveLocators'[c]].state \in { "CONTAINER_LAUNCHED", "CONTAINER_RUNNING" }
  <2>1. PICK u \in Locators : u = liveLocators[c] /\ u = liveLocators'[c] /\ u \notin gone
    BY <1>9, <1>17 DEF AMInv, IInv, SMTypeOK
  <2>2. StartPending(c)
    BY <1>4, <1>17 DEF StartPending
  <2>3. taskStatus[u].state \in { "CONTAINER_LAUNCHED", "CONTAINER_RUNNING" }
    BY <1>17, <2>1, <2>2, NoneAssumption DEF AMInv, GrantsSound
  <2>4. u \notin Added(n)
    <3>1. ~(u[2] < taskNumber[u[1]]) => taskStatus[u].state = "ABSENT"
      BY <1>6 DEF IInv, StatusesWellFormed, WellFormed
    <3>2. u[2] < taskNumber[u[1]]
      BY <2>3, <3>1
    <3>3. u[2] \in Nat /\ taskNumber[u[1]] \in Nat
      BY <1>6 DEF IInv, SMTypeOK, Locators
    <3>. QED BY <3>2, <3>3 DEF Added
  <2>. QED BY <1>9, <2>1, <2>3, <2>4
<1>18. AMInv'
  <2>1. starting' = starting
    BY <1>4
  <2>. QED BY <2>1, <1>1, <1>5, <1>6, <1>8, <1>11, <1>12, <1>13, <1>14, <1>15, <1>16, <1>17, StepKeeps
<1>. QED BY <1>7, <1>18 DEF SMStep

-----------------------------------------------------------------------------
(* Steps that leave the StatusManager alone, and those that count *)

\* A list of tasks in one state is made into parts of a new system task.
LEMMA ListStep ==
    ASSUME AMInv, HasWork, WorkFrame, UNCHANGED << smVars, timers, asks, starting >>,
           NEW op \in { "Request", "Launch", "Retry" }, NEW ts \in SUBSET Locators,
           Proceed(ForEach(op, ts), << >>),
           \A t \in ts : taskStatus[t].state =
               IF op = "Request" THEN "TASK_WAITING"
               ELSE IF op = "Launch" THEN "CONTAINER_ALLOCATED" ELSE "CONTAINER_COMPLETED",
           \A j \in 1 .. Len(Rest) : Rank(Rest[j]) > 2 \/ (op # "Retry" /\ Rank(Rest[j]) > 1)
    PROVE  AMInv' /\ SMStep
<1>1. SoundTodo(Rest, taskStatus, containerRequests, liveLocators)
  BY RestOfTasks
<1>2. \A e : e = [ op |-> op, all |-> ts ] =>
         /\ ts # {} => e \in TodoItems
         /\ Valid(e, taskStatus, containerRequests, liveLocators)
         /\ \A j \in 1 .. Len(Rest) : Before(e, Rest[j])
  BY DEF TodoItems, Valid, Before, Rank
<1>3. SoundTodo(ForEach(op, ts) \o Rest, taskStatus, containerRequests, liveLocators)
  BY <1>1, <1>2, PutEach
<1>. QED BY <1>3, QuietStep DEF AMInv, AMTypes, SMStep

\* The tasks listed in a state are in this state.
LEMMA ListedTasks ==
    ASSUME AMInv, NEW s \in TaskStates
    PROVE  taskStateLocators[s] \in SUBSET Locators
           /\ \A t \in taskStateLocators[s] : taskStatus[t].state = s
BY DEF AMInv, IInv, IndexesExact, StateIndexExact

\* The tasks that wait are listed.
LEMMA AllWaitingKeeps == ASSUME AMInv, DoAllWaiting PROVE AMInv' /\ SMStep
<1>1. /\ HasWork /\ Work.op = "AllWaiting" /\ phase = "running"
      /\ Proceed(ForEach("Request", WaitingTasks), <<>>)
      /\ UNCHANGED << smVars, timers, phase, exceed, migrate, asks, releasing, starting, quietVars >>
  BY DEF DoAllWaiting, Doing, HasWork
<1>2. WorkFrame
  BY <1>1 DEF WorkFrame, AMInv, AMTypes
<1>3. /\ WaitingTasks \in SUBSET Locators
      /\ \A t \in WaitingTasks : taskStatus[t].state = "TASK_WAITING"
  BY ListedTasks DEF WaitingTasks, TaskStates
<1>4. \A j \in 1 .. Len(Rest) : Rank(Rest[j]) > 1
  BY <1>1, RestOfTasks DEF Rank
<1>. QED BY <1>1, <1>2, <1>3, <1>4, ListStep

\* The delayed request is made if its status is as it was.
LEMMA AgainKeeps == ASSUME AMInv, DoAgain PROVE AMInv' /\ SMStep
<1>1. /\ HasWork /\ Work.op = "Again" /\ phase = "running"
      /\ Proceed(ForEach("Request", IF taskStatus[Work.task] = Work.status THEN { Work.task } ELSE {}),
                 <<>>)
      /\ UNCHANGED << smVars, timers, phase, exceed, migrate, asks, releasing, starting, quietVars >>
  BY DEF DoAgain, Doing, HasWork, ForEach
<1>2. WorkFrame
  BY <1>1 DEF WorkFrame, AMInv, AMTypes
<1>3. todo = << >> /\ Work.task \in Locators /\ Work.status.state = "TASK_WAITING"
  BY <1>1, WorkFacts DEF AMInv, TimerSound
<1> DEFINE ts == IF taskStatus[Work.task] = Work.status THEN { Work.task } ELSE {}
<1>4. ts \in SUBSET Locators /\ \A t \in ts : taskStatus[t].state = "TASK_WAITING"
  <2>1. \A t \in ts : t = Work.task /\ taskStatus[t] = Work.status
    OBVIOUS
  <2>. QED BY <1>3, <2>1
<1>5. \A j \in 1 .. Len(Rest) : Rank(Rest[j]) > 1
  BY <1>3 DEF Rest
<1>. QED BY <1>1, <1>2, <1>4, <1>5, ListStep

\* The allocated tasks are listed, if no task is outstanding.
LEMMA LaunchAllKeeps == ASSUME AMInv, DoLaunchAll PROVE AMInv' /\ SMStep
<1>1. /\ HasWork /\ Work.op = "LaunchAll" /\ phase = "running"
      /\ Proceed(ForEach("Launch", IF Outstanding = {} THEN taskStateLocators["CONTAINER_ALLOCATED"]
                                   ELSE {}), <<>>)
      /\ UNCHANGED << smVars, timers, phase, exceed, migrate, asks, releasing, starting, quietVars >>
  BY DEF DoLaunchAll, Doing, HasWork, ForEach
<1>2. WorkFrame
  BY <1>1 DEF WorkFrame, AMInv, AMTypes
<1> DEFINE ts == IF Outstanding = {} THEN taskStateLocators["CONTAINER_ALLOCATED"] ELSE {}
<1>3. ts \in SUBSET Locators /\ \A t \in ts : taskStatus[t].state = "CONTAINER_ALLOCATED"
  <2>1. \A t \in ts : t \in taskStateLocators["CONTAINER_ALLOCATED"]
    OBVIOUS
  <2>2. /\ taskStateLocators["CONTAINER_ALLOCATED"] \in SUBSET Locators
        /\ \A t \in taskStateLocators["CONTAINER_ALLOCATED"] :
              taskStatus[t].state = "CONTAINER_ALLOCATED"
    BY ListedTasks DEF TaskStates
  <2>. QED BY <2>1, <2>2
<1>4. \A j \in 1 .. Len(Rest) : Rank(Rest[j]) > 1
  BY <1>1, WorkFacts DEF AMInv, Rest
<1>. QED BY <1>1, <1>2, <1>3, <1>4, ListStep

\* The completed containers' tasks are listed.
LEMMA RetryAllKeeps == ASSUME AMInv, DoRetryAll PROVE AMInv' /\ SMStep
<1>1. /\ HasWork /\ Work.op = "RetryAll" /\ phase = "running"
      /\ Proceed(ForEach("Retry", taskStateLocators["CONTAINER_COMPLETED"]), <<>>)
      /\ UNCHANGED << smVars, timers, phase, exceed, migrate, asks, releasing, starting, quietVars >>
  BY DEF DoRetryAll, Doing, HasWork
<1>2. WorkFrame
  BY <1>1 DEF WorkFrame, AMInv, AMTypes
<1>3. PICK ts \in SUBSET Locators :
         /\ ts = taskStateLocators["CONTAINER_COMPLETED"]
         /\ \A t \in ts : taskStatus[t].state = "CONTAINER_COMPLETED"
  BY ListedTasks DEF TaskStates
<1>4. \A j \in 1 .. Len(Rest) : Rank(Rest[j]) > 2
  BY <1>1, WorkFacts DEF AMInv, Rest
<1>. QED BY <1>1, <1>2, <1>3, <1>4, ListStep

\* The timeout of the gang stops the AM or does nothing.
LEMMA GangTimeoutKeeps == ASSUME AMInv, DoGangTimeout PROVE AMInv' /\ SMStep
<1>1. /\ HasWork /\ phase = "running" /\ Ignore /\ phase' \in { "stopping", phase }
      /\ UNCHANGED << exceed, migrate, asks, releasing, starting, quietVars >>
  BY DEF DoGangTimeout, Doing, HasWork
<1>2. WorkFrame
  BY <1>1 DEF WorkFrame, AMInv, AMTypes
<1>. QED BY <1>1, <1>2, IgnoreStep

\* Ranks are numbers.
LEMMA RankIsNumber == \A i : Rank(i) \in Nat
BY DEF Rank

\* A completion is a part of a system task.
LEMMA CompletionIsPart ==
    ASSUME NEW c \in Containers, NEW exit \in ExitTypes, NEW release \in BOOLEAN,
           NEW why \in { "start", "lost", "exceed", "migrate", "completed" },
           NEW status, NEW requests, NEW live
    PROVE  /\ Completion(c, exit, release, why) \in CompletionItems
           /\ Completion(c, exit, release, why) \in TodoItems
           /\ Valid(Completion(c, exit, release, why), status, requests, live)
           /\ Rank(Completion(c, exit, release, why)) = 2
           /\ Completion(c, exit, release, why).container = c
BY DEF Completion, CompletionItems, TodoItems, Valid, Rank

\* A container whose start failed is completed, if it is still a task's.
LEMMA StartFailedKeeps == ASSUME AMInv, DoStartFailed PROVE AMInv' /\ SMStep
<1>1. /\ HasWork /\ Work.op = "StartFailed" /\ phase = "running"
      /\ Proceed(IF IsLiveAssociated(Work.container)
                 THEN << Completion(Work.container, "TRANSIENT_NORMAL", TRUE, "start") >>
                 ELSE <<>>, <<>>)
      /\ UNCHANGED << smVars, timers, phase, exceed, migrate, asks, releasing, starting, quietVars >>
  BY DEF DoStartFailed, Doing, HasWork
<1>2. WorkFrame
  BY <1>1 DEF WorkFrame, AMInv, AMTypes
<1>3. PICK c \in Containers : c = Work.container
  BY <1>1, WorkFacts DEF AMInv
<1>4. /\ SoundTodo(Rest, taskStatus, containerRequests, liveLocators)
      /\ << >> \o Rest = Rest
      /\ \A e : \A j \in 1 .. Len(Rest) : Before(e, Rest[j])
  <2>1. Rest = << >> /\ Len(<< >>) = 0
    BY <1>1, WorkFacts DEF AMInv, Rest
  <2>. QED BY <2>1, NothingLeft
<1>5. PICK e \in TodoItems : /\ e = Completion(c, "TRANSIENT_NORMAL", TRUE, "start")
                             /\ Valid(e, taskStatus, containerRequests, liveLocators)
  <2>1. "TRANSIENT_NORMAL" \in ExitTypes
    BY DEF ExitTypes
  <2>. QED BY <2>1, CompletionIsPart
<1>6. SoundTodo(<< e >> \o Rest, taskStatus, containerRequests, liveLocators)
  BY <1>4, <1>5, PutFirst
<1>7. CASE Proceed(<< e >>, << >>)
  BY <1>1, <1>2, <1>6, <1>7, QuietStep DEF AMInv, AMTypes, SMStep
<1>8. CASE Proceed(<< >>, << >>)
  BY <1>1, <1>2, <1>4, <1>8, QuietStep DEF AMInv, AMTypes, SMStep
<1>. QED BY <1>1, <1>3, <1>5, <1>7, <1>8

\* The parts of a resync.
LEMMA ResyncKeeps == ASSUME AMInv, DoResync PROVE AMInv' /\ SMStep
<1>1. /\ HasWork /\ Work.op = "Resync" /\ phase = "running"
      /\ UNCHANGED << smVars, timers, phase, exceed, migrate, asks, releasing, starting, quietVars >>
  BY DEF DoResync, Doing, HasWork
<1>2. PICK seen \in SUBSET Containers :
         Proceed(ForEach("Seen", seen)
                 \o ForEach("Missing", LiveAssociatedContainers \ seen)
                 \o << Plain("QueueResync") >>, <<>>)
  <2> DEFINE choices == IF "incomplete" \in Faults THEN SUBSET AliveContainers
                        ELSE { AliveContainers }
  <2>1. AliveContainers \subseteq Containers
    BY DEF AliveContainers
  <2>2. \A seen \in choices : seen \in SUBSET Containers
    BY <2>1
  <2>3. \E seen \in choices : Proceed(ForEach("Seen", seen)
                 \o ForEach("Missing", LiveAssociatedContainers \ seen)
                 \o << Plain("QueueResync") >>, <<>>)
    BY DEF DoResync
  <2>. HIDE DEF choices
  <2>. QED BY <2>2, <2>3
<1>3. PICK missing \in SUBSET Containers :
         missing = LiveAssociatedContainers \ seen /\ \A c \in missing : liveLocators[c] # None
  <2>1. \A c \in LiveAssociatedContainers : c \in Containers /\ liveLocators[c] # None
    BY DEF LiveAssociatedContainers, IsLiveAssociated
  <2>2. LiveAssociatedContainers \ seen \in SUBSET Containers
    BY <2>1
  <2>. QED BY <2>1, <2>2
<1>4. WorkFrame
  BY <1>1 DEF WorkFrame, AMInv, AMTypes
<1>5. PICK e \in TodoItems : e = Plain("QueueResync")
  BY DEF Plain, TodoItems
<1>6. Rank(e) = 5 /\ Valid(e, taskStatus, containerRequests, liveLocators) /\ e.op # "Missing"
  BY <1>5 DEF Plain, Rank, Valid
<1>7. Rest = << >>
  BY <1>1, WorkFacts DEF AMInv, Rest
<1>8. /\ SoundTodo(<< e >>, taskStatus, containerRequests, liveLocators)
      /\ \A d : Before(d, e) => \A j \in 1 .. Len(<< e >>) : Before(d, << e >>[j])
  <2>1. << >> \in Seq(TodoItems) /\ Len(<< >>) = 0 /\ << e >> \o << >> = << e >>
    OBVIOUS
  <2>2. \A d : \A j \in 1 .. Len(<< >>) : Before(d, << >>[j])
    BY <2>1
  <2>. QED BY <1>6, <2>1, <2>2, NothingLeft, PutFirst
<1>9. \A d : d = [ op |-> "Missing", all |-> missing ] =>
         /\ missing # {} => d \in TodoItems
         /\ Valid(d, taskStatus, containerRequests, liveLocators)
         /\ Before(d, e)
  BY <1>3, <1>6 DEF TodoItems, Valid, Before, Rank
<1>10. /\ SoundTodo(ForEach("Missing", missing) \o << e >>, taskStatus, containerRequests, liveLocators)
       /\ ForEach("Missing", missing) \in Seq(TodoItems)
       /\ \A d : Before(d, [ op |-> "Missing", all |-> missing ]) /\ Before(d, e) =>
             \A j \in 1 .. Len(ForEach("Missing", missing) \o << e >>) :
                 Before(d, (ForEach("Missing", missing) \o << e >>)[j])
  BY <1>8, <1>9, PutEach
<1>11. \A d : d = [ op |-> "Seen", all |-> seen ] =>
         /\ seen # {} => d \in TodoItems
         /\ Valid(d, taskStatus, containerRequests, liveLocators)
         /\ Before(d, e) /\ Before(d, [ op |-> "Missing", all |-> missing ])
  BY <1>6 DEF TodoItems, Valid, Before, Rank
<1>12. /\ SoundTodo(ForEach("Seen", seen) \o (ForEach("Missing", missing) \o << e >>),
                    taskStatus, containerRequests, liveLocators)
       /\ ForEach("Seen", seen) \in Seq(TodoItems)
  BY <1>10, <1>11, PutEach
<1>13. PICK then \in Seq(TodoItems) :
          /\ then = ForEach("Seen", seen) \o (ForEach("Missing", missing) \o << e >>)
          /\ then \o Rest = then
  <2>1. << e >> \in Seq(TodoItems)
    OBVIOUS
  <2>2. ForEach("Missing", missing) \o << e >> \in Seq(TodoItems)
    BY <1>10 DEF SoundTodo
  <2>3. ForEach("Seen", seen) \o (ForEach("Missing", missing) \o << e >>) \in Seq(TodoItems)
    BY <1>12 DEF SoundTodo
  <2>. QED BY <1>7, <2>3, Unchanged
<1>14. then = ForEach("Seen", seen) \o ForEach("Missing", missing) \o << e >>
  <2>1. << e >> \in Seq(TodoItems)
    OBVIOUS
  <2>. QED BY <1>10, <1>12, <1>13, <2>1, Associate
<1>15. Proceed(then, << >>)
  BY <1>2, <1>3, <1>5, <1>14
<1>16. SoundTodo(then \o Rest, taskStatus, containerRequests, liveLocators)
  BY <1>12, <1>13
<1>. QED BY <1>1, <1>4, <1>15, <1>16, QuietStep DEF AMInv, AMTypes, SMStep

\* The next resync is armed.
LEMMA QueueResyncKeeps == ASSUME AMInv, DoQueueResync PROVE AMInv' /\ SMStep
<1>1. /\ HasWork /\ phase = "running"
      /\ timers' = timers \cup { Plain("Resync") } /\ Proceed(<<>>, <<>>)
      /\ UNCHANGED << smVars, phase, exceed, migrate, asks, releasing, starting, quietVars >>
  BY DEF DoQueueResync, Doing, HasWork
<1>2. WorkFrame
  BY <1>1 DEF WorkFrame, AMInv, AMTypes
<1>3. SoundTodo(Rest, taskStatus, containerRequests, liveLocators) /\ << >> \o Rest = Rest
  BY <1>1, RestOfTasks, Unchanged DEF SoundTodo
<1>4. Plain("Resync") \in TimerItems /\ TimerSound(Plain("Resync"))
  BY DEF Plain, TimerItems, TimerSound
<1>. QED BY <1>1, <1>2, <1>3, <1>4, QuietStep DEF AMInv, AMTypes, SMStep

\* Resetting lost counts is Find.
LEMMA ResetIsFind ==
    ASSUME NEW cs \in SUBSET Containers, cs \subseteq LiveAssociatedContainers, ResetLostCount(cs)
    PROVE  SMNext /\ \E count : SetLostCounts(count)
BY DEF ResetLostCount, Find, SMNext

\* A resync that fails only resets the lost counts.
LEMMA ResyncFailsKeeps == ASSUME AMInv, DoResyncFails PROVE AMInv' /\ SMStep
<1>1. /\ HasWork /\ Work.op = "Resync" /\ phase = "running"
      /\ ResetLostCount(LiveAssociatedContainers) /\ Proceed(<<>>, <<>>)
      /\ timers' = timers \cup { Plain("Resync") }
      /\ UNCHANGED << phase, exceed, migrate, asks, releasing, starting, quietVars >>
  BY DEF DoResyncFails, Doing, HasWork
<1>2. WorkFrame
  BY <1>1 DEF WorkFrame, AMInv, AMTypes
<1>3. SoundTodo(Rest, taskStatus, containerRequests, liveLocators) /\ << >> \o Rest = Rest
  BY <1>1, RestOfTasks, Unchanged DEF SoundTodo
<1>4. Plain("Resync") \in TimerItems /\ TimerSound(Plain("Resync"))
  BY DEF Plain, TimerItems, TimerSound
<1>5. PICK count : SetLostCounts(count) /\ SMNext
  BY <1>1, ResetIsFind DEF LiveAssociatedContainers
<1>. QED BY <1>1, <1>2, <1>3, <1>4, <1>5, CountStep DEF AMInv, AMTypes

\* What may come after a completion.
LEMMA CompletionBefore ==
    ASSUME NEW e, Rank(e) = 2, NEW i, Rank(i) > 2,
           i.op = "Missing" => e.container \notin i.all
    PROVE  Before(e, i)
<1>1. Rank(e) < Rank(i)
  BY RankIsNumber
<1>. QED BY <1>1 DEF Before

\* Parts that come after one.
LEMMA RankAfter ==
    ASSUME NEW i, NEW j, Before(i, j), NEW n \in Nat, Rank(i) >= n
    PROVE  Rank(j) > n
<1>1. Rank(i) < Rank(j) /\ Rank(i) \in Nat /\ Rank(j) \in Nat
  BY RankIsNumber DEF Before
<1>. QED BY <1>1

\* A container the RM still has: its task is found, or it is counted and, in the
\* end, completed.
LEMMA SeenKeeps == ASSUME AMInv, DoSeen PROVE AMInv' /\ SMStep
<1>1. /\ HasWork /\ Work.op = "Seen" /\ phase = "running"
      /\ UNCHANGED << timers, phase, migrate, asks, releasing, starting, quietVars >>
  BY DEF DoSeen, Doing, HasWork
<1>2. PICK c \in Work.all :
         \/ /\ IsLiveAssociated(c)
            /\ ResetLostCount({ c })
            /\ Proceed(ForEach("Seen", Work.all \ { c }), << >>)
            /\ UNCHANGED exceed
         \/ /\ ~IsLiveAssociated(c) /\ UNCHANGED smVars
            /\ exceed' = [ exceed EXCEPT ![c] = 0 ]
            /\ Proceed(<< Completion(c, "NON_TRANSIENT", TRUE, "exceed") >>
                           \o ForEach("Seen", Work.all \ { c }), <<>>)
         \/ /\ ~IsLiveAssociated(c) /\ UNCHANGED smVars
            /\ ~(exceed[c] + 1 > MaxExceed) /\ exceed' = [ exceed EXCEPT ![c] = @ + 1 ]
            /\ Proceed(ForEach("Seen", Work.all \ { c }), <<>>)
  BY Zenon DEF DoSeen
<1>3. Work.all \subseteq Containers /\ c \in Containers
  BY <1>1, <1>2, WorkFacts DEF AMInv
<1>4. PICK more \in SUBSET Containers : more = Work.all \ { c }
  BY <1>3
<1>5. /\ SoundTodo(Rest, taskStatus, containerRequests, liveLocators)
      /\ \A j \in 1 .. Len(Rest) : Before(Work, Rest[j])
  BY <1>1, WorkFacts DEF AMInv
<1>6. \A e : e = [ op |-> "Seen", all |-> more ] =>
         /\ more # {} => e \in TodoItems
         /\ Valid(e, taskStatus, containerRequests, liveLocators)
         /\ \A j \in 1 .. Len(Rest) : Before(e, Rest[j])
  BY <1>1, <1>5 DEF TodoItems, Valid, Before, Rank
<1>7. /\ SoundTodo(ForEach("Seen", more) \o Rest, taskStatus, containerRequests, liveLocators)
      /\ ForEach("Seen", more) \in Seq(TodoItems)
      /\ \A d : Before(d, [ op |-> "Seen", all |-> more ]) /\ (\A j \in 1 .. Len(Rest) : Before(d, Rest[j]))
            => \A j \in 1 .. Len(ForEach("Seen", more) \o Rest) :
                   Before(d, (ForEach("Seen", more) \o Rest)[j])
  BY <1>5, <1>6, PutEach
<1>8. timers' \subseteq TimerItems /\ timers' = timers /\ asks' \subseteq asks /\ starting' = starting
  BY <1>1 DEF AMInv, AMTypes
<1>9. exceed \in [ Containers -> 0 .. MaxExceed ] /\ MaxExceed \in Nat
  BY ApplicationMasterAssumption DEF AMInv, AMTypes
<1>10. CASE /\ IsLiveAssociated(c)
            /\ ResetLostCount({ c })
            /\ Proceed(ForEach("Seen", more), << >>)
            /\ UNCHANGED exceed
  <2>1. PICK count : SetLostCounts(count) /\ SMNext
    BY <1>3, <1>10, ResetIsFind DEF LiveAssociatedContainers
  <2>2. WorkFrame
    BY <1>1, <1>10 DEF WorkFrame, AMInv, AMTypes
  <2>. QED BY <1>1, <1>7, <1>8, <1>10, <2>1, <2>2, CountStep
<1>11. CASE /\ ~IsLiveAssociated(c) /\ UNCHANGED smVars
            /\ exceed' = [ exceed EXCEPT ![c] = 0 ]
            /\ Proceed(<< Completion(c, "NON_TRANSIENT", TRUE, "exceed") >> \o ForEach("Seen", more), <<>>)
  <2>1. PICK e \in TodoItems : /\ e = Completion(c, "NON_TRANSIENT", TRUE, "exceed")
                               /\ Valid(e, taskStatus, containerRequests, liveLocators)
                               /\ Rank(e) = 2 /\ e.container = c
    <3>1. "NON_TRANSIENT" \in ExitTypes
      BY DEF ExitTypes
    <3>. QED BY <1>3, <3>1, CompletionIsPart, ZenonT(60)
  <2>2. \A j \in 1 .. Len(Rest) : Before(e, Rest[j])
    <3>1. \A j \in 1 .. Len(Rest) : Valid(Rest[j], taskStatus, containerRequests, liveLocators)
      BY <1>5 DEF SoundTodo
    <3>2. \A j \in 1 .. Len(Rest) : Rest[j].op = "Missing" => c \notin Rest[j].all
      BY <1>11, <3>1 DEF Valid, IsLiveAssociated
    <3>3. Rank(Work) >= 2
      BY <1>1 DEF Rank
    <3>4. \A j \in 1 .. Len(Rest) : Rank(Rest[j]) > 2
      BY <1>5, <3>3, RankAfter
    <3>. QED BY <2>1, <3>2, <3>4, CompletionBefore
  <2>3. Before(e, [ op |-> "Seen", all |-> more ])
    <3>1. PICK d : d = [ op |-> "Seen", all |-> more ]
      OBVIOUS
    <3>2. Rank(d) > 2 /\ (d.op = "Missing" => e.container \notin d.all)
      BY <1>4, <2>1, <3>1 DEF Rank
    <3>. QED BY <2>1, <3>1, <3>2, CompletionBefore
  <2>4. SoundTodo(<< e >> \o (ForEach("Seen", more) \o Rest), taskStatus, containerRequests, liveLocators)
    BY <1>7, <2>1, <2>2, <2>3, PutFirst
  <2>5. (<< e >> \o ForEach("Seen", more)) \o Rest = << e >> \o (ForEach("Seen", more) \o Rest)
    <3>1. << e >> \in Seq(TodoItems) /\ Rest \in Seq(TodoItems)
      BY <1>5 DEF SoundTodo
    <3>. QED BY <1>7, <3>1, Associate
  <2>6. WorkFrame
    <3>1. 0 \in 0 .. MaxExceed
      BY <1>9
    <3>2. exceed' \in [ Containers -> 0 .. MaxExceed ]
      BY <1>9, <1>11, <3>1
    <3>. QED BY <1>1, <3>2 DEF WorkFrame, AMInv, AMTypes
  <2>7. Proceed(<< e >> \o ForEach("Seen", more), <<>>)
    BY <1>11, <2>1
  <2>. QED BY <1>1, <1>8, <1>11, <2>4, <2>5, <2>6, <2>7, QuietStep DEF SMStep
<1>12. CASE /\ UNCHANGED smVars
            /\ ~(exceed[c] + 1 > MaxExceed) /\ exceed' = [ exceed EXCEPT ![c] = @ + 1 ]
            /\ Proceed(ForEach("Seen", more), <<>>)
  <2>1. exceed[c] + 1 \in 0 .. MaxExceed
    BY <1>3, <1>9, <1>12
  <2>2. exceed' \in [ Containers -> 0 .. MaxExceed ]
    BY <1>3, <1>9, <1>12, <2>1
  <2>3. WorkFrame
    BY <1>1, <2>2 DEF WorkFrame, AMInv, AMTypes
  <2>. QED BY <1>1, <1>7, <1>8, <1>12, <2>3, QuietStep DEF SMStep
<1>. QED BY <1>2, <1>4, <1>10, <1>11, <1>12

\* A container the RM does not know is counted as lost and, in the end, completed.
LEMMA MissingKeeps == ASSUME AMInv, DoMissing PROVE AMInv' /\ SMStep
<1>1. /\ HasWork /\ Work.op = "Missing" /\ phase = "running"
      /\ UNCHANGED << timers, phase, exceed, migrate, asks, releasing, starting, quietVars >>
  BY DEF DoMissing, Doing, HasWork
<1>2. PICK c \in Work.all :
         /\ taskStatus[liveLocators[c]].lost < LostBound
         /\ IncreaseLostCount(c)
         /\ \/ Proceed(<< Completion(c, "TRANSIENT_NORMAL", TRUE, "lost") >>
                           \o ForEach("Missing", Work.all \ { c }), <<>>)
            \/ Proceed(ForEach("Missing", Work.all \ { c }), <<>>)
  BY DEF DoMissing
<1>3. /\ Work.all \subseteq Containers /\ c \in Containers
      /\ \A d \in Work.all : liveLocators[d] # None
  BY <1>1, <1>2, WorkFacts DEF AMInv, Valid
<1>4. PICK more \in SUBSET Containers : more = Work.all \ { c }
  BY <1>3
<1>5. /\ SoundTodo(Rest, taskStatus, containerRequests, liveLocators)
      /\ \A j \in 1 .. Len(Rest) : Before(Work, Rest[j])
  BY <1>1, WorkFacts DEF AMInv
<1>6. \A e : e = [ op |-> "Missing", all |-> more ] =>
         /\ more # {} => e \in TodoItems
         /\ Valid(e, taskStatus, containerRequests, liveLocators)
         /\ \A j \in 1 .. Len(Rest) : Before(e, Rest[j])
  BY <1>1, <1>3, <1>4, <1>5 DEF TodoItems, Valid, Before, Rank
<1>7. /\ SoundTodo(ForEach("Missing", more) \o Rest, taskStatus, containerRequests, liveLocators)
      /\ ForEach("Missing", more) \in Seq(TodoItems)
      /\ \A d : Before(d, [ op |-> "Missing", all |-> more ])
                /\ (\A j \in 1 .. Len(Rest) : Before(d, Rest[j]))
            => \A j \in 1 .. Len(ForEach("Missing", more) \o Rest) :
                   Before(d, (ForEach("Missing", more) \o Rest)[j])
  BY <1>5, <1>6, PutEach
<1>8. timers' \subseteq TimerItems /\ timers' = timers /\ asks' \subseteq asks /\ starting' = starting
  BY <1>1 DEF AMInv, AMTypes
<1>9. WorkFrame
  BY <1>1 DEF WorkFrame, AMInv, AMTypes
<1>10. SMNext /\ \E count : SetLostCounts(count)
  BY <1>2, <1>3 DEF SMNext, Lose, IsLiveAssociated, IncreaseLostCount
<1>11. CASE Proceed(<< Completion(c, "TRANSIENT_NORMAL", TRUE, "lost") >> \o ForEach("Missing", more), <<>>)
  <2>1. PICK e \in TodoItems : /\ e = Completion(c, "TRANSIENT_NORMAL", TRUE, "lost")
                               /\ Valid(e, taskStatus, containerRequests, liveLocators)
                               /\ Rank(e) = 2 /\ e.container = c
    <3>1. "TRANSIENT_NORMAL" \in ExitTypes
      BY DEF ExitTypes
    <3>2. c \in Containers /\ "lost" \in { "start", "lost", "exceed", "migrate", "completed" }
          /\ TRUE \in BOOLEAN
      BY <1>3
    <3>3. LET d == Completion(c, "TRANSIENT_NORMAL", TRUE, "lost") IN
          /\ d \in TodoItems /\ Valid(d, taskStatus, containerRequests, liveLocators)
          /\ Rank(d) = 2 /\ d.container = c
      BY <3>1, <3>2, CompletionIsPart
    <3>. QED BY <3>3
  <2>2. \A j \in 1 .. Len(Rest) : Before(e, Rest[j])
    <3>1. Rank(Work) >= 4
      BY <1>1 DEF Rank
    <3>2. \A j \in 1 .. Len(Rest) : Rank(Rest[j]) > 4
      BY <1>5, <3>1, RankAfter
    <3>3. \A i : Rank(i) > 4 => Rank(i) > 2 /\ i.op # "Missing"
      BY DEF Rank
    <3>. QED BY <2>1, <3>2, <3>3, CompletionBefore
  <2>3. Before(e, [ op |-> "Missing", all |-> more ])
    <3>1. PICK d : d = [ op |-> "Missing", all |-> more ]
      OBVIOUS
    <3>2. d.op = "Missing" /\ d.all = more
      BY <3>1
    <3>3. Rank(d) > 2
      BY <3>2 DEF Rank
    <3>4. e.container \notin d.all
      BY <1>4, <2>1, <3>2
    <3>. QED BY <2>1, <3>1, <3>3, <3>4, CompletionBefore
  <2>4. SoundTodo(<< e >> \o (ForEach("Missing", more) \o Rest), taskStatus, containerRequests, liveLocators)
    BY <1>7, <2>1, <2>2, <2>3, PutFirst
  <2>5. (<< e >> \o ForEach("Missing", more)) \o Rest = << e >> \o (ForEach("Missing", more) \o Rest)
    <3>1. << e >> \in Seq(TodoItems) /\ Rest \in Seq(TodoItems)
      BY <1>5 DEF SoundTodo
    <3>. QED BY <1>7, <3>1, Associate
  <2>6. Proceed(<< e >> \o ForEach("Missing", more), <<>>)
    BY <1>11, <2>1
  <2>. QED BY <1>1, <1>8, <1>9, <1>10, <2>4, <2>5, <2>6, CountStep
<1>12. CASE Proceed(ForEach("Missing", more), <<>>)
  BY <1>1, <1>7, <1>8, <1>9, <1>10, <1>12, CountStep
<1>. QED BY <1>2, <1>4, <1>11, <1>12

\* Every step of the system tasks keeps the invariant and is one method of the
\* StatusManager, or none.
LEMMA WorkerKeeps == ASSUME AMInv, WorkerStep PROVE AMInv' /\ SMStep
BY AllWaitingKeeps, RequestKeeps, AgainKeeps, TimeoutKeeps, AllocateKeeps, WithdrawKeeps,
   LaunchKeeps, LaunchAllKeeps, GangTimeoutKeeps, StartedKeeps, StartFailedKeeps,
   CompleteKeeps, RetryAllKeeps, RetryKeeps, NumbersKeep, ResyncFailsKeeps, ResyncKeeps,
   SeenKeeps, MissingKeeps, QueueResyncKeeps DEF WorkerStep

-----------------------------------------------------------------------------
(* The queue, the users and the containers *)

\* A step that leaves the StatusManager and the running system task alone.
LEMMA OutsideStep ==
    ASSUME AMInv, UNCHANGED << smVars, todo >>, AMTypes', timers' \subseteq timers,
           asks' \subseteq asks,
           \A i \in 1 .. Len(queue') : TimerSound(queue'[i]), GrantsSound'
    PROVE  AMInv' /\ SMStep
<1>1. /\ UNCHANGED << taskStatus, containerRequests, priorityLocators, nextPriority >>
      /\ UNCHANGED << liveLocators, todo >>
  BY DEF smVars, memVars, extVars, reqVars
<1>2. IInv'
  BY NextIInv DEF AMInv
<1>3. TodoSound' /\ AsksSound'
  BY <1>1 DEF AMInv, TodoSound, AsksSound
<1>4. TimersSound'
  <2>1. \A d \in timers' : TimerSound(d)'
    BY <1>1 DEF AMInv, TimersSound, TimerSound
  <2>2. \A i \in 1 .. Len(queue') : TimerSound(queue[i])'
    BY <1>1 DEF TimerSound
  <2>. QED BY <2>1, <2>2 DEF TimersSound
<1>. QED BY <1>2, <1>3, <1>4 DEF AMInv, SMStep

\* Messages that tell of no grant, and of a start only where it was on its way.
LEMMA GrantsUntouched ==
    ASSUME AMInv, UNCHANGED << taskStatus, zkStatus, liveLocators >>,
           \A c \in Containers : container'[c] = "free" => container[c] = "free",
           \A i \in 1 .. Len(queue') :
               \/ i \in 1 .. Len(queue) /\ queue'[i] = queue[i]
               \/ queue'[i].op \notin { "Allocate", "Started" },
           \A n \in inbox' : \/ n \in inbox \/ n.op \notin { "Allocate", "Started" }
                             \/ n.op = "Started" /\ n.container \in starting,
           starting' \subseteq starting
    PROVE  GrantsSound'
<1>1. ASSUME NEW c \in Containers
      PROVE  /\ GrantPending(c)' => GrantPending(c)
             /\ StartPending(c)' => StartPending(c)
             /\ Unassociated(c) => Unassociated(c)'
  BY DEF GrantPending, StartPending, GrantIn, StartedIn, Unassociated
<1>2. ASSUME NEW c \in Containers
      PROVE  /\ \A n \in inbox' : GrantIn(n, c) => n \in inbox
             /\ \A i \in 1 .. Len(queue') : GrantIn(queue'[i], c) =>
                   i \in 1 .. Len(queue) /\ queue'[i] = queue[i]
  BY DEF GrantIn
<1>3. ASSUME NEW c \in Containers
      PROVE  /\ container'[c] = "free" \/ GrantPending(c)' => Unassociated(c)' /\ ~StartPending(c)'
             /\ container'[c] = "free" => ~GrantPending(c)'
  BY <1>1 DEF AMInv, GrantsSound
<1>4. ASSUME NEW c \in Containers
      PROVE  /\ \A m, n \in inbox' : GrantIn(m, c) /\ GrantIn(n, c) => m = n
             /\ \A i, j \in 1 .. Len(queue') : GrantIn(queue'[i], c) /\ GrantIn(queue'[j], c) => i = j
             /\ \A n \in inbox', i \in 1 .. Len(queue') : ~(GrantIn(n, c) /\ GrantIn(queue'[i], c))
  BY <1>2 DEF AMInv, GrantsSound
<1>5. ASSUME NEW c \in Containers, StartPending(c)', liveLocators'[c] # None
      PROVE  taskStatus'[liveLocators'[c]].state \in { "CONTAINER_LAUNCHED", "CONTAINER_RUNNING" }
  BY <1>1, <1>5 DEF AMInv, GrantsSound
<1>. QED BY <1>3, <1>4, <1>5 DEF GrantsSound

\* What is unchanged with the StatusManager.
LEMMA SMUnchanged ==
    ASSUME UNCHANGED smVars
    PROVE  /\ UNCHANGED << taskStatus, zkStatus, liveLocators, priorityLocators, nextPriority >>
           /\ UNCHANGED << taskNumber, zkNumber, liveHosts, containerRequests >>
BY DEF smVars, memVars, extVars, reqVars, zkVars

\* A delayed system task comes due.
LEMMA FireKeeps == ASSUME AMInv, NEW d \in timers, Fire(d) PROVE AMInv' /\ SMStep
<1>1. /\ phase = "running" /\ timers' = timers \ { d } /\ queue' = Append(queue, d)
      /\ UNCHANGED << smVars, phase, todo, exceed, numbers, migrate, notified, envVars, cntVars >>
  BY DEF Fire, HasRoom
<1>2. PICK e \in QueueItems : e = d /\ e \in TimerItems /\ TimerSound(e)
  BY DEF AMInv, AMTypes, TimersSound, QueueItems
<1>3. queue \in Seq(QueueItems)
  BY DEF AMInv, AMTypes
<1>4. PICK q \in Seq(QueueItems) :
         /\ q = queue' /\ Len(queue) \in Nat /\ Len(q) = Len(queue) + 1
         /\ \A i \in 1 .. Len(q) : (i \in 1 .. Len(queue) /\ q[i] = queue[i]) \/ q[i] = e
  BY <1>1, <1>2, <1>3
<1>5. AMTypes'
  BY <1>1, <1>4 DEF AMInv, AMTypes, envVars, cntVars
<1>6. \A i \in 1 .. Len(queue') : TimerSound(queue'[i])
  BY <1>2, <1>4 DEF AMInv, TimersSound
<1>7. e.op \notin { "Allocate", "Started" }
  BY <1>2 DEF TimerItems
<1>8. GrantsSound'
  BY <1>1, <1>4, <1>7, SMUnchanged, GrantsUntouched DEF envVars
<1>. QED BY <1>1, <1>5, <1>6, <1>8, OutsideStep DEF envVars

\* The user's task numbers are pulled.
LEMMA PullNumbersKeeps == ASSUME AMInv, PullNumbers PROVE AMInv' /\ SMStep
<1>1. /\ phase = "running" /\ userOps < MaxUserOps /\ userOps' = userOps + 1
      /\ UNCHANGED << smVars, phase, todo, timers, exceed, migrate, notified, envVars, crashes >>
  BY DEF PullNumbers, HasRoom
<1>2. PICK n \in Numbers : numbers' = n /\ queue' = Append(queue, NumbersTo(n))
  BY DEF PullNumbers
<1>3. PICK e \in QueueItems : e = NumbersTo(n) /\ e.op = "Numbers"
  BY <1>2 DEF NumbersTo, QueueItems
<1>4. queue \in Seq(QueueItems)
  BY DEF AMInv, AMTypes
<1>5. PICK q \in Seq(QueueItems) :
         /\ q = queue' /\ Len(queue) \in Nat /\ Len(q) = Len(queue) + 1
         /\ \A i \in 1 .. Len(q) : (i \in 1 .. Len(queue) /\ q[i] = queue[i]) \/ q[i] = e
  BY <1>2, <1>3, <1>4
<1>6. userOps + 1 \in 0 .. MaxUserOps
  BY <1>1, ApplicationMasterAssumption DEF AMInv, AMTypes
<1>7. AMTypes'
  BY <1>1, <1>2, <1>5, <1>6 DEF AMInv, AMTypes, envVars
<1>8. \A i \in 1 .. Len(queue') : TimerSound(queue'[i])
  BY <1>3, <1>5 DEF AMInv, TimersSound, TimerSound
<1>9. GrantsSound'
  BY <1>1, <1>3, <1>5, SMUnchanged, GrantsUntouched DEF envVars
<1>. QED BY <1>1, <1>7, <1>8, <1>9, OutsideStep DEF envVars

\* A user asks to migrate a live task.
LEMMA AskMigrateKeeps == ASSUME AMInv, AskMigrate PROVE AMInv' /\ SMStep
<1>1. /\ userOps < MaxUserOps /\ userOps' = userOps + 1
      /\ UNCHANGED << smVars, phase, queue, todo, timers, exceed, numbers, notified, envVars, crashes >>
  BY DEF AskMigrate
<1>2. PICK t \in Locators : /\ zkStatus[t].state \in LIVE_STATES
                            /\ migrate' = migrate \cup { zkStatus[t].container }
  BY DEF AskMigrate
<1>3. zkStatus[t].container \in Containers
  BY <1>2 DEF AMInv, IInv, SMTypeOK, StatusesWellFormed, WellFormed, TaskStatuses, ASSOCIATED_STATES
<1>4. migrate' \subseteq Containers /\ IsFiniteSet(migrate')
  BY <1>2, <1>3, FS_AddElement DEF AMInv, AMTypes
<1>5. userOps + 1 \in 0 .. MaxUserOps
  BY <1>1, ApplicationMasterAssumption DEF AMInv, AMTypes
<1>6. AMTypes'
  BY <1>1, <1>4, <1>5 DEF AMInv, AMTypes, envVars
<1>7. \A i \in 1 .. Len(queue') : TimerSound(queue'[i])
  BY <1>1 DEF AMInv, TimersSound
<1>8. GrantsSound'
  BY <1>1, SMUnchanged, GrantsUntouched DEF envVars
<1>. QED BY <1>1, <1>6, <1>7, <1>8, OutsideStep DEF envVars

\* Elements indexed from one on are a sequence.
LEMMA Indexed ==
    ASSUME NEW S, NEW k \in Nat, NEW f \in [ 1 .. k -> S ]
    PROVE  f \in Seq(S) /\ Len(f) = k
OBVIOUS

\* A sequence after another one.
LEMMA Joined ==
    ASSUME NEW S, NEW u \in Seq(S), NEW v \in Seq(S)
    PROVE  /\ u \o v \in Seq(S) /\ Len(u \o v) = Len(u) + Len(v) /\ Len(u) \in Nat /\ Len(v) \in Nat
           /\ \A i \in 1 .. Len(u \o v) :
                 \/ i \in 1 .. Len(u) /\ (u \o v)[i] = u[i]
                 \/ i - Len(u) \in 1 .. Len(v) /\ (u \o v)[i] = v[i - Len(u)]
OBVIOUS

\* The AM pulls the migrations.
LEMMA PullMigrateKeeps == ASSUME AMInv, PullMigrate PROVE AMInv' /\ SMStep
<1>1. /\ notified' = migrate
      /\ UNCHANGED << smVars, phase, todo, timers, exceed, numbers, migrate, envVars, cntVars >>
  BY DEF PullMigrate
<1>2. PICK new \in [ 1 .. Cardinality(migrate \ notified) -> migrate \ notified ] :
         queue' = queue \o [ i \in DOMAIN new |->
             Completion(new[i], "TRANSIENT_NORMAL", TRUE, "migrate") ]
  BY DEF PullMigrate
<1>3. Cardinality(migrate \ notified) \in Nat
  BY FS_Difference, FS_CardinalityType DEF AMInv, AMTypes
<1>4. PICK k \in Nat : k = Cardinality(migrate \ notified)
  BY <1>3
<1>5. PICK more : more = [ i \in 1 .. k |-> Completion(new[i], "TRANSIENT_NORMAL", TRUE, "migrate") ]
  OBVIOUS
<1>6. \A i \in 1 .. k : new[i] \in Containers
  BY <1>2, <1>4 DEF AMInv, AMTypes
<1>7. \A i \in 1 .. k : more[i] \in QueueItems /\ more[i].op = "Complete"
  BY <1>5, <1>6 DEF Completion, CompletionItems, InboxItems, QueueItems, ExitTypes
<1>8. more \in Seq(QueueItems) /\ Len(more) = k
  <2>1. more \in [ 1 .. k -> QueueItems ]
    BY <1>5, <1>7
  <2>. QED BY <2>1, Indexed
<1>9. queue \in Seq(QueueItems) /\ queue' = queue \o more
  BY <1>2, <1>4, <1>5 DEF AMInv, AMTypes
<1>10. PICK q \in Seq(QueueItems) :
         /\ q = queue' /\ Len(queue) \in Nat
         /\ \A i \in 1 .. Len(q) :
               (i \in 1 .. Len(queue) /\ q[i] = queue[i]) \/ (q[i] \in QueueItems /\ q[i].op = "Complete")
  <2>1. PICK q \in Seq(QueueItems) : q = queue \o more
    BY <1>8, <1>9, Joined
  <2>2. /\ Len(queue) \in Nat
        /\ \A i \in 1 .. Len(q) :
              \/ i \in 1 .. Len(queue) /\ q[i] = queue[i]
              \/ i - Len(queue) \in 1 .. Len(more) /\ q[i] = more[i - Len(queue)]
    BY <1>8, <1>9, <2>1, Joined
  <2>. QED BY <1>7, <1>8, <1>9, <2>1, <2>2
<1>11. AMTypes'
  BY <1>1, <1>10 DEF AMInv, AMTypes, envVars, cntVars
<1>12. \A i \in 1 .. Len(queue') : TimerSound(queue'[i])
  BY <1>10 DEF AMInv, TimersSound, TimerSound
<1>13. GrantsSound'
  BY <1>1, <1>10, SMUnchanged, GrantsUntouched DEF envVars
<1>. QED BY <1>1, <1>11, <1>12, <1>13, OutsideStep DEF envVars

\* A callback is queued.
LEMMA DeliverKeeps == ASSUME AMInv, NEW x \in Containers, Deliver(x) PROVE AMInv' /\ SMStep
<1>1. PICK n \in inbox : inbox' = inbox \ { n } /\ queue' = Append(queue, n)
  BY DEF Deliver
<1>2. UNCHANGED << smVars, phase, todo, timers, exceed, numbers, migrate, notified,
                   container, asks, releasing, starting, cntVars >>
  BY DEF Deliver
<1>3. PICK e \in QueueItems : e = n /\ e \in InboxItems
  BY DEF AMInv, AMTypes, QueueItems
<1>4. queue \in Seq(QueueItems)
  BY DEF AMInv, AMTypes
<1>5. PICK q \in Seq(QueueItems) :
         /\ q = queue' /\ Len(queue) \in Nat /\ Len(q) = Len(queue) + 1
         /\ \A i \in 1 .. Len(q) :
               (i \in 1 .. Len(queue) /\ q[i] = queue[i]) \/ (i = Len(queue) + 1 /\ q[i] = e)
  BY <1>1, <1>3, <1>4
<1>6. AMTypes'
  BY <1>1, <1>2, <1>5 DEF AMInv, AMTypes, cntVars
<1>7. TimerSound(e)
  BY <1>3 DEF InboxItems, CompletionItems, TimerSound
<1>8. \A i \in 1 .. Len(queue') : TimerSound(queue'[i])
  BY <1>5, <1>7 DEF AMInv, TimersSound
<1>9. UNCHANGED << taskStatus, zkStatus, liveLocators, container, starting >>
  BY <1>2, SMUnchanged
<1>10. ASSUME NEW c \in Containers
       PROVE  /\ GrantPending(c)' => GrantPending(c)
              /\ StartPending(c)' => StartPending(c)
              /\ Unassociated(c) => Unassociated(c)'
  <2>1. GrantPending(c)' => GrantPending(c)
    BY <1>1, <1>3, <1>5 DEF GrantPending
  <2>2. StartPending(c)' => StartPending(c)
    BY <1>1, <1>3, <1>5, <1>9 DEF StartPending
  <2>. QED BY <1>9, <2>1, <2>2 DEF Unassociated
<1>11. ASSUME NEW c \in Containers
       PROVE  /\ container'[c] = "free" \/ GrantPending(c)' => Unassociated(c)' /\ ~StartPending(c)'
              /\ container'[c] = "free" => ~GrantPending(c)'
              /\ StartPending(c)' /\ liveLocators'[c] # None =>
                    taskStatus'[liveLocators'[c]].state \in { "CONTAINER_LAUNCHED", "CONTAINER_RUNNING" }
  BY <1>9, <1>10 DEF AMInv, GrantsSound
<1>12. ASSUME NEW c \in Containers
       PROVE  /\ \A m, k \in inbox' : GrantIn(m, c) /\ GrantIn(k, c) => m = k
              /\ \A i, j \in 1 .. Len(queue') : GrantIn(queue'[i], c) /\ GrantIn(queue'[j], c) => i = j
              /\ \A k \in inbox', i \in 1 .. Len(queue') : ~(GrantIn(k, c) /\ GrantIn(queue'[i], c))
  <2>1. /\ \A m, k \in inbox : GrantIn(m, c) /\ GrantIn(k, c) => m = k
        /\ \A i, j \in 1 .. Len(queue) : GrantIn(queue[i], c) /\ GrantIn(queue[j], c) => i = j
        /\ \A k \in inbox, i \in 1 .. Len(queue) : ~(GrantIn(k, c) /\ GrantIn(queue[i], c))
    BY DEF AMInv, GrantsSound
  <2>2. \A i, j \in 1 .. Len(queue') : GrantIn(queue'[i], c) /\ GrantIn(queue'[j], c) => i = j
    BY <1>3, <1>5, <2>1
  <2>. QED BY <1>1, <1>3, <1>5, <2>1, <2>2
<1>13. GrantsSound'
  BY <1>11, <1>12 DEF GrantsSound
<1>. QED BY <1>2, <1>6, <1>8, <1>13, OutsideStep

\* A push, successful or not.
LEMMA PushStep ==
    ASSUME AMInv, NEW rs \in SUBSET ChangedRoles, PushStatus(rs), AMTypes',
           UNCHANGED << queue, todo, timers, inbox, container, starting, asks >>
    PROVE  AMInv' /\ SMStep
<1>1. SMNext
  BY DEF ChangedRoles, SMNext
<1>2. IInv'
  BY <1>1, NextIInv DEF AMInv
<1>3. /\ UNCHANGED << taskStatus, containerRequests, priorityLocators, nextPriority >>
      /\ UNCHANGED << liveLocators, todo >>
      /\ zkStatus' = [ t \in Locators |-> IF t[1] \in rs THEN taskStatus[t] ELSE zkStatus[t] ]
  BY DEF PushStatus, WriteStatuses, memVars, extVars, reqVars
<1>4. TodoSound' /\ AsksSound'
  BY <1>3 DEF AMInv, TodoSound, AsksSound
<1>5. TimersSound'
  BY <1>3 DEF AMInv, TimersSound, TimerSound
<1>6. GrantsSound'
  <2>1. \A c \in Containers : Unassociated(c) => Unassociated(c)'
    BY <1>3 DEF Unassociated
  <2>. QED BY <1>3, <2>1 DEF AMInv, GrantsSound, GrantPending, StartPending
<1>. QED BY <1>1, <1>2, <1>4, <1>5, <1>6 DEF AMInv, SMStep

\* The push thread.
LEMMA PushKeeps == ASSUME AMInv, Push PROVE AMInv' /\ SMStep
<1>1. PushStatus(ChangedRoles) /\ UNCHANGED << amVars, envVars, cntVars >>
  BY DEF Push
<1>2. AMTypes'
  BY <1>1 DEF AMInv, AMTypes, amVars, envVars, cntVars
<1>. QED BY <1>1, <1>2, PushStep DEF amVars, envVars

\* The last push.
LEMMA StopPushKeeps == ASSUME AMInv, StopPush PROVE AMInv' /\ SMStep
<1>1. PICK rs \in SUBSET ChangedRoles :
         /\ PushStatus(rs)
         /\ releasing' = IF rs = ChangedRoles THEN releasing ELSE releasing \cup RolledBack
  BY DEF StopPush
<1>2. /\ phase' = "unregistering"
      /\ UNCHANGED << queue, todo, timers, exceed, numbers, migrate, notified,
                      container, asks, starting, inbox, cntVars >>
  BY DEF StopPush
<1>3. RolledBack \subseteq Containers
  BY LiveTask DEF RolledBack
<1>4. AMTypes'
  BY <1>1, <1>2, <1>3 DEF AMInv, AMTypes, cntVars
<1>. QED BY <1>1, <1>2, <1>4, PushStep

\* The application ends.
LEMMA UnregisterKeeps == ASSUME AMInv, Unregister PROVE AMInv' /\ SMStep
<1>1. /\ phase' = "finished"
      /\ container' = [ c \in Containers |-> IF container[c] = "free" THEN "free" ELSE "done" ]
      /\ asks' = {} /\ releasing' = {} /\ starting' = {} /\ inbox' = {}
      /\ UNCHANGED << smVars, queue, todo, timers, exceed, numbers, migrate, notified, cntVars >>
  BY DEF Unregister
<1>2. AMTypes'
  BY <1>1 DEF AMInv, AMTypes, cntVars
<1>3. \A i \in 1 .. Len(queue') : TimerSound(queue'[i])
  BY <1>1 DEF AMInv, TimersSound
<1>4. GrantsSound'
  BY <1>1, SMUnchanged, GrantsUntouched
<1>. QED BY <1>1, <1>2, <1>3, <1>4, OutsideStep

\* The process is restarted.
LEMMA CrashKeeps == ASSUME AMInv, CrashAndRestart PROVE AMInv' /\ SMStep
<1>1. /\ crashes < MaxCrashes /\ crashes' = crashes + 1
      /\ phase' = "running" /\ todo' = <<>> /\ timers' = { Plain("Resync") }
      /\ exceed' = [ c \in Containers |-> 0 ] /\ notified' = {}
      /\ container' = [ c \in Containers |-> IF container[c] = "granted" THEN "done" ELSE container[c] ]
      /\ asks' = {} /\ releasing' = {} /\ starting' = {}
      /\ UNCHANGED << numbers, migrate, userOps >>
  BY DEF CrashAndRestart
<1>2. PICK rs \in SUBSET ChangedRoles, lost \in SUBSET Roles : Recover(rs, lost)
  BY DEF CrashAndRestart, Unreadable
<1>a. PICK kept \in { {}, Notices } :
         \E early \in { <<>> } \cup { << n >> : n \in kept } :
            inbox' = kept \ Elements(early) /\ queue' = early \o StartupQueue(numbers)
  BY DEF CrashAndRestart
<1>3. PICK early \in { <<>> } \cup { << n >> : n \in kept } :
         inbox' = kept \ Elements(early) /\ queue' = early \o StartupQueue(numbers)
  BY <1>a
<1>4. SMNext
  BY <1>2 DEF SMNext, Restart, ChangedRoles
<1>5. IInv /\ IInv'
  BY <1>4, NextIInv DEF AMInv
<1>6. \A n \in kept : n \in inbox /\ n \in CompletionItems /\ n \in QueueItems
  BY DEF Notices, AMInv, AMTypes, InboxItems, QueueItems
<1>7. /\ StartupQueue(numbers) \in Seq(QueueItems)
      /\ \A i \in 1 .. Len(StartupQueue(numbers)) :
            StartupQueue(numbers)[i].op \in { "AllWaiting", "RetryAll", "Numbers" }
  <2>1. /\ Plain("AllWaiting") \in QueueItems /\ Plain("AllWaiting").op = "AllWaiting"
        /\ Plain("RetryAll") \in QueueItems /\ Plain("RetryAll").op = "RetryAll"
        /\ NumbersTo(numbers) \in QueueItems /\ NumbersTo(numbers).op = "Numbers"
    BY DEF Plain, NumbersTo, QueueItems, AMInv, AMTypes
  <2>2. \A a, b, c \in QueueItems : /\ << a, b, c >> \in Seq(QueueItems) /\ Len(<< a, b, c >>) = 3
                                    /\ \A i \in 1 .. 3 : << a, b, c >>[i] \in { a, b, c }
    OBVIOUS
  <2>. QED BY <2>1, <2>2 DEF StartupQueue
<1>8. /\ early \in Seq(QueueItems)
      /\ \A i \in 1 .. Len(early) : early[i].op = "Complete"
  <2>1. CASE early = << >>
    BY <2>1
  <2>2. CASE early # << >>
    <3>1. PICK e \in QueueItems : early = << e >> /\ e \in CompletionItems
      BY <1>6, <2>2
    <3>. QED BY <3>1 DEF CompletionItems
  <2>. QED BY <2>1, <2>2
<1>9. /\ queue' \in Seq(QueueItems)
      /\ \A i \in 1 .. Len(queue') :
            queue'[i].op \in { "Complete", "AllWaiting", "RetryAll", "Numbers" }
  <2>1. PICK base \in Seq(QueueItems) :
           /\ base = StartupQueue(numbers)
           /\ \A i \in 1 .. Len(base) : base[i].op \in { "AllWaiting", "RetryAll", "Numbers" }
    BY <1>7
  <2>2. PICK q \in Seq(QueueItems) : q = early \o base
    BY <1>8, <2>1, Joined
  <2>3. \A i \in 1 .. Len(q) :
           \/ i \in 1 .. Len(early) /\ q[i] = early[i]
           \/ i - Len(early) \in 1 .. Len(base) /\ q[i] = base[i - Len(early)]
    BY <1>8, <2>1, <2>2, Joined
  <2>4. \A i \in 1 .. Len(q) : q[i].op \in { "Complete", "AllWaiting", "RetryAll", "Numbers" }
    BY <1>8, <2>1, <2>3
  <2>. QED BY <1>3, <2>1, <2>2, <2>4
<1>10. AMTypes'
  <2>1. crashes + 1 \in 0 .. MaxCrashes
    BY <1>1, ApplicationMasterAssumption DEF AMInv, AMTypes
  <2>2. inbox' \subseteq inbox
    BY <1>3, <1>6
  <2>3. Plain("Resync") \in TimerItems
    BY DEF Plain, TimerItems
  <2>4. exceed' \in [ Containers -> 0 .. MaxExceed ]
    BY <1>1, ApplicationMasterAssumption
  <2>. QED BY <1>1, <1>9, <2>1, <2>2, <2>3, <2>4 DEF AMInv, AMTypes
<1>11. TodoSound'
  BY <1>1, NothingLeft DEF TodoSound
<1>12. TimersSound'
  <2>1. \A d \in timers' : TimerSound(d)'
    BY <1>1 DEF Plain, TimerSound
  <2>2. \A i \in 1 .. Len(queue') : TimerSound(queue[i])'
    BY <1>9 DEF TimerSound
  <2>. QED BY <2>1, <2>2 DEF TimersSound
<1>13. AsksSound'
  BY <1>1 DEF AsksSound
<1>14. GrantsSound'
  <2>1. \A n \in inbox' : n.op = "Complete"
    BY <1>3, <1>6 DEF CompletionItems
  <2>2. \A c \in Containers : ~GrantPending(c)' /\ ~StartPending(c)'
    BY <1>1, <1>9, <2>1 DEF GrantPending, StartPending, GrantIn, StartedIn
  <2>3. \A t \in Locators : /\ zkStatus'[t] \in { zkStatus[t], taskStatus[t], NoTask }
                            /\ taskStatus'[t] = Revised(zkStatus'[t])
    BY <1>2 DEF Recover, RecoverStatuses
  <2>4. \A t \in Locators : taskStatus'[t].container = zkStatus'[t].container
    <3>1. \A t \in Locators : zkStatus'[t] \in TaskStatuses
      BY <1>5 DEF IInv, SMTypeOK
    <3>. QED BY <2>3, <3>1 DEF Revised, TaskStatuses
  <2>5. \A c \in Containers : Unassociated(c) => Unassociated(c)'
    <3>1. \A c \in Containers : NoTask.container # c
      BY ConstantsAssumption DEF NoTask
    <3>. QED BY <2>3, <2>4, <3>1 DEF Unassociated
  <2>6. \A c \in Containers : container'[c] = "free" => container[c] = "free"
    BY <1>1
  <2>7. \A c \in Containers : /\ \A n \in inbox' : ~GrantIn(n, c)
                              /\ \A i \in 1 .. Len(queue') : ~GrantIn(queue'[i], c)
    BY <2>2 DEF GrantPending
  <2>. QED BY <2>2, <2>5, <2>6, <2>7 DEF AMInv, GrantsSound
<1>. QED BY <1>4, <1>5, <1>10, <1>11, <1>12, <1>13, <1>14 DEF AMInv, SMStep

\* Messages about a container that ends, ...
LEMMA EndMessages ==
    ASSUME NEW c \in Containers, NEW exit \in ExitTypes
    PROVE  /\ Completion(c, exit, FALSE, "completed") \in InboxItems
           /\ Completion(c, exit, FALSE, "completed").op = "Complete"
BY DEF Completion, InboxItems, CompletionItems

\* ... and about one that is started, or could not be.
LEMMA StartMessages ==
    ASSUME NEW c \in Containers
    PROVE  /\ OnContainer("Started", c) \in InboxItems
           /\ OnContainer("StartFailed", c) \in InboxItems
           /\ OnContainer("Started", c).op = "Started" /\ OnContainer("Started", c).container = c
           /\ OnContainer("StartFailed", c).op = "StartFailed"
BY DEF OnContainer, InboxItems

\* The ResourceManager grants a container.
LEMMA GrantKeeps == ASSUME AMInv, Grant PROVE AMInv' /\ SMStep
<1>1. PICK p \in asks, x \in Containers :
         /\ container[x] = "free" /\ container' = [ container EXCEPT ![x] = "granted" ]
         /\ asks' = asks \ { p } /\ inbox' = inbox \cup { Allocation(x, p) }
  BY DEF Grant, SetContainer, Tell
<1>2. UNCHANGED << smVars, amVars, releasing, starting, cntVars >>
  BY DEF Grant
<1>a. p \in Priorities
  BY DEF AMInv, AMTypes
<1>b. /\ Allocation(x, p) \in InboxItems
      /\ Allocation(x, p).op = "Allocate" /\ Allocation(x, p).container = x
  BY <1>a DEF Allocation, InboxItems
<1>3. PICK e \in InboxItems : e = Allocation(x, p) /\ e.op = "Allocate" /\ e.container = x
  BY <1>b
<1>4. AMTypes'
  <2>1. container' \in [ Containers -> { "free", "granted", "running", "done" } ]
    BY <1>1 DEF AMInv, AMTypes
  <2>. QED BY <1>1, <1>2, <1>3, <2>1 DEF AMInv, AMTypes, amVars, cntVars
<1>5. \A i \in 1 .. Len(queue') : TimerSound(queue'[i])
  BY <1>2 DEF AMInv, TimersSound, amVars
<1>6. UNCHANGED << taskStatus, zkStatus, liveLocators, starting, queue >>
  BY <1>2, SMUnchanged DEF amVars
<1>7. ~GrantPending(x) /\ Unassociated(x) /\ ~StartPending(x)
  BY <1>1 DEF AMInv, GrantsSound
<1>8. \A c \in Containers : c # x => container'[c] = container[c]
  BY <1>1 DEF AMInv, AMTypes
<1>9. container'[x] = "granted"
  BY <1>1 DEF AMInv, AMTypes
<1>10. \A c \in Containers : /\ StartPending(c)' <=> StartPending(c)
                             /\ Unassociated(c)' <=> Unassociated(c)
  BY <1>1, <1>3, <1>6 DEF StartPending, StartedIn, Unassociated
<1>11. \A c \in Containers : \A n \in inbox' : GrantIn(n, c) => n \in inbox \/ (c = x /\ n = e)
  BY <1>1, <1>3 DEF GrantIn
<1>12. \A c \in Containers : GrantPending(c)' => GrantPending(c) \/ c = x
  BY <1>6, <1>11 DEF GrantPending
<1>13. ASSUME NEW c \in Containers
       PROVE  /\ container'[c] = "free" \/ GrantPending(c)' => Unassociated(c)' /\ ~StartPending(c)'
              /\ container'[c] = "free" => ~GrantPending(c)'
              /\ StartPending(c)' /\ liveLocators'[c] # None =>
                    taskStatus'[liveLocators'[c]].state \in { "CONTAINER_LAUNCHED", "CONTAINER_RUNNING" }
  BY <1>6, <1>7, <1>8, <1>9, <1>10, <1>12 DEF AMInv, GrantsSound
<1>14. /\ \A n \in inbox : ~GrantIn(n, x)
       /\ \A i \in 1 .. Len(queue) : ~GrantIn(queue[i], x)
  BY <1>7 DEF GrantPending
<1>15. ASSUME NEW c \in Containers
       PROVE  /\ \A m, n \in inbox' : GrantIn(m, c) /\ GrantIn(n, c) => m = n
              /\ \A i, j \in 1 .. Len(queue') : GrantIn(queue'[i], c) /\ GrantIn(queue'[j], c) => i = j
              /\ \A n \in inbox', i \in 1 .. Len(queue') : ~(GrantIn(n, c) /\ GrantIn(queue'[i], c))
  <2>1. \A m, n \in inbox : GrantIn(m, c) /\ GrantIn(n, c) => m = n
    BY DEF AMInv, GrantsSound
  <2>2. \A m, n \in inbox' : GrantIn(m, c) /\ GrantIn(n, c) => m = n
    BY <1>11, <1>14, <2>1
  <2>3. \A i, j \in 1 .. Len(queue) : GrantIn(queue[i], c) /\ GrantIn(queue[j], c) => i = j
    BY DEF AMInv, GrantsSound
  <2>4. \A n \in inbox, i \in 1 .. Len(queue) : ~(GrantIn(n, c) /\ GrantIn(queue[i], c))
    BY DEF AMInv, GrantsSound
  <2>. QED BY <1>6, <1>11, <1>14, <2>2, <2>3, <2>4
<1>16. GrantsSound'
  BY <1>13, <1>15 DEF GrantsSound
<1>17. UNCHANGED << smVars, todo, timers >> /\ asks' \subseteq asks
  BY <1>1, <1>2 DEF amVars
<1>. QED BY <1>4, <1>5, <1>16, <1>17, OutsideStep

\* A step of the ResourceManager or a NodeManager that grants nothing.
LEMMA YarnStep ==
    ASSUME AMInv, UNCHANGED << smVars, amVars, asks, cntVars >>,
           container' \in [ Containers -> { "free", "granted", "running", "done" } ],
           \A c \in Containers : container'[c] = "free" => container[c] = "free",
           releasing' \subseteq releasing, starting' \subseteq starting,
           \A n \in inbox' : \/ n \in inbox
                             \/ n \in InboxItems /\ n.op \notin { "Allocate", "Started" }
                             \/ n \in InboxItems /\ n.op = "Started" /\ n.container \in starting
    PROVE  AMInv' /\ SMStep
<1>1. AMTypes'
  <2>1. inbox' \subseteq InboxItems
    BY DEF AMInv, AMTypes
  <2>. QED BY <2>1 DEF AMInv, AMTypes, amVars, cntVars
<1>2. \A i \in 1 .. Len(queue') : TimerSound(queue'[i])
  BY DEF AMInv, TimersSound, amVars
<1>3. GrantsSound'
  BY SMUnchanged, GrantsUntouched DEF amVars
<1>4. UNCHANGED << todo, timers >>
  BY DEF amVars
<1>. QED BY <1>1, <1>2, <1>3, <1>4, OutsideStep

\* A container ends.
LEMMA EndStep ==
    ASSUME AMInv, NEW c \in Containers, NEW exit \in ExitTypes, Ends(c, exit),
           UNCHANGED << smVars, amVars, asks, cntVars, starting >>, releasing' \subseteq releasing
    PROVE  AMInv' /\ SMStep
<1>1. /\ container' = [ container EXCEPT ![c] = "done" ]
      /\ inbox' = inbox \cup { Completion(c, exit, FALSE, "completed") }
  BY DEF Ends, SetContainer, Tell
<1>2. /\ container' \in [ Containers -> { "free", "granted", "running", "done" } ]
      /\ \A d \in Containers : container'[d] = "free" => container[d] = "free"
  BY <1>1 DEF AMInv, AMTypes
<1>3. PICK e \in InboxItems : /\ e = Completion(c, exit, FALSE, "completed")
                              /\ e.op = "Complete"
  BY EndMessages
<1>4. \A n \in inbox' : \/ n \in inbox
                        \/ n \in InboxItems /\ n.op \notin { "Allocate", "Started" }
  BY <1>1, <1>3
<1>. QED BY <1>2, <1>4, YarnStep

\* A release arrives.
LEMMA ReleaseKeeps == ASSUME AMInv, Release PROVE AMInv' /\ SMStep
<1>1. PICK c \in releasing :
         /\ releasing' = releasing \ { c }
         /\ IF c \in AliveContainers THEN Ends(c, "TRANSIENT_NORMAL")
            ELSE UNCHANGED << container, inbox >>
  BY DEF Release
<1>2. UNCHANGED << smVars, amVars, asks, starting, cntVars >>
  BY DEF Release
<1>3. c \in Containers /\ "TRANSIENT_NORMAL" \in ExitTypes /\ releasing' \subseteq releasing
  BY <1>1 DEF AMInv, AMTypes, ExitTypes
<1>4. CASE c \in AliveContainers
  BY <1>1, <1>2, <1>3, <1>4, EndStep
<1>5. CASE c \notin AliveContainers
  <2>1. UNCHANGED << container, inbox >>
    BY <1>1, <1>5
  <2>2. container \in [ Containers -> { "free", "granted", "running", "done" } ]
    BY DEF AMInv, AMTypes
  <2>. QED BY <1>2, <1>3, <2>1, <2>2, YarnStep
<1>. QED BY <1>4, <1>5

\* A container is started, or cannot be.
LEMMA StartOnNodeKeeps == ASSUME AMInv, StartOnNode PROVE AMInv' /\ SMStep
<1>1. PICK c \in starting :
         /\ starting' = starting \ { c }
         /\ \/ /\ container[c] = "granted"
               /\ container' = [ container EXCEPT ![c] = "running" ]
               /\ inbox' = inbox \cup { OnContainer("Started", c) }
            \/ /\ inbox' = inbox \cup { OnContainer("StartFailed", c) }
               /\ UNCHANGED container
  BY DEF StartOnNode, SetContainer, Tell
<1>2. UNCHANGED << smVars, amVars, asks, releasing, cntVars >>
  BY DEF StartOnNode
<1>3. c \in Containers /\ container \in [ Containers -> { "free", "granted", "running", "done" } ]
  BY DEF AMInv, AMTypes
<1>4. PICK e \in InboxItems, f \in InboxItems :
         /\ e = OnContainer("Started", c) /\ e.op = "Started" /\ e.container = c
         /\ f = OnContainer("StartFailed", c) /\ f.op = "StartFailed"
  BY <1>3, StartMessages
<1>5. /\ container' \in [ Containers -> { "free", "granted", "running", "done" } ]
      /\ \A d \in Containers : container'[d] = "free" => container[d] = "free"
  BY <1>1, <1>3
<1>6. \A n \in inbox' : \/ n \in inbox
                        \/ n \in InboxItems /\ n.op \notin { "Allocate", "Started" }
                        \/ n \in InboxItems /\ n.op = "Started" /\ n.container \in starting
  BY <1>1, <1>4
<1>. QED BY <1>1, <1>2, <1>5, <1>6, YarnStep

\* A container exits.
LEMMA ExitKeeps == ASSUME AMInv, Exit PROVE AMInv' /\ SMStep
<1>1. PICK c \in Containers, exit \in Exits : Ends(c, exit)
  BY DEF Exit
<1>2. exit \in ExitTypes
  BY ApplicationMasterAssumption
<1>. QED BY <1>1, <1>2, EndStep DEF Exit

\* A container expires.
LEMMA ExpireKeeps == ASSUME AMInv, Expire PROVE AMInv' /\ SMStep
<1>1. PICK c \in Containers : Ends(c, "TRANSIENT_CONFLICT")
  BY DEF Expire
<1>2. "TRANSIENT_CONFLICT" \in ExitTypes
  BY DEF ExitTypes
<1>. QED BY <1>1, <1>2, EndStep DEF Expire

-----------------------------------------------------------------------------
(* The theorems *)

\* The AM starts in the inductive invariant.
LEMMA InitAMInv == Init => AMInv
<1>. SUFFICES ASSUME Init PROVE AMInv
  OBVIOUS
<1>1. /\ SMInit /\ phase = "running" /\ numbers \in Numbers /\ queue = StartupQueue(numbers)
      /\ todo = <<>> /\ timers = { Plain("Resync") }
      /\ exceed = [ c \in Containers |-> 0 ]
      /\ migrate = {} /\ notified = {}
      /\ container = [ c \in Containers |-> "free" ]
      /\ asks = {} /\ releasing = {} /\ starting = {} /\ inbox = {}
      /\ crashes = 0 /\ userOps = 0
  BY DEF Init
<1>2. IInv
  BY <1>1, InitIInv
<1>3. /\ queue \in Seq(QueueItems)
      /\ \A i \in 1 .. Len(queue) : queue[i].op \in { "AllWaiting", "RetryAll", "Numbers" }
  <2>1. /\ Plain("AllWaiting") \in QueueItems /\ Plain("AllWaiting").op = "AllWaiting"
        /\ Plain("RetryAll") \in QueueItems /\ Plain("RetryAll").op = "RetryAll"
        /\ NumbersTo(numbers) \in QueueItems /\ NumbersTo(numbers).op = "Numbers"
    BY <1>1 DEF Plain, NumbersTo, QueueItems
  <2>2. \A a, b, c \in QueueItems : /\ << a, b, c >> \in Seq(QueueItems) /\ Len(<< a, b, c >>) = 3
                                    /\ \A i \in 1 .. 3 : << a, b, c >>[i] \in { a, b, c }
    OBVIOUS
  <2>. QED BY <1>1, <2>1, <2>2 DEF StartupQueue
<1>4. AMTypes
  <2>1. 0 \in 0 .. MaxCrashes /\ 0 \in 0 .. MaxUserOps /\ 0 \in 0 .. MaxExceed
    BY ApplicationMasterAssumption
  <2>2. Plain("Resync") \in TimerItems
    BY DEF Plain, TimerItems
  <2>3. IsFiniteSet(migrate)
    BY <1>1, FS_EmptySet
  <2>. QED BY <1>1, <1>3, <2>1, <2>2, <2>3 DEF AMTypes
<1>5. TodoSound
  BY <1>1, NothingLeft DEF TodoSound
<1>6. TimersSound
  <2>1. \A d \in timers : TimerSound(d)
    BY <1>1 DEF Plain, TimerSound
  <2>2. \A i \in 1 .. Len(queue) : TimerSound(queue[i])
    BY <1>3 DEF TimerSound
  <2>. QED BY <2>1, <2>2 DEF TimersSound
<1>7. AsksSound
  BY <1>1 DEF AsksSound
<1>8. GrantsSound
  <2>1. \A c \in Containers : ~GrantPending(c) /\ ~StartPending(c)
    BY <1>1, <1>3 DEF GrantPending, StartPending, GrantIn, StartedIn
  <2>2. \A c \in Containers : Unassociated(c)
    BY <1>1, ConstantsAssumption DEF SMInit, Unassociated, NoTask
  <2>3. \A c \in Containers : /\ \A n \in inbox : ~GrantIn(n, c)
                              /\ \A i \in 1 .. Len(queue) : ~GrantIn(queue[i], c)
    BY <2>1 DEF GrantPending
  <2>. QED BY <2>1, <2>2, <2>3 DEF GrantsSound
<1>. QED BY <1>2, <1>4, <1>5, <1>6, <1>7, <1>8 DEF AMInv

\* Every step of the AM keeps the inductive invariant and is one of the
\* StatusManager or leaves it alone.
LEMMA NextKeepsAMInv == AMInv /\ [Next]_vars => AMInv' /\ SMStep
<1>. SUFFICES ASSUME AMInv, [Next]_vars PROVE AMInv' /\ SMStep
  OBVIOUS
<1>1. CASE Next
  <2>1. CASE \E d \in timers : Fire(d)
    BY <2>1, FireKeeps
  <2>2. CASE \E c \in Containers : Deliver(c)
    BY <2>2, DeliverKeeps
  <2>3. CASE WorkerStep
    BY <2>3, WorkerKeeps
  <2>4. CASE PullNumbers \/ AskMigrate \/ PullMigrate
    BY <2>4, PullNumbersKeeps, AskMigrateKeeps, PullMigrateKeeps
  <2>5. CASE Push \/ StopPush \/ Unregister \/ CrashAndRestart
    BY <2>5, PushKeeps, StopPushKeeps, UnregisterKeeps, CrashKeeps
  <2>6. CASE Grant \/ Release \/ StartOnNode \/ Exit \/ Expire
    BY <2>6, GrantKeeps, ReleaseKeeps, StartOnNodeKeeps, ExitKeeps, ExpireKeeps
  <2>. QED BY <1>1, <2>1, <2>2, <2>3, <2>4, <2>5, <2>6 DEF Next
<1>2. CASE UNCHANGED vars
  <2>1. UNCHANGED << smVars, amVars, envVars, cntVars >>
    BY <1>2 DEF vars
  <2>2. container \in [ Containers -> { "free", "granted", "running", "done" } ]
    BY DEF AMInv, AMTypes
  <2>. QED BY <2>1, <2>2, YarnStep DEF envVars
<1>. QED BY <1>1, <1>2

\* In every reachable state of the AM the inductive invariant holds.
THEOREM AMInvariance == Spec => []AMInv
<1>1. Init => AMInv
  BY InitAMInv
<1>2. AMInv /\ [Next]_vars => AMInv'
  BY NextKeepsAMInv
<1>. QED BY <1>1, <1>2, PTL DEF Spec

\* The AM uses the StatusManager as its asserts and the edges of TaskState allow,
\* whatever callback, timer, user or restart comes between two of its steps.
THEOREM AMImplementsStatusManager == Spec => ImplementsStatusManager
<1>1. Init => SMInit
  BY DEF Init
<1>2. AMInv /\ [Next]_vars => [smVars' # smVars /\ SMNext]_smVars
  BY NextKeepsAMInv DEF SMStep
<1>. QED BY <1>1, <1>2, AMInvariance, PTL DEF Spec, ImplementsStatusManager

\* Every variable of the AM and its environment has its type.
THEOREM AMTypesHold == Spec => []TypeOK
<1>1. AMInv => TypeOK
  <2>. SUFFICES ASSUME AMInv PROVE TypeOK
    OBVIOUS
  <2>1. SMTypeOK
    BY DEF AMInv, IInv
  <2>2. \A i \in TodoItems \cup QueueItems :
           /\ "container" \in DOMAIN i => i.container \in Containers
           /\ "priority" \in DOMAIN i => i.priority \in Priorities
           /\ "task" \in DOMAIN i => i.task \in Locators
           /\ "all" \in DOMAIN i => i.all # {} /\ i.all \subseteq Locators \cup Containers
    BY DEF TodoItems, QueueItems, TimerItems, InboxItems, CompletionItems
  <2>3. Pending \cup inbox \subseteq TodoItems \cup QueueItems
    BY DEF AMInv, AMTypes, TodoSound, SoundTodo, Pending, Elements, QueueItems
  <2>. QED BY <2>1, <2>2, <2>3 DEF AMInv, AMTypes, TypeOK
<1>. QED BY <1>1, AMInvariance, PTL

\* What is proved of the StatusManager holds of it in the AM: the reverse indexes
\* are exact, a container has at most one live task, statuses are well-formed,
\* the hosts of live containers are known, and what is changed is pushed.
THEOREM AMKeepsStatusManager ==
    Spec => [](/\ IndexesExact /\ ContainerExclusive
               /\ StatusesWellFormed /\ HostIndexSound /\ ChangedExact)
<1>1. AMInv => /\ IndexesExact /\ ContainerExclusive
               /\ StatusesWellFormed /\ HostIndexSound /\ ChangedExact
  BY DEF AMInv, IInv
<1>. QED BY <1>1, AMInvariance, PTL

\* The ResourceManager holds no request that the AM has forgotten.
THEOREM AMForgetsNoRequest == Spec => []NoForgottenRequest
<1>1. AMInv => NoForgottenRequest
  BY DEF AMInv, AMTypes, IInv, SMTypeOK, AsksSound, NoForgottenRequest, IndexesExact,
         RequestIndexExact
<1>. QED BY <1>1, AMInvariance, PTL

-----------------------------------------------------------------------------
(* The shape of a step of the running system task *)

\* A part for the elements of a set, if there is any.
Each(op, s) == IF s = {} THEN {} ELSE { [ op |-> op, all |-> s ] }

\* The parts then come before the rest, the queue loses at most the system task
\* that is worked on and gets those submitted.
Goes(then, submitted) ==
    /\ Elements(todo') = then \cup Elements(Rest)
    /\ submitted \subseteq Elements(queue')
    /\ Elements(queue') \subseteq Elements(queue) \cup submitted
    /\ \A i \in Elements(queue) : i \in Elements(queue') \/ (todo = << >> /\ i = Work)

\* A task moves along an edge.
EdgeShape(t, dst, then, delayed) ==
    /\ t \in Locators /\ dst \in TaskStates
    /\ \E event \in Events : LegalEdge(t, dst, event) /\ TransitionTaskState(t, dst, event)
    /\ Goes(then, IF Gang /\ Disappears(FALSE) THEN { Plain("LaunchAll") } ELSE {})
    /\ timers' = Armed(timers \cup delayed \cup
           IF Gang /\ Appears(FALSE) THEN { GangTimeout(round) } ELSE {})

\* Nothing happens to the StatusManager.
QuietShape(then, delayed) ==
    /\ UNCHANGED smVars /\ Goes(then, {})
    /\ timers' \in { timers \cup delayed, Armed(timers \cup delayed) }

\* Containers are counted as lost, or no more.
CountShape(then, delayed) ==
    /\ \E count : SetLostCounts(count)
    /\ \A t \in Locators : taskStatus[t].state \notin LIVE_STATES => taskStatus'[t] = taskStatus[t]
    /\ Goes(then, {}) /\ timers' = timers \cup delayed

\* The elements of two sequences, one after the other.
LEMMA ElementsJoin ==
    ASSUME NEW S, NEW u \in Seq(S), NEW v \in Seq(S)
    PROVE  Elements(u \o v) = Elements(u) \cup Elements(v)
<1>a. u \o v \in Seq(S) /\ Len(u) \in Nat /\ Len(v) \in Nat
  OBVIOUS
<1>b. \A i \in 1 .. Len(u) : i \in 1 .. Len(u \o v) /\ (u \o v)[i] = u[i]
  OBVIOUS
<1>c. \A i \in 1 .. Len(v) : i + Len(u) \in 1 .. Len(u \o v) /\ (u \o v)[i + Len(u)] = v[i]
  OBVIOUS
<1>d. \A i \in 1 .. Len(u \o v) : \/ i \in 1 .. Len(u) /\ (u \o v)[i] = u[i]
                                  \/ i - Len(u) \in 1 .. Len(v) /\ (u \o v)[i] = v[i - Len(u)]
  OBVIOUS
<1>1. PICK w \in Seq(S) : w = u \o v
  BY <1>a, Zenon
<1>e. /\ \A i \in 1 .. Len(u) : i \in 1 .. Len(w) /\ w[i] = u[i]
      /\ \A i \in 1 .. Len(v) : i + Len(u) \in 1 .. Len(w) /\ w[i + Len(u)] = v[i]
      /\ \A i \in 1 .. Len(w) : \/ i \in 1 .. Len(u) /\ w[i] = u[i]
                                \/ i - Len(u) \in 1 .. Len(v) /\ w[i] = v[i - Len(u)]
  BY <1>b, <1>c, <1>d, <1>1, Zenon
<1>2. /\ Elements(u) = { u[i] : i \in 1 .. Len(u) }
      /\ Elements(v) = { v[i] : i \in 1 .. Len(v) }
      /\ Elements(w) = { w[i] : i \in 1 .. Len(w) }
  BY DEF Elements
<1>4. \A e \in Elements(w) : e \in Elements(u) \/ e \in Elements(v)
  BY <1>2, <1>e
<1>5. Elements(u) \subseteq Elements(w)
  BY <1>2, <1>e
<1>6. Elements(v) \subseteq Elements(w)
  BY <1>2, <1>e
<1>. QED BY <1>1, <1>4, <1>5, <1>6

\* The elements of short sequences.
LEMMA ElementsOne ==
    /\ Elements(<< >>) = {} /\ \A S : << >> \in Seq(S)
    /\ \A e : Elements(<< e >>) = { e } /\ << e >> \in Seq({ e })
    /\ \A op, s : /\ Elements(ForEach(op, s)) = Each(op, s)
                  /\ ForEach(op, s) \in Seq({ [ op |-> op, all |-> s ] })
<1>1. Elements(<< >>) = {} /\ \A S : << >> \in Seq(S)
  BY DEF Elements
<1>2. ASSUME NEW e PROVE Elements(<< e >>) = { e } /\ << e >> \in Seq({ e })
  BY DEF Elements
<1>3. ASSUME NEW op, NEW s
      PROVE  /\ Elements(ForEach(op, s)) = Each(op, s)
             /\ ForEach(op, s) \in Seq({ [ op |-> op, all |-> s ] })
  BY <1>1, <1>2 DEF ForEach, Each
<1>. QED BY <1>1, <1>2, <1>3

\* A sequence over a set is one over every larger set.
LEMMA SeqGrows ==
    ASSUME NEW S, NEW T, S \subseteq T, NEW w \in Seq(S)
    PROVE  w \in Seq(T)
OBVIOUS

\* The same of two sequences over different sets.
LEMMA ElementsBoth ==
    ASSUME NEW S, NEW T, NEW u, NEW v, u \in Seq(S), v \in Seq(T)
    PROVE  Elements(u \o v) = Elements(u) \cup Elements(v)
<1>1. u \in Seq(S \cup T) /\ v \in Seq(S \cup T)
  BY SeqGrows
<1>. QED BY <1>1, ElementsJoin

\* What is left of a system task: what it had but for the part worked on.
LEMMA RestFacts ==
    ASSUME AMInv, HasWork
    PROVE  /\ Elements(Rest) \subseteq Elements(todo)
           /\ \A i \in Elements(todo) : i = Work \/ i \in Elements(Rest)
           /\ todo = << >> => Elements(Rest) = {} /\ Work \in Elements(queue)
           /\ todo # << >> => Work \in Elements(todo)
           /\ \A i \in Elements(Rest) : i \in TodoItems /\ Before(Work, i)
           /\ \A i \in Elements(todo) : i \in TodoItems
<1>1. /\ SoundTodo(Rest, taskStatus, containerRequests, liveLocators)
      /\ \A j \in 1 .. Len(Rest) : Before(Work, Rest[j])
      /\ todo = << >> => /\ queue # << >> /\ Work = queue[1] /\ 1 \in 1 .. Len(queue)
  BY WorkFacts DEF AMInv
<1>2. todo \in Seq(TodoItems) /\ Rest \in Seq(TodoItems) /\ queue \in Seq(QueueItems)
  BY <1>1 DEF AMInv, AMTypes, TodoSound, SoundTodo
<1>3. /\ Elements(todo) = { todo[i] : i \in 1 .. Len(todo) }
      /\ Elements(Rest) = { Rest[i] : i \in 1 .. Len(Rest) }
      /\ Elements(queue) = { queue[i] : i \in 1 .. Len(queue) }
  BY <1>2 DEF Elements
<1>4. \A i \in Elements(Rest) : i \in TodoItems /\ Before(Work, i)
  BY <1>1, <1>2, <1>3
<1>5. CASE todo = << >>
  <2>1. Elements(todo) = {} /\ Elements(Rest) = {}
    BY <1>5, ElementsOne DEF Rest
  <2>2. Work \in Elements(queue)
    BY <1>1, <1>3, <1>5
  <2>. QED BY <1>5, <2>1, <2>2
<1>6. CASE todo # << >>
  <2>1. PICK r \in Seq(TodoItems) : r = Tail(todo) /\ r = Rest
    BY <1>2, <1>6, Shifted DEF Rest
  <2>2. /\ Work = todo[1] /\ 1 \in 1 .. Len(todo)
        /\ \A i \in 1 .. Len(r) : i + 1 \in 1 .. Len(todo) /\ r[i] = todo[i + 1]
        /\ \A i \in 1 .. Len(todo) : i = 1 \/ (i - 1 \in 1 .. Len(r) /\ todo[i] = r[i - 1])
    BY <1>2, <1>6, <2>1, Shifted DEF Work
  <2>3. Elements(r) = { r[i] : i \in 1 .. Len(r) }
    BY <1>3, <2>1
  <2>4. Elements(r) \subseteq Elements(todo)
    BY <1>3, <2>2, <2>3
  <2>5. \A i \in Elements(todo) : i = Work \/ i \in Elements(r)
    BY <1>3, <2>2, <2>3
  <2>6. Work \in Elements(todo) /\ \A i \in Elements(todo) : i \in TodoItems
    BY <1>2, <1>3, <2>2
  <2>. QED BY <1>4, <1>6, <2>1, <2>4, <2>5, <2>6
<1>. QED BY <1>5, <1>6

\* A step of the system task in terms of the elements.
LEMMA ProceedGoes ==
    ASSUME AMInv, HasWork, NEW S, NEW then \in Seq(S), NEW submitted,
           submitted \in { << >>, << Plain("LaunchAll") >> }, Proceed(then, submitted)
    PROVE  Goes(Elements(then), Elements(submitted))
<1>1. Rest \in Seq(TodoItems) /\ queue \in Seq(QueueItems)
  BY RestOfTasks DEF SoundTodo, AMInv, AMTypes
<1>2. Elements(todo') = Elements(then) \cup Elements(Rest)
  <2>1. todo' = then \o Rest
    BY DEF Proceed, Rest
  <2>2. PICK r \in Seq(TodoItems) : r = Rest
    BY <1>1
  <2>3. Elements(then \o r) = Elements(then) \cup Elements(r)
    BY ElementsBoth
  <2>. QED BY <2>1, <2>2, <2>3
<1>3. PICK q \in Seq(QueueItems) :
         /\ q = IF todo # << >> THEN queue ELSE Tail(queue)
         /\ Elements(q) \subseteq Elements(queue)
         /\ \A i \in Elements(queue) : i \in Elements(q) \/ (todo = << >> /\ i = Work)
  <2>1. CASE todo # << >>
    BY <1>1, <2>1
  <2>2. CASE todo = << >>
    <3>1. queue # << >> /\ Work = Head(queue)
      BY <2>2 DEF HasWork, Work
    <3>2. PICK r \in Seq(QueueItems) : r = Tail(queue)
      BY <1>1, <3>1, Shifted
    <3>3. /\ Head(queue) = queue[1] /\ 1 \in 1 .. Len(queue)
          /\ \A i \in 1 .. Len(r) : i + 1 \in 1 .. Len(queue) /\ r[i] = queue[i + 1]
          /\ \A i \in 1 .. Len(queue) : i = 1 \/ (i - 1 \in 1 .. Len(r) /\ queue[i] = r[i - 1])
      BY <1>1, <3>1, <3>2, Shifted
    <3>4. /\ Elements(r) = { r[i] : i \in 1 .. Len(r) }
          /\ Elements(queue) = { queue[i] : i \in 1 .. Len(queue) }
      BY <1>1 DEF Elements
    <3>5. Elements(r) \subseteq Elements(queue)
      BY <3>3, <3>4
    <3>6. \A i \in Elements(queue) : i \in Elements(r) \/ i = Work
      BY <3>1, <3>3, <3>4
    <3>. QED BY <2>2, <3>2, <3>5, <3>6
  <2>. QED BY <2>1, <2>2
<1>4. queue' = q \o submitted
  BY <1>3 DEF Proceed
<1>5. submitted \in Seq({ Plain("LaunchAll") })
  BY ElementsOne
<1>6. Elements(queue') = Elements(q) \cup Elements(submitted)
  <2>1. Elements(q \o submitted) = Elements(q) \cup Elements(submitted)
    BY <1>5, ElementsBoth
  <2>. QED BY <1>4, <2>1
<1>. QED BY <1>2, <1>3, <1>6 DEF Goes

\* The shape of a transition.
LEMMA TransitShape ==
    ASSUME AMInv, HasWork, NEW t \in Locators, NEW dst \in TaskStates, NEW event \in Events,
           NEW S, NEW then \in Seq(S), NEW delayed,
           LegalEdge(t, dst, event), Transit(t, dst, event, then, delayed)
    PROVE  EdgeShape(t, dst, Elements(then), delayed)
<1>1. PICK submitted : /\ submitted = IF Gang /\ Disappears(FALSE) THEN << Plain("LaunchAll") >> ELSE << >>
                       /\ Proceed(then, submitted)
  BY DEF Transit, ProceedWithCallbacks
<1>2. Goes(Elements(then), Elements(submitted))
  BY <1>1, ProceedGoes
<1>3. Elements(submitted) = IF Gang /\ Disappears(FALSE) THEN { Plain("LaunchAll") } ELSE {}
  BY <1>1, ElementsOne
<1>. QED BY <1>2, <1>3 DEF EdgeShape, Transit, ProceedWithCallbacks

\* The shape of a step that only proceeds.
LEMMA IgnoreShape ==
    ASSUME AMInv, HasWork, Ignore
    PROVE  QuietShape({}, {})
<1>1. Goes(Elements(<< >>), Elements(<< >>))
  BY ElementsOne, ProceedGoes DEF Ignore
<1>. QED BY <1>1, ElementsOne DEF QuietShape, Ignore

\* A step of the system task that makes one part of a set.
LEMMA ForEachGoes ==
    ASSUME AMInv, HasWork, NEW op, NEW s, Proceed(ForEach(op, s), << >>)
    PROVE  Goes(Each(op, s), {})
<1>1. ForEach(op, s) \in Seq({ [ op |-> op, all |-> s ] }) /\ Elements(ForEach(op, s)) = Each(op, s)
  BY ElementsOne
<1>2. Goes(Elements(ForEach(op, s)), Elements(<< >>))
  BY <1>1, ProceedGoes
<1>. QED BY <1>1, <1>2, ElementsOne

\* A transition whose handler goes on with one part of a set.
LEMMA ForEachTransit ==
    ASSUME AMInv, HasWork, NEW t \in Locators, NEW dst \in TaskStates, NEW event \in Events,
           NEW op, NEW s, NEW delayed,
           LegalEdge(t, dst, event), Transit(t, dst, event, ForEach(op, s), delayed)
    PROVE  EdgeShape(t, dst, Each(op, s), delayed)
<1>1. ForEach(op, s) \in Seq({ [ op |-> op, all |-> s ] }) /\ Elements(ForEach(op, s)) = Each(op, s)
  BY ElementsOne
<1>2. EdgeShape(t, dst, Elements(ForEach(op, s)), delayed)
  BY <1>1, TransitShape
<1>. QED BY <1>1, <1>2

\* addContainerRequest of every waiting task: a part for them all.
LEMMA AllWaitingIs ==
    ASSUME AMInv, DoAllWaiting
    PROVE  /\ HasWork /\ Work.op = "AllWaiting" /\ UNCHANGED << phase, releasing, migrate, exceed >>
           /\ QuietShape(Each("Request", WaitingTasks), {})
<1>1. HasWork /\ Work.op = "AllWaiting" /\ UNCHANGED << phase, releasing, migrate, exceed >>
  BY DEF DoAllWaiting, Doing
<1>2. Proceed(ForEach("Request", WaitingTasks), <<>>) /\ UNCHANGED << smVars, timers >>
  BY DEF DoAllWaiting
<1>3. Goes(Each("Request", WaitingTasks), {})
  BY <1>1, <1>2, ForEachGoes
<1>. QED BY <1>1, <1>2, <1>3 DEF QuietShape

\* addContainerRequest asks for a container, or tries its setup again.
LEMMA RequestIs ==
    ASSUME AMInv, DoRequest
    PROVE  /\ HasWork /\ Work.op = "Request" /\ UNCHANGED << phase, releasing, migrate, exceed >>
           /\ Work.all \subseteq Locators
           /\ \E t \in Work.all :
                 \/ EdgeShape(t, "CONTAINER_REQUESTED", Each("Request", Work.all \ { t }),
                              { TimeoutOf(nextPriority, t) })
                 \/ QuietShape(Each("Request", Work.all \ { t }), { AgainFor(t) })
<1>1. PICK t \in NextToRequest : LET rest == ForEach("Request", Work.all \ { t }) IN
          \/ /\ nextPriority < MaxRequests
             /\ asks' = asks \cup { nextPriority }
             /\ Transit(t, "CONTAINER_REQUESTED", NoEvent, rest, { TimeoutOf(nextPriority, t) })
          \/ /\ "setup" \in Faults
             /\ timers' = timers \cup { AgainFor(t) }
             /\ Proceed(rest, <<>>)
             /\ UNCHANGED << smVars, asks >>
  BY Zenon DEF DoRequest
<1>2. HasWork /\ Work.op = "Request" /\ UNCHANGED << phase, releasing, migrate, exceed >>
  BY DEF DoRequest, Doing
<1>3. /\ Work.all \subseteq Locators /\ t \in Work.all /\ t \in Locators
      /\ \A u \in Work.all : taskStatus[u].state = "TASK_WAITING"
  BY <1>2, WorkFacts DEF AMInv, NextToRequest, Valid
<1>4. PICK more : more = Work.all \ { t }
  OBVIOUS
<1>5. CASE /\ nextPriority < MaxRequests
           /\ Transit(t, "CONTAINER_REQUESTED", NoEvent, ForEach("Request", more),
                      { TimeoutOf(nextPriority, t) })
  <2>1. LegalEdge(t, "CONTAINER_REQUESTED", NoEvent) /\ NoEvent \in Events
        /\ "CONTAINER_REQUESTED" \in TaskStates
    BY <1>3, <1>5, EventsAreEvents DEF LegalEdge, TaskStates
  <2>2. EdgeShape(t, "CONTAINER_REQUESTED", Each("Request", more), { TimeoutOf(nextPriority, t) })
    BY <1>2, <1>3, <1>5, <2>1, ForEachTransit
  <2>. QED BY <1>2, <1>3, <1>4, <2>2
<1>6. CASE /\ timers' = timers \cup { AgainFor(t) }
           /\ Proceed(ForEach("Request", more), <<>>) /\ UNCHANGED smVars
  <2>1. Goes(Each("Request", more), {})
    BY <1>2, <1>6, ForEachGoes
  <2>2. QuietShape(Each("Request", more), { AgainFor(t) })
    BY <1>6, <2>1 DEF QuietShape
  <2>. QED BY <1>2, <1>3, <1>4, <2>2
<1>. QED BY <1>1, <1>4, <1>5, <1>6

\* The setup is tried again when the status is still the same.
LEMMA AgainIs ==
    ASSUME AMInv, DoAgain
    PROVE  /\ HasWork /\ Work.op = "Again" /\ UNCHANGED << phase, releasing, migrate, exceed >>
           /\ taskStatus[Work.task] = Work.status => QuietShape(Each("Request", { Work.task }), {})
           /\ taskStatus[Work.task] # Work.status => QuietShape({}, {})
<1>1. HasWork /\ Work.op = "Again" /\ UNCHANGED << phase, releasing, migrate, exceed >>
  BY DEF DoAgain, Doing
<1>2. /\ UNCHANGED << smVars, timers >>
      /\ IF taskStatus[Work.task] = Work.status THEN Proceed(ForEach("Request", { Work.task }), <<>>)
         ELSE Proceed(<<>>, <<>>)
  BY DEF DoAgain
<1>3. taskStatus[Work.task] = Work.status => Goes(Each("Request", { Work.task }), {})
  BY <1>1, <1>2, ForEachGoes
<1>4. taskStatus[Work.task] # Work.status => Ignore
  BY <1>2 DEF Ignore
<1>. QED BY <1>1, <1>2, <1>3, <1>4, IgnoreShape DEF QuietShape

\* A request that times out while it is tracked takes its task back.
LEMMA TimeoutIs ==
    ASSUME AMInv, DoTimeout
    PROVE  /\ HasWork /\ Work.op = "Timeout" /\ UNCHANGED << phase, releasing, migrate, exceed >>
           /\ priorityLocators[Work.priority] # None =>
                 /\ priorityLocators[Work.priority] = Work.task
                 /\ EdgeShape(Work.task, "TASK_WAITING", Each("Request", { Work.task }), {})
           /\ priorityLocators[Work.priority] = None => QuietShape({}, {})
<1>1. HasWork /\ Work.op = "Timeout" /\ UNCHANGED << phase, releasing, migrate, exceed >>
  BY DEF DoTimeout, Doing
<1>2. IF priorityLocators[Work.priority] # None
      THEN Transit(Work.task, "TASK_WAITING", NoEvent, ForEach("Request", { Work.task }), {})
      ELSE Ignore
  BY DEF DoTimeout
<1>3. PICK p \in Priorities, t \in Locators :
         p = Work.priority /\ t = Work.task /\ priorityLocators[p] \in { None, t }
  BY <1>1, WorkFacts DEF AMInv, TimerSound
<1>4. ASSUME priorityLocators[p] # None
      PROVE  EdgeShape(t, "TASK_WAITING", Each("Request", { t }), {})
  <2>1. taskStatus[t].state = "CONTAINER_REQUESTED"
    BY <1>3, <1>4, TaskOfRequest
  <2>2. LegalEdge(t, "TASK_WAITING", NoEvent) /\ NoEvent \in Events /\ "TASK_WAITING" \in TaskStates
    BY <2>1, EventsAreEvents DEF LegalEdge, TaskStates
  <2>3. Transit(t, "TASK_WAITING", NoEvent, ForEach("Request", { t }), {})
    BY <1>2, <1>3, <1>4
  <2>. QED BY <1>1, <2>2, <2>3, ForEachTransit
<1>. QED BY <1>1, <1>2, <1>3, <1>4, IgnoreShape

\* allocateContainer: nobody's container, one that is refused, the task's own, or one
\* that cannot be associated.
LEMMA AllocateIs ==
    ASSUME AMInv, DoAllocate
    PROVE  /\ HasWork /\ Work.op = "Allocate" /\ UNCHANGED << phase, migrate >> /\ todo = << >>
           /\ Work.container \in Containers /\ GrantIn(Work, Work.container)
           /\ LET c == Work.container
                  t == priorityLocators[Work.priority]
              IN  \/ QuietShape({}, {}) /\ releasing' = releasing \cup { c } /\ exceed' = exceed
                  \/ /\ EdgeShape(t, "TASK_WAITING", Each("Request", { t }), {})
                     /\ releasing' = releasing \cup { c } /\ exceed' = exceed
                  \/ /\ EdgeShape(t, "CONTAINER_ALLOCATED",
                                  IF Gang THEN {} ELSE Each("Launch", { t }), {})
                     /\ TestContainer(c, t[1]) /\ taskStatus'[t].container = c
                     /\ taskStatus[t].state = "CONTAINER_REQUESTED"
                     /\ releasing' = releasing /\ exceed' = [ exceed EXCEPT ![c] = 0 ]
                  \/ /\ t \in Locators /\ taskStatus[t].state = "CONTAINER_REQUESTED"
                     /\ FailToAssociate(t) /\ Goes(Each("Withdraw", { t }), {})
                     /\ timers' = Armed(timers)
                     /\ releasing' = releasing \cup { c } /\ exceed' = exceed
<1>1. HasWork /\ Work.op = "Allocate" /\ UNCHANGED << phase, migrate >>
  BY DEF DoAllocate, Doing
<1>2. PICK c \in Containers, p \in Priorities : c = Work.container /\ p = Work.priority
  BY <1>1, WorkFacts DEF AMInv
<1>3. PICK t : t = priorityLocators[p]
  OBVIOUS
<1>4. IF t = None
      THEN releasing' = releasing \cup { c } /\ Ignore /\ UNCHANGED exceed
      ELSE \/ /\ releasing' = releasing \cup { c }
              /\ Transit(t, "TASK_WAITING", NoEvent, ForEach("Request", { t }), {})
              /\ UNCHANGED exceed
           \/ /\ TestContainer(c, t[1])
              /\ Transit(t, "CONTAINER_ALLOCATED", [ NoEvent EXCEPT !.container = c ],
                         IF Gang THEN <<>> ELSE ForEach("Launch", { t }), {})
              /\ exceed' = [ exceed EXCEPT ![c] = 0 ]
              /\ UNCHANGED releasing
           \/ /\ FailToAssociate(t)
              /\ Proceed(ForEach("Withdraw", { t }), <<>>)
              /\ timers' = Armed(timers)
              /\ releasing' = releasing \cup { c }
              /\ UNCHANGED exceed
  BY <1>2, <1>3, Zenon DEF DoAllocate
<1>5. todo = << >> /\ GrantPending(c) /\ GrantIn(Work, c)
  BY <1>1, <1>2, WorkFacts DEF AMInv, GrantPending, GrantIn
<1>6. CASE t = None
  <2>1. QuietShape({}, {})
    BY <1>1, <1>4, <1>6, IgnoreShape
  <2>. QED BY <1>1, <1>2, <1>4, <1>5, <1>6, <2>1
<1>7. CASE t # None
  <2>1. t \in Locators
    BY <1>3, <1>7 DEF AMInv, IInv, SMTypeOK
  <2>2. taskStatus[t].state = "CONTAINER_REQUESTED" /\ containerRequests[t] = p
    BY <1>3, <2>1, TaskOfRequest
  <2>3. ASSUME Transit(t, "TASK_WAITING", NoEvent, ForEach("Request", { t }), {})
        PROVE  EdgeShape(t, "TASK_WAITING", Each("Request", { t }), {})
    <3>1. LegalEdge(t, "TASK_WAITING", NoEvent) /\ NoEvent \in Events /\ "TASK_WAITING" \in TaskStates
      BY <2>2, EventsAreEvents DEF LegalEdge, TaskStates
    <3>. QED BY <1>1, <2>1, <2>3, <3>1, ForEachTransit
  <2>4. ASSUME Transit(t, "CONTAINER_ALLOCATED", [ NoEvent EXCEPT !.container = c ],
                       IF Gang THEN <<>> ELSE ForEach("Launch", { t }), {})
        PROVE  /\ EdgeShape(t, "CONTAINER_ALLOCATED", IF Gang THEN {} ELSE Each("Launch", { t }), {})
               /\ taskStatus'[t].container = c
    <3>1. PICK event \in Events : event = [ NoEvent EXCEPT !.container = c ] /\ event.container = c
      BY EventsAreEvents
    <3>2. \A u \in Locators : zkStatus[u].container # c /\ taskStatus[u].container # c
      BY <1>5 DEF AMInv, GrantsSound, Unassociated
    <3>3. /\ LegalEdge(t, "CONTAINER_ALLOCATED", event) /\ "CONTAINER_ALLOCATED" \in TaskStates
          /\ TransitionTaskState(t, "CONTAINER_ALLOCATED", event)
      BY <2>2, <2>4, <3>1, <3>2 DEF LegalEdge, TaskStates, Transit
    <3>4. taskStatus'[t].container = c
      <4>1. IInv' /\ taskStatus'[t].state = "CONTAINER_ALLOCATED"
        BY <2>1, <3>3, EdgeSummary DEF AMInv
      <4>2. taskStatus'[t].container # None
        BY <2>1, <4>1 DEF IInv, StatusesWellFormed, WellFormed, ASSOCIATED_STATES, LIVE_STATES
      <4>3. taskStatus[t].container = None
        BY <2>1, <2>2 DEF AMInv, IInv, StatusesWellFormed, WellFormed, ASSOCIATED_STATES, LIVE_STATES
      <4>4. \/ taskStatus'[t].container \in { None, taskStatus[t].container }
            \/ taskStatus'[t].container = event.container
        BY <2>1, <3>3, EdgeSummary DEF AMInv
      <4>. QED BY <3>1, <4>2, <4>3, <4>4
    <3>5. PICK then : /\ then = IF Gang THEN <<>> ELSE ForEach("Launch", { t })
                      /\ then \in Seq({ [ op |-> "Launch", all |-> { t } ] })
                      /\ Elements(then) = IF Gang THEN {} ELSE Each("Launch", { t })
      BY ElementsOne
    <3>6. Transit(t, "CONTAINER_ALLOCATED", event, then, {})
      BY <2>4, <3>1, <3>5
    <3>7. EdgeShape(t, "CONTAINER_ALLOCATED", Elements(then), {})
      BY <1>1, <2>1, <3>3, <3>5, <3>6, TransitShape
    <3>. QED BY <3>4, <3>5, <3>7
  <2>5. ASSUME Proceed(ForEach("Withdraw", { t }), <<>>) PROVE Goes(Each("Withdraw", { t }), {})
    BY <1>1, <2>5, ForEachGoes
  <2>. QED BY <1>1, <1>2, <1>3, <1>4, <1>5, <1>7, <2>1, <2>2, <2>3, <2>4, <2>5
<1>. QED BY <1>6, <1>7

\* The task whose association failed waits again.
LEMMA WithdrawIs ==
    ASSUME AMInv, DoWithdraw
    PROVE  /\ HasWork /\ Work.op = "Withdraw" /\ UNCHANGED << phase, releasing, migrate, exceed >>
           /\ \E t \in Locators : /\ Work.all = { t }
                                  /\ EdgeShape(t, "TASK_WAITING", Each("Request", { t }), {})
<1>1. HasWork /\ Work.op = "Withdraw" /\ UNCHANGED << phase, releasing, migrate, exceed >>
  BY DEF DoWithdraw, Doing
<1>2. PICK t \in Locators : Work.all = { t } /\ taskStatus[t].state = "CONTAINER_REQUESTED"
  BY <1>1, WorkFacts DEF AMInv, Valid
<1>3. Transit(t, "TASK_WAITING", NoEvent, ForEach("Request", { t }), {})
  BY <1>2 DEF DoWithdraw
<1>4. LegalEdge(t, "TASK_WAITING", NoEvent) /\ NoEvent \in Events /\ "TASK_WAITING" \in TaskStates
  BY <1>2, EventsAreEvents DEF LegalEdge, TaskStates
<1>. QED BY <1>1, <1>2, <1>3, <1>4, ForEachTransit

\* launchContainer of one task of the part.
LEMMA LaunchIs ==
    ASSUME AMInv, DoLaunch
    PROVE  /\ HasWork /\ Work.op = "Launch" /\ UNCHANGED << phase, releasing, migrate, exceed >>
           /\ Work.all \subseteq Locators
           /\ \E t \in Work.all :
                 EdgeShape(t, "CONTAINER_LAUNCHED", Each("Launch", Work.all \ { t }), {})
<1>1. HasWork /\ Work.op = "Launch" /\ UNCHANGED << phase, releasing, migrate, exceed >>
  BY DEF DoLaunch, Doing
<1>2. PICK t \in Work.all :
         Transit(t, "CONTAINER_LAUNCHED", NoEvent, ForEach("Launch", Work.all \ { t }), {})
  BY DEF DoLaunch
<1>3. Work.all \subseteq Locators /\ t \in Locators /\ taskStatus[t].state = "CONTAINER_ALLOCATED"
  BY <1>1, <1>2, WorkFacts DEF AMInv, Valid
<1>4. LegalEdge(t, "CONTAINER_LAUNCHED", NoEvent) /\ NoEvent \in Events
      /\ "CONTAINER_LAUNCHED" \in TaskStates
  BY <1>3, EventsAreEvents DEF LegalEdge, TaskStates
<1>5. PICK more : more = Work.all \ { t }
  OBVIOUS
<1>6. EdgeShape(t, "CONTAINER_LAUNCHED", Each("Launch", more), {})
  BY <1>1, <1>2, <1>3, <1>4, <1>5, ForEachTransit
<1>. QED BY <1>1, <1>2, <1>3, <1>5, <1>6

\* The tasks are launched together, if none is outstanding.
LEMMA LaunchAllIs ==
    ASSUME AMInv, DoLaunchAll
    PROVE  /\ HasWork /\ Work.op = "LaunchAll" /\ UNCHANGED << phase, releasing, migrate, exceed >>
           /\ Outstanding = {} =>
                 QuietShape(Each("Launch", taskStateLocators["CONTAINER_ALLOCATED"]), {})
           /\ Outstanding # {} => QuietShape({}, {})
<1>1. HasWork /\ Work.op = "LaunchAll" /\ UNCHANGED << phase, releasing, migrate, exceed >>
  BY DEF DoLaunchAll, Doing
<1>2. /\ UNCHANGED << smVars, timers >>
      /\ Proceed(IF Outstanding = {} THEN ForEach("Launch", taskStateLocators["CONTAINER_ALLOCATED"])
                 ELSE <<>>, <<>>)
  BY DEF DoLaunchAll
<1>3. Outstanding = {} => Goes(Each("Launch", taskStateLocators["CONTAINER_ALLOCATED"]), {})
  BY <1>1, <1>2, ForEachGoes
<1>4. Outstanding # {} => Ignore
  BY <1>2 DEF Ignore
<1>. QED BY <1>1, <1>2, <1>3, <1>4, IgnoreShape DEF QuietShape

\* A round that times out with outstanding tasks stops the AM.
LEMMA GangTimeoutIs ==
    ASSUME AMInv, DoGangTimeout
    PROVE  /\ HasWork /\ Work.op = "GangTimeout" /\ UNCHANGED << releasing, migrate, exceed >>
           /\ QuietShape({}, {})
           /\ phase' = IF Work.round = round /\ Outstanding # {} THEN "stopping" ELSE phase
<1>1. /\ HasWork /\ Work.op = "GangTimeout" /\ UNCHANGED << releasing, migrate, exceed >>
      /\ phase' = IF Work.round = round /\ Outstanding # {} THEN "stopping" ELSE phase
      /\ Ignore
  BY DEF DoGangTimeout, Doing
<1>. QED BY <1>1, IgnoreShape

\* recoverTransitionTaskStateQueue: a part for the tasks to retry.
LEMMA RetryAllIs ==
    ASSUME AMInv, DoRetryAll
    PROVE  /\ HasWork /\ Work.op = "RetryAll" /\ UNCHANGED << phase, releasing, migrate, exceed >>
           /\ QuietShape(Each("Retry", taskStateLocators["CONTAINER_COMPLETED"]), {})
<1>1. HasWork /\ Work.op = "RetryAll" /\ UNCHANGED << phase, releasing, migrate, exceed >>
  BY DEF DoRetryAll, Doing
<1>2. Proceed(ForEach("Retry", taskStateLocators["CONTAINER_COMPLETED"]), <<>>)
      /\ UNCHANGED << smVars, timers >>
  BY DEF DoRetryAll
<1>3. Goes(Each("Retry", taskStateLocators["CONTAINER_COMPLETED"]), {})
  BY <1>1, <1>2, ForEachGoes
<1>. QED BY <1>1, <1>2, <1>3 DEF QuietShape

\* The end of a resync arms the next one.
LEMMA QueueResyncIs ==
    ASSUME AMInv, DoQueueResync
    PROVE  /\ HasWork /\ Work.op = "QueueResync" /\ UNCHANGED << phase, releasing, migrate, exceed >>
           /\ QuietShape({}, { Plain("Resync") })
<1>1. HasWork /\ Work.op = "QueueResync" /\ UNCHANGED << phase, releasing, migrate, exceed >>
  BY DEF DoQueueResync, Doing
<1>2. /\ timers' = timers \cup { Plain("Resync") } /\ Proceed(<<>>, <<>>) /\ UNCHANGED smVars
  BY DEF DoQueueResync
<1>3. Goes(Elements(<< >>), Elements(<< >>))
  BY <1>1, <1>2, ElementsOne, ProceedGoes
<1>. QED BY <1>1, <1>2, <1>3, ElementsOne DEF QuietShape

\* A container was started: its task is running, or was already.
LEMMA StartedIs ==
    ASSUME AMInv, DoStarted
    PROVE  /\ HasWork /\ Work.op = "Started" /\ UNCHANGED << phase, releasing, migrate, exceed >>
           /\ \/ QuietShape({}, {})
              \/ \E t \in Locators : /\ taskStatus[t].state = "CONTAINER_LAUNCHED"
                                     /\ EdgeShape(t, "CONTAINER_RUNNING", {}, {})
<1>1. HasWork /\ Work.op = "Started" /\ UNCHANGED << phase, releasing, migrate, exceed >>
  BY DEF DoStarted, Doing
<1>2. IF IsLiveAssociated(Work.container)
      THEN Transit(liveLocators[Work.container], "CONTAINER_RUNNING", NoEvent, <<>>, {})
      ELSE Ignore
  BY DEF DoStarted
<1>3. PICK c \in Containers : c = Work.container
  BY <1>1, WorkFacts DEF AMInv
<1>4. StartPending(c)
  BY <1>1, <1>3, WorkFacts DEF AMInv, StartPending, StartedIn
<1>5. CASE liveLocators[c] = None
  BY <1>1, <1>2, <1>3, <1>5, IgnoreShape DEF IsLiveAssociated
<1>6. CASE liveLocators[c] # None
  <2>1. PICK t \in Locators : t = liveLocators[c]
    BY <1>6 DEF AMInv, IInv, SMTypeOK
  <2>2. taskStatus[t].state \in { "CONTAINER_LAUNCHED", "CONTAINER_RUNNING" }
    BY <1>4, <1>6, <2>1 DEF AMInv, GrantsSound
  <2>3. Transit(t, "CONTAINER_RUNNING", NoEvent, <<>>, {})
    BY <1>2, <1>3, <1>6, <2>1 DEF IsLiveAssociated
  <2>4. TransitionTaskState(t, "CONTAINER_RUNNING", NoEvent) /\ "CONTAINER_RUNNING" \in TaskStates
    BY <2>3 DEF Transit, TaskStates
  <2>5. ASSUME taskStatus[t].state = "CONTAINER_RUNNING"
        PROVE  QuietShape({}, {})
    <3>1. UNCHANGED smVars
      BY <2>4, <2>5 DEF TransitionTaskState
    <3>2. UNCHANGED taskStateLocators
      BY <3>1 DEF smVars, extVars
    <3>3. ~Disappears(FALSE) /\ ~Appears(FALSE)
      BY <3>2 DEF Disappears, Appears, Outstanding, TasksIn
    <3>4. Proceed(<< >>, << >>) /\ timers' = Armed(timers \cup {})
      BY <2>3, <3>3 DEF Transit, ProceedWithCallbacks
    <3>5. Goes(Elements(<< >>), Elements(<< >>))
      BY <1>1, <3>4, ElementsOne, ProceedGoes
    <3>. QED BY <3>1, <3>4, <3>5, ElementsOne DEF QuietShape
  <2>6. ASSUME taskStatus[t].state = "CONTAINER_LAUNCHED"
        PROVE  EdgeShape(t, "CONTAINER_RUNNING", {}, {})
    <3>1. LegalEdge(t, "CONTAINER_RUNNING", NoEvent) /\ NoEvent \in Events
      BY <2>6, EventsAreEvents DEF LegalEdge
    <3>2. EdgeShape(t, "CONTAINER_RUNNING", Elements(<< >>), {})
      BY <1>1, <2>3, <2>4, <3>1, ElementsOne, TransitShape
    <3>. QED BY <3>2, ElementsOne
  <2>. QED BY <1>1, <2>2, <2>5, <2>6
<1>. QED BY <1>5, <1>6

\* A container whose start failed is completed, if it is still a task's.
LEMMA StartFailedIs ==
    ASSUME AMInv, DoStartFailed
    PROVE  /\ HasWork /\ Work.op = "StartFailed" /\ UNCHANGED << phase, releasing, migrate, exceed >>
           /\ Work.container \in Containers
           /\ liveLocators[Work.container] = None => QuietShape({}, {})
           /\ liveLocators[Work.container] # None =>
                 QuietShape({ Completion(Work.container, "TRANSIENT_NORMAL", TRUE, "start") }, {})
<1>1. HasWork /\ Work.op = "StartFailed" /\ UNCHANGED << phase, releasing, migrate, exceed >>
  BY DEF DoStartFailed, Doing
<1>2. /\ Proceed(IF IsLiveAssociated(Work.container)
                 THEN << Completion(Work.container, "TRANSIENT_NORMAL", TRUE, "start") >>
                 ELSE <<>>, <<>>)
      /\ UNCHANGED << smVars, timers >>
  BY DEF DoStartFailed
<1>3. Work.container \in Containers
  BY <1>1, WorkFacts DEF AMInv
<1>4. ASSUME liveLocators[Work.container] = None PROVE QuietShape({}, {})
  BY <1>1, <1>2, <1>4, IgnoreShape DEF IsLiveAssociated, Ignore
<1>5. ASSUME liveLocators[Work.container] # None
      PROVE  QuietShape({ Completion(Work.container, "TRANSIENT_NORMAL", TRUE, "start") }, {})
  <2>1. PICK e : e = Completion(Work.container, "TRANSIENT_NORMAL", TRUE, "start")
    OBVIOUS
  <2>2. Proceed(<< e >>, << >>)
    BY <1>2, <1>5, <2>1 DEF IsLiveAssociated
  <2>3. << e >> \in Seq({ e }) /\ Elements(<< e >>) = { e } /\ Elements(<< >>) = {}
    BY ElementsOne
  <2>4. Goes(Elements(<< e >>), Elements(<< >>))
    BY <1>1, <2>2, <2>3, ProceedGoes
  <2>. QED BY <1>2, <2>1, <2>3, <2>4 DEF QuietShape
<1>. QED BY <1>1, <1>3, <1>4, <1>5

\* completeContainer completes the task of the container, if there is one.
LEMMA CompleteIs ==
    ASSUME AMInv, DoComplete
    PROVE  /\ HasWork /\ Work.op = "Complete" /\ UNCHANGED << phase, exceed >>
           /\ Work.container \in Containers
           /\ releasing' = IF Work.release THEN releasing \cup { Work.container } ELSE releasing
           /\ migrate' = IF Work.why = "migrate" THEN migrate \ { Work.container } ELSE migrate
           /\ liveLocators[Work.container] = None => QuietShape({}, {})
           /\ liveLocators[Work.container] # None =>
                 \E t \in Locators : /\ t = liveLocators[Work.container]
                                     /\ EdgeShape(t, "CONTAINER_COMPLETED", Each("Retry", { t }), {})
<1>1. HasWork /\ Work.op = "Complete" /\ UNCHANGED << phase, exceed >>
  BY DEF DoComplete, Doing
<1>2. /\ releasing' = IF Work.release THEN releasing \cup { Work.container } ELSE releasing
      /\ migrate' = IF Work.why = "migrate" THEN migrate \ { Work.container } ELSE migrate
      /\ IF liveLocators[Work.container] = None THEN Ignore
         ELSE Transit(liveLocators[Work.container], "CONTAINER_COMPLETED",
                      [ NoEvent EXCEPT !.exit = Work.exit ],
                      ForEach("Retry", { liveLocators[Work.container] }), {})
  BY DEF DoComplete
<1>3. PICK c \in Containers, exit \in ExitTypes : c = Work.container /\ exit = Work.exit
  BY <1>1, WorkFacts DEF AMInv, CompletionItems
<1>4. ASSUME liveLocators[c] = None PROVE QuietShape({}, {})
  BY <1>1, <1>2, <1>3, <1>4, IgnoreShape
<1>5. ASSUME liveLocators[c] # None
      PROVE  \E t \in Locators : /\ t = liveLocators[c]
                                 /\ EdgeShape(t, "CONTAINER_COMPLETED", Each("Retry", { t }), {})
  <2>1. PICK t \in Locators : t = liveLocators[c]
    BY <1>5 DEF AMInv, IInv, SMTypeOK
  <2>2. PICK event \in Events : event = [ NoEvent EXCEPT !.exit = exit ]
    BY EventsAreEvents
  <2>3. taskStatus[t].state \in LIVE_STATES /\ taskStatus[t].container = c
    BY <2>1, LiveTask
  <2>4. Transit(t, "CONTAINER_COMPLETED", event, ForEach("Retry", { t }), {})
    BY <1>2, <1>3, <1>5, <2>1, <2>2
  <2>5. LegalEdge(t, "CONTAINER_COMPLETED", event) /\ "CONTAINER_COMPLETED" \in TaskStates
    BY <2>3, <2>4 DEF Transit, LegalEdge, TaskStates
  <2>. QED BY <1>1, <2>1, <2>4, <2>5, ForEachTransit
<1>. QED BY <1>1, <1>2, <1>3, <1>4, <1>5

\* attemptToRetry retries a task or completes it.
LEMMA RetryIs ==
    ASSUME AMInv, DoRetry
    PROVE  /\ HasWork /\ Work.op = "Retry" /\ UNCHANGED << releasing, migrate, exceed >>
           /\ Work.all \subseteq Locators
           /\ \E t \in Work.all :
                 /\ taskStatus[t].state = "CONTAINER_COMPLETED"
                 /\ \/ /\ phase' = phase
                       /\ EdgeShape(t, "TASK_WAITING",
                                Each("Request", { t }) \cup Each("Retry", Work.all \ { t }), {})
                    \/ /\ phase' \in { "stopping", phase }
                       /\ EdgeShape(t, "TASK_COMPLETED", Each("Retry", Work.all \ { t }), {})
<1>1. HasWork /\ Work.op = "Retry" /\ UNCHANGED << releasing, migrate, exceed >>
  BY DEF DoRetry, Doing
<1>2. PICK t \in Work.all :
         \/ /\ Transit(t, "TASK_WAITING", [ NoEvent EXCEPT !.retried = taskStatus[t].retried ],
                       ForEach("Request", { t }) \o ForEach("Retry", Work.all \ { t }), {})
            /\ UNCHANGED phase
         \/ /\ taskStatus[t].retried < MaxRetried
            /\ Transit(t, "TASK_WAITING", [ NoEvent EXCEPT !.retried = taskStatus[t].retried + 1 ],
                       ForEach("Request", { t }) \o ForEach("Retry", Work.all \ { t }), {})
            /\ UNCHANGED phase
         \/ /\ Transit(t, "TASK_COMPLETED", NoEvent, ForEach("Retry", Work.all \ { t }), {})
            /\ phase' \in { "stopping", phase }
  BY DEF DoRetry
<1>3. /\ Work.all \subseteq Locators /\ t \in Locators
      /\ taskStatus[t].state = "CONTAINER_COMPLETED"
  BY <1>1, <1>2, WorkFacts DEF AMInv, Valid
<1>4. PICK more : more = Work.all \ { t }
  OBVIOUS
<1>5. taskStatus[t].retried \in 0 .. MaxRetried /\ MaxRetried \in Nat
  BY <1>3, ConstantsAssumption DEF AMInv, IInv, SMTypeOK, TaskStatuses
<1>6. taskStatus[t].retried < MaxRetried => taskStatus[t].retried + 1 \in 0 .. MaxRetried
  BY <1>5
<1>7. ASSUME NEW count \in 0 .. MaxRetried,
             Transit(t, "TASK_WAITING", [ NoEvent EXCEPT !.retried = count ],
                     ForEach("Request", { t }) \o ForEach("Retry", more), {})
      PROVE  EdgeShape(t, "TASK_WAITING", Each("Request", { t }) \cup Each("Retry", more), {})
  <2>1. PICK event \in Events : event = [ NoEvent EXCEPT !.retried = count ]
    BY EventsAreEvents
  <2>2. LegalEdge(t, "TASK_WAITING", event) /\ "TASK_WAITING" \in TaskStates
    BY <1>3, <1>7, <2>1 DEF Transit, LegalEdge, TaskStates
  <2>3. PICK u, v, d, e :
           /\ u = ForEach("Request", { t }) /\ v = ForEach("Retry", more)
           /\ d = [ op |-> "Request", all |-> { t } ] /\ e = [ op |-> "Retry", all |-> more ]
    OBVIOUS
  <2>4. /\ u \in Seq({ d }) /\ v \in Seq({ e })
        /\ Elements(u) = Each("Request", { t }) /\ Elements(v) = Each("Retry", more)
    BY <2>3, ElementsOne
  <2>5. u \in Seq({ d, e }) /\ v \in Seq({ d, e })
    BY <2>4, SeqGrows
  <2>6. u \o v \in Seq({ d, e })
    BY <2>5
  <2>7. Elements(u \o v) = Elements(u) \cup Elements(v)
    BY <2>5, ElementsBoth
  <2>8. PICK w \in Seq({ d, e }) : w = u \o v
    BY <2>6, Zenon
  <2>9. Transit(t, "TASK_WAITING", event, w, {})
    BY <1>7, <2>1, <2>3, <2>8
  <2>10. EdgeShape(t, "TASK_WAITING", Elements(w), {})
    BY <1>1, <1>3, <2>2, <2>9, TransitShape
  <2>11. Elements(w) = Each("Request", { t }) \cup Each("Retry", more)
    BY <2>4, <2>7, <2>8, Zenon
  <2>. QED BY <2>10, <2>11
<1>8. ASSUME Transit(t, "TASK_COMPLETED", NoEvent, ForEach("Retry", more), {})
      PROVE  EdgeShape(t, "TASK_COMPLETED", Each("Retry", more), {})
  <2>1. LegalEdge(t, "TASK_COMPLETED", NoEvent) /\ NoEvent \in Events /\ "TASK_COMPLETED" \in TaskStates
    BY <1>3, EventsAreEvents DEF LegalEdge, TaskStates
  <2>. QED BY <1>1, <1>3, <1>8, <2>1, ForEachTransit
<1>. QED BY <1>1, <1>2, <1>3, <1>4, <1>5, <1>6, <1>7, <1>8

\* onTaskNumbersUpdated: its parts, and the callbacks of updateTaskNumbers.
LEMMA NumbersIs ==
    ASSUME AMInv, DoNumbers
    PROVE  /\ HasWork /\ Work.op = "Numbers" /\ UNCHANGED << phase, migrate, exceed >>
           /\ Work.numbers \in Numbers /\ UpdateTaskNumbers(Work.numbers)
           /\ todo = << >> /\ Elements(Rest) = {}
           /\ releasing' = releasing \cup ContainersOf(Removed(Work.numbers))
           /\ Goes({ Plain("AllWaiting") },
                   IF Gang /\ Disappears(~triggered) THEN { Plain("LaunchAll") } ELSE {})
           /\ timers' = Armed(timers \cup {} \cup
                  IF Gang /\ Appears(~triggered) THEN { GangTimeout(round) } ELSE {})
<1>1. HasWork /\ Work.op = "Numbers" /\ UNCHANGED << phase, migrate, exceed >>
  BY DEF DoNumbers, Doing
<1>2. /\ UpdateTaskNumbers(Work.numbers)
      /\ releasing' = releasing \cup ContainersOf(Removed(Work.numbers))
      /\ ProceedWithCallbacks(<< Plain("AllWaiting") >>, ~triggered, {})
  BY DEF DoNumbers
<1>3. Work.numbers \in Numbers /\ todo = << >> /\ Elements(Rest) = {}
  BY <1>1, WorkFacts, ElementsOne DEF AMInv, Rest
<1>4. PICK submitted :
         /\ submitted = IF Gang /\ Disappears(~triggered) THEN << Plain("LaunchAll") >> ELSE << >>
         /\ Proceed(<< Plain("AllWaiting") >>, submitted)
  BY <1>2 DEF ProceedWithCallbacks
<1>5. Goes(Elements(<< Plain("AllWaiting") >>), Elements(submitted))
  BY <1>1, <1>4, ElementsOne, ProceedGoes
<1>6. /\ Elements(<< Plain("AllWaiting") >>) = { Plain("AllWaiting") }
      /\ Elements(submitted) = IF Gang /\ Disappears(~triggered) THEN { Plain("LaunchAll") } ELSE {}
  BY <1>4, ElementsOne
<1>. QED BY <1>1, <1>2, <1>3, <1>5, <1>6 DEF ProceedWithCallbacks

\* Only live tasks are counted.
LEMMA CountsLive ==
    ASSUME AMInv,
           \/ \E cs \in SUBSET Containers : ResetLostCount(cs)
           \/ \E c \in Containers : IncreaseLostCount(c)
    PROVE  /\ \E count : SetLostCounts(count)
           /\ \A t \in Locators : taskStatus[t].state \notin LIVE_STATES => taskStatus'[t] = taskStatus[t]
<1>1. PICK count : /\ SetLostCounts(count)
                   /\ \A t \in Locators :
                         count[t] = taskStatus[t].lost \/ \E c \in Containers : liveLocators[c] = t
  <2>1. ASSUME NEW cs \in SUBSET Containers, ResetLostCount(cs)
        PROVE  \E count : /\ SetLostCounts(count)
                          /\ \A t \in Locators :
                                count[t] = taskStatus[t].lost \/ \E c \in Containers : liveLocators[c] = t
    BY <2>1 DEF ResetLostCount
  <2>2. ASSUME NEW c \in Containers, IncreaseLostCount(c)
        PROVE  \E count : /\ SetLostCounts(count)
                          /\ \A t \in Locators :
                                count[t] = taskStatus[t].lost \/ \E d \in Containers : liveLocators[d] = t
    BY <2>2 DEF IncreaseLostCount
  <2>. QED BY <2>1, <2>2
<1>2. ASSUME NEW t \in Locators, taskStatus[t].state \notin LIVE_STATES
      PROVE  taskStatus'[t] = taskStatus[t]
  <2>1. \A c \in Containers : liveLocators[c] # t
    BY <1>2, LiveTask
  <2>2. count[t] = taskStatus[t].lost
    BY <1>1, <2>1
  <2>3. taskStatus[t] \in TaskStatuses
    BY DEF AMInv, IInv, SMTypeOK
  <2>4. [ taskStatus[t] EXCEPT !.lost = taskStatus[t].lost ] = taskStatus[t]
    BY <2>3 DEF TaskStatuses
  <2>. QED BY <1>1, <2>2, <2>4 DEF SetLostCounts
<1>. QED BY <1>1, <1>2

\* A resync that fails only resets the lost counts and arms the next one.
LEMMA ResyncFailsIs ==
    ASSUME AMInv, DoResyncFails
    PROVE  /\ HasWork /\ Work.op = "Resync" /\ UNCHANGED << phase, releasing, migrate, exceed >>
           /\ CountShape({}, { Plain("Resync") })
<1>1. HasWork /\ Work.op = "Resync" /\ UNCHANGED << phase, releasing, migrate, exceed >>
  BY DEF DoResyncFails, Doing
<1>2. /\ ResetLostCount(LiveAssociatedContainers) /\ Proceed(<<>>, <<>>)
      /\ timers' = timers \cup { Plain("Resync") }
  BY DEF DoResyncFails
<1>3. /\ \E count : SetLostCounts(count)
      /\ \A t \in Locators : taskStatus[t].state \notin LIVE_STATES => taskStatus'[t] = taskStatus[t]
  <2>1. LiveAssociatedContainers \in SUBSET Containers
    BY DEF LiveAssociatedContainers
  <2>. QED BY <1>2, <2>1, CountsLive
<1>4. Goes(Elements(<< >>), Elements(<< >>))
  BY <1>1, <1>2, ElementsOne, ProceedGoes
<1>. QED BY <1>1, <1>2, <1>3, <1>4, ElementsOne DEF CountShape

\* The parts of a resync.
LEMMA ResyncIs ==
    ASSUME AMInv, DoResync
    PROVE  /\ HasWork /\ Work.op = "Resync" /\ UNCHANGED << phase, releasing, migrate, exceed >>
           /\ todo = << >> /\ Elements(Rest) = {}
           /\ \E seen \in SUBSET AliveContainers :
                 QuietShape(Each("Seen", seen)
                                \cup Each("Missing", LiveAssociatedContainers \ seen)
                                \cup { Plain("QueueResync") }, {})
<1>1. /\ HasWork /\ Work.op = "Resync" /\ UNCHANGED << phase, releasing, migrate, exceed >>
      /\ UNCHANGED << smVars, timers >>
  BY DEF DoResync, Doing
<1>2. PICK seen \in SUBSET AliveContainers :
         Proceed(ForEach("Seen", seen)
                 \o ForEach("Missing", LiveAssociatedContainers \ seen)
                 \o << Plain("QueueResync") >>, <<>>)
  BY DEF DoResync
<1>3. PICK missing, a, b, d, u, v, w :
         /\ missing = LiveAssociatedContainers \ seen
         /\ a = [ op |-> "Seen", all |-> seen ] /\ b = [ op |-> "Missing", all |-> missing ]
         /\ d = Plain("QueueResync")
         /\ u = ForEach("Seen", seen) /\ v = ForEach("Missing", missing) /\ w = << d >>
  OBVIOUS
<1>4. /\ u \in Seq({ a }) /\ v \in Seq({ b }) /\ w \in Seq({ d })
      /\ Elements(u) = Each("Seen", seen) /\ Elements(v) = Each("Missing", missing)
      /\ Elements(w) = { d }
  BY <1>3, ElementsOne
<1>5. u \in Seq({ a, b, d }) /\ v \in Seq({ a, b, d }) /\ w \in Seq({ a, b, d })
  BY <1>4, SeqGrows
<1>6. u \o v \in Seq({ a, b, d })
  BY <1>5
<1>7. Elements(u \o v) = Elements(u) \cup Elements(v)
  BY <1>5, ElementsBoth
<1>8. PICK x \in Seq({ a, b, d }) : x = u \o v
  BY <1>6, Zenon
<1>9. x \o w \in Seq({ a, b, d })
  BY <1>5, <1>8
<1>10. Elements(x \o w) = Elements(x) \cup Elements(w)
  BY <1>5, ElementsBoth
<1>11. PICK y \in Seq({ a, b, d }) : y = x \o w
  BY <1>9, Zenon
<1>12. Proceed(y, << >>)
  BY <1>2, <1>3, <1>8, <1>11, Zenon
<1>13. Elements(y) = Each("Seen", seen) \cup Each("Missing", missing) \cup { d }
  BY <1>4, <1>7, <1>8, <1>10, <1>11, Zenon
<1>14. Goes(Elements(y), Elements(<< >>))
  BY <1>1, <1>12, ElementsOne, ProceedGoes
<1>15. QuietShape(Elements(y), {})
  BY <1>1, <1>14, ElementsOne DEF QuietShape
<1>16. todo = << >> /\ Elements(Rest) = {}
  BY <1>1, WorkFacts, ElementsOne DEF AMInv, Rest
<1>. QED BY <1>1, <1>3, <1>13, <1>15, <1>16

\* A container the RM still has: its task is found, or it is counted and, in the
\* end, completed.
LEMMA SeenIs ==
    ASSUME AMInv, DoSeen
    PROVE  /\ HasWork /\ Work.op = "Seen" /\ UNCHANGED << phase, releasing, migrate >>
           /\ Work.all \subseteq Containers
           /\ \E c \in Work.all :
                 \/ /\ liveLocators[c] # None /\ exceed' = exceed
                    /\ CountShape(Each("Seen", Work.all \ { c }), {})
                 \/ /\ liveLocators[c] = None /\ exceed' = [ exceed EXCEPT ![c] = 0 ]
                    /\ exceed[c] + 1 > MaxExceed
                    /\ QuietShape({ Completion(c, "NON_TRANSIENT", TRUE, "exceed") }
                                      \cup Each("Seen", Work.all \ { c }), {})
                 \/ /\ liveLocators[c] = None /\ exceed' = [ exceed EXCEPT ![c] = exceed[c] + 1 ]
                    /\ ~(exceed[c] + 1 > MaxExceed)
                    /\ QuietShape(Each("Seen", Work.all \ { c }), {})
<1>1. HasWork /\ Work.op = "Seen" /\ UNCHANGED << phase, releasing, migrate, timers >>
  BY DEF DoSeen, Doing
<1>2. PICK c \in Work.all :
         \/ /\ IsLiveAssociated(c)
            /\ ResetLostCount({ c })
            /\ Proceed(ForEach("Seen", Work.all \ { c }), << >>)
            /\ UNCHANGED exceed
         \/ /\ ~IsLiveAssociated(c) /\ UNCHANGED smVars
            /\ exceed[c] + 1 > MaxExceed /\ exceed' = [ exceed EXCEPT ![c] = 0 ]
            /\ Proceed(<< Completion(c, "NON_TRANSIENT", TRUE, "exceed") >>
                           \o ForEach("Seen", Work.all \ { c }), <<>>)
         \/ /\ ~IsLiveAssociated(c) /\ UNCHANGED smVars
            /\ ~(exceed[c] + 1 > MaxExceed) /\ exceed' = [ exceed EXCEPT ![c] = @ + 1 ]
            /\ Proceed(ForEach("Seen", Work.all \ { c }), <<>>)
  BY Zenon DEF DoSeen
<1>3. Work.all \subseteq Containers
  BY <1>1, WorkFacts DEF AMInv
<1>4. PICK more : more = Work.all \ { c }
  OBVIOUS
<1>5. ASSUME Proceed(ForEach("Seen", more), << >>) PROVE Goes(Each("Seen", more), {})
  BY <1>1, <1>5, ForEachGoes
<1>6. ASSUME Proceed(<< Completion(c, "NON_TRANSIENT", TRUE, "exceed") >> \o ForEach("Seen", more), <<>>)
      PROVE  Goes({ Completion(c, "NON_TRANSIENT", TRUE, "exceed") } \cup Each("Seen", more), {})
  <2>1. PICK d, e, u, v :
           /\ d = Completion(c, "NON_TRANSIENT", TRUE, "exceed") /\ e = [ op |-> "Seen", all |-> more ]
           /\ u = << d >> /\ v = ForEach("Seen", more)
    OBVIOUS
  <2>2. /\ u \in Seq({ d }) /\ v \in Seq({ e })
        /\ Elements(u) = { d } /\ Elements(v) = Each("Seen", more)
    BY <2>1, ElementsOne
  <2>3. u \in Seq({ d, e }) /\ v \in Seq({ d, e })
    BY <2>2, SeqGrows
  <2>4. u \o v \in Seq({ d, e })
    BY <2>3
  <2>5. Elements(u \o v) = Elements(u) \cup Elements(v)
    BY <2>3, ElementsBoth
  <2>6. PICK w \in Seq({ d, e }) : w = u \o v
    BY <2>4, Zenon
  <2>7. Proceed(w, << >>)
    BY <1>6, <2>1, <2>6
  <2>8. Goes(Elements(w), Elements(<< >>))
    BY <1>1, <2>7, ElementsOne, ProceedGoes
  <2>9. Elements(w) = { d } \cup Each("Seen", more)
    BY <2>2, <2>5, <2>6, Zenon
  <2>. QED BY <2>1, <2>8, <2>9, ElementsOne
<1>7. ResetLostCount({ c }) =>
         /\ \E count : SetLostCounts(count)
         /\ \A t \in Locators : taskStatus[t].state \notin LIVE_STATES => taskStatus'[t] = taskStatus[t]
  <2>1. { c } \in SUBSET Containers
    BY <1>2, <1>3
  <2>. QED BY <2>1, CountsLive
<1>. QED BY <1>1, <1>2, <1>3, <1>4, <1>5, <1>6, <1>7 DEF CountShape, QuietShape, IsLiveAssociated

\* A container the RM does not know is counted as lost and, in the end, completed.
LEMMA MissingIs ==
    ASSUME AMInv, DoMissing
    PROVE  /\ HasWork /\ Work.op = "Missing" /\ UNCHANGED << phase, releasing, migrate, exceed >>
           /\ Work.all \subseteq Containers
           /\ \E c \in Work.all :
                 \/ CountShape({ Completion(c, "TRANSIENT_NORMAL", TRUE, "lost") }
                                   \cup Each("Missing", Work.all \ { c }), {})
                 \/ CountShape(Each("Missing", Work.all \ { c }), {})
<1>1. HasWork /\ Work.op = "Missing" /\ UNCHANGED << phase, releasing, migrate, exceed, timers >>
  BY DEF DoMissing, Doing
<1>2. PICK c \in Work.all :
         /\ IncreaseLostCount(c)
         /\ \/ Proceed(<< Completion(c, "TRANSIENT_NORMAL", TRUE, "lost") >>
                           \o ForEach("Missing", Work.all \ { c }), <<>>)
            \/ Proceed(ForEach("Missing", Work.all \ { c }), <<>>)
  BY DEF DoMissing
<1>3. Work.all \subseteq Containers
  BY <1>1, WorkFacts DEF AMInv
<1>4. PICK more : more = Work.all \ { c }
  OBVIOUS
<1>5. ASSUME Proceed(ForEach("Missing", more), << >>) PROVE Goes(Each("Missing", more), {})
  BY <1>1, <1>5, ForEachGoes
<1>6. ASSUME Proceed(<< Completion(c, "TRANSIENT_NORMAL", TRUE, "lost") >> \o ForEach("Missing", more), <<>>)
      PROVE  Goes({ Completion(c, "TRANSIENT_NORMAL", TRUE, "lost") } \cup Each("Missing", more), {})
  <2>1. PICK d, e, u, v :
           /\ d = Completion(c, "TRANSIENT_NORMAL", TRUE, "lost") /\ e = [ op |-> "Missing", all |-> more ]
           /\ u = << d >> /\ v = ForEach("Missing", more)
    OBVIOUS
  <2>2. /\ u \in Seq({ d }) /\ v \in Seq({ e })
        /\ Elements(u) = { d } /\ Elements(v) = Each("Missing", more)
    BY <2>1, ElementsOne
  <2>3. u \in Seq({ d, e }) /\ v \in Seq({ d, e })
    BY <2>2, SeqGrows
  <2>4. u \o v \in Seq({ d, e })
    BY <2>3
  <2>5. Elements(u \o v) = Elements(u) \cup Elements(v)
    BY <2>3, ElementsBoth
  <2>6. PICK w \in Seq({ d, e }) : w = u \o v
    BY <2>4, Zenon
  <2>7. Proceed(w, << >>)
    BY <1>6, <2>1, <2>6
  <2>8. Goes(Elements(w), Elements(<< >>))
    BY <1>1, <2>7, ElementsOne, ProceedGoes
  <2>9. Elements(w) = { d } \cup Each("Missing", more)
    BY <2>2, <2>5, <2>6, Zenon
  <2>. QED BY <2>1, <2>8, <2>9, ElementsOne
<1>7. /\ \E count : SetLostCounts(count)
      /\ \A t \in Locators : taskStatus[t].state \notin LIVE_STATES => taskStatus'[t] = taskStatus[t]
  BY <1>2, <1>3, CountsLive
<1>. QED BY <1>1, <1>2, <1>3, <1>4, <1>5, <1>6, <1>7 DEF CountShape

-----------------------------------------------------------------------------
(* The shape of every other step *)

\* What is pending only grows, and the AM's memory stays as it is.
OutsideShape ==
    /\ UNCHANGED << memVars, extVars, reqVars, allocated, gangVars, todo, crashes >>
    /\ Pending \subseteq Pending'
    /\ phase' = "running" => phase = "running"

\* The elements of a queue that grows by one.
LEMMA ElementsAppend ==
    ASSUME NEW S, NEW w \in Seq(S), NEW e \in S
    PROVE  Elements(Append(w, e)) = Elements(w) \cup { e }
<1>1. Append(w, e) = w \o << e >> /\ << e >> \in Seq(S)
  OBVIOUS
<1>2. Elements(w \o << e >>) = Elements(w) \cup Elements(<< e >>)
  BY <1>1, ElementsJoin
<1>. QED BY <1>1, <1>2, ElementsOne

\* Steps of the queue, of the users, of the push thread and of YARN.
LEMMA OutsideIs ==
    ASSUME AMInv, [Next]_vars
    PROVE  WorkerStep \/ CrashAndRestart \/ OutsideShape
<1>1. queue \in Seq(QueueItems) /\ timers \subseteq QueueItems /\ inbox \subseteq QueueItems
  BY DEF AMInv, AMTypes, QueueItems
<1>2. Pending = Elements(queue) \cup Elements(todo) \cup timers
      /\ Pending' = Elements(queue') \cup Elements(todo') \cup timers'
  BY DEF Pending, Elements
<1>3. ASSUME NEW d \in timers, Fire(d) PROVE OutsideShape
  <2>1. /\ phase = "running" /\ timers' = timers \ { d } /\ queue' = Append(queue, d)
        /\ UNCHANGED << smVars, phase, todo, cntVars >>
    BY <1>3 DEF Fire, HasRoom
  <2>2. Elements(queue') = Elements(queue) \cup { d }
    BY <1>1, <2>1, ElementsAppend
  <2>. QED BY <1>2, <2>1, <2>2 DEF OutsideShape, smVars, cntVars
<1>4. ASSUME NEW c \in Containers, Deliver(c) PROVE OutsideShape
  <2>1. PICK n \in inbox : queue' = Append(queue, n)
    BY <1>4 DEF Deliver
  <2>2. UNCHANGED << smVars, phase, todo, timers, cntVars >>
    BY <1>4 DEF Deliver
  <2>3. Elements(queue') = Elements(queue) \cup { n }
    BY <1>1, <2>1, ElementsAppend
  <2>. QED BY <1>2, <2>2, <2>3 DEF OutsideShape, smVars, cntVars
<1>5. ASSUME PullNumbers PROVE OutsideShape
  <2>1. PICK n \in Numbers : queue' = Append(queue, NumbersTo(n))
    BY <1>5 DEF PullNumbers
  <2>2. UNCHANGED << smVars, phase, todo, timers, crashes >>
    BY <1>5 DEF PullNumbers
  <2>3. PICK e \in QueueItems : e = NumbersTo(n)
    BY DEF NumbersTo, QueueItems
  <2>4. Elements(queue') = Elements(queue) \cup { e }
    BY <1>1, <2>1, <2>3, ElementsAppend
  <2>. QED BY <1>2, <2>2, <2>4 DEF OutsideShape, smVars
<1>6. ASSUME AskMigrate PROVE OutsideShape
  <2>1. UNCHANGED << smVars, phase, queue, todo, timers, crashes >>
    BY <1>6 DEF AskMigrate
  <2>. QED BY <1>2, <2>1 DEF OutsideShape, smVars
<1>7. ASSUME PullMigrate PROVE OutsideShape
  <2>1. UNCHANGED << smVars, phase, todo, timers, cntVars >>
    BY <1>7 DEF PullMigrate
  <2>2. PICK new \in [ 1 .. Cardinality(migrate \ notified) -> migrate \ notified ] :
           queue' = queue \o [ i \in DOMAIN new |->
               Completion(new[i], "TRANSIENT_NORMAL", TRUE, "migrate") ]
    BY <1>7 DEF PullMigrate
  <2>3. PICK k \in Nat : k = Cardinality(migrate \ notified)
    BY FS_Difference, FS_CardinalityType DEF AMInv, AMTypes
  <2>4. PICK more, S : /\ more = [ i \in 1 .. k |-> Completion(new[i], "TRANSIENT_NORMAL", TRUE, "migrate") ]
                       /\ S = { Completion(new[i], "TRANSIENT_NORMAL", TRUE, "migrate") : i \in 1 .. k }
    OBVIOUS
  <2>5. more \in Seq(S)
    <3>1. more \in [ 1 .. k -> S ]
      BY <2>4
    <3>. QED BY <3>1, Indexed
  <2>6. queue' = queue \o more
    BY <2>2, <2>3, <2>4
  <2>7. Elements(queue \o more) = Elements(queue) \cup Elements(more)
    BY <1>1, <2>5, ElementsBoth
  <2>8. Elements(queue) \subseteq Elements(queue')
    BY <2>6, <2>7, Zenon
  <2>. QED BY <1>2, <2>1, <2>8 DEF OutsideShape, smVars, cntVars
<1>8. ASSUME Push \/ StopPush PROVE OutsideShape
  <2>1. \E rs : PushStatus(rs)
    BY <1>8 DEF Push, StopPush
  <2>2. UNCHANGED << queue, todo, timers, cntVars >> /\ (phase' = "running" => phase = "running")
    BY <1>8 DEF Push, StopPush, amVars
  <2>. QED BY <1>2, <2>1, <2>2 DEF OutsideShape, PushStatus, cntVars
<1>9. ASSUME Unregister PROVE OutsideShape
  <2>1. UNCHANGED << smVars, queue, todo, timers, cntVars >> /\ phase' # "running"
    BY <1>9 DEF Unregister
  <2>. QED BY <1>2, <2>1 DEF OutsideShape, smVars, cntVars
<1>10. ASSUME Grant \/ Release \/ StartOnNode \/ Exit \/ Expire \/ UNCHANGED vars PROVE OutsideShape
  <2>1. UNCHANGED << smVars, amVars, cntVars >>
    BY <1>10 DEF Grant, Release, StartOnNode, Exit, Expire, vars
  <2>. QED BY <1>2, <2>1 DEF OutsideShape, smVars, amVars, cntVars
<1>. QED BY <1>3, <1>4, <1>5, <1>6, <1>7, <1>8, <1>9, <1>10 DEF Next

\* A new attempt: what is in its queue, and what its tasks can be.
LEMMA RestartIs ==
    ASSUME AMInv, AMInv', CrashAndRestart
    PROVE  /\ phase' = "running" /\ todo' = << >> /\ timers' = { Plain("Resync") }
           /\ { Plain("AllWaiting"), Plain("RetryAll"), NumbersTo(numbers) } \subseteq Elements(queue')
           /\ \A i \in Elements(queue') :
                 \/ i \in { Plain("AllWaiting"), Plain("RetryAll"), NumbersTo(numbers) }
                 \/ i \in inbox /\ i.op = "Complete"
           /\ numbers' = numbers /\ numbers \in Numbers
           /\ \E rs \in SUBSET ChangedRoles, lost \in SUBSET Roles : Recover(rs, lost)
           /\ \A t \in Locators :
                 taskStatus'[t].state \in { "ABSENT", "TASK_WAITING", "CONTAINER_RUNNING",
                                            "CONTAINER_COMPLETED", "TASK_COMPLETED" }
           /\ triggered' = FALSE
<1>1. /\ phase' = "running" /\ todo' = <<>> /\ timers' = { Plain("Resync") } /\ numbers' = numbers
  BY DEF CrashAndRestart
<1>2. PICK rs \in SUBSET ChangedRoles, lost \in SUBSET Roles : Recover(rs, lost)
  BY DEF CrashAndRestart, Unreadable
<1>3. PICK kept \in { {}, Notices } :
         \E early \in { <<>> } \cup { << n >> : n \in kept } : queue' = early \o StartupQueue(numbers)
  BY DEF CrashAndRestart
<1>4. PICK early \in { <<>> } \cup { << n >> : n \in kept } : queue' = early \o StartupQueue(numbers)
  BY <1>3
<1>5. /\ early \in Seq(kept) /\ Elements(early) \subseteq kept
  <2>1. ASSUME NEW n \in kept PROVE << n >> \in Seq(kept) /\ Elements(<< n >>) \subseteq kept
    BY ElementsOne
  <2>. QED BY <2>1, ElementsOne
<1>6. PICK a, b, d, base : /\ a = Plain("AllWaiting") /\ b = Plain("RetryAll") /\ d = NumbersTo(numbers)
                           /\ base = << a, b, d >>
  OBVIOUS
<1>7. base \in Seq({ a, b, d }) /\ Elements(base) = { a, b, d } /\ queue' = early \o base
  <2>1. /\ base \in Seq({ a, b, d }) /\ DOMAIN base = 1 .. 3
        /\ base[1] = a /\ base[2] = b /\ base[3] = d
    BY <1>6
  <2>. QED BY <1>4, <1>6, <2>1 DEF Elements, StartupQueue
<1>8. Elements(early \o base) = Elements(early) \cup Elements(base)
  BY <1>5, <1>7, ElementsBoth
<1>9. Elements(queue') = Elements(early) \cup { a, b, d }
  BY <1>7, <1>8, Zenon
<1>10. \A i \in kept : i \in inbox /\ i.op = "Complete"
  BY DEF Notices
<1>11. ASSUME NEW t \in Locators
       PROVE  taskStatus'[t].state \in { "ABSENT", "TASK_WAITING", "CONTAINER_RUNNING",
                                         "CONTAINER_COMPLETED", "TASK_COMPLETED" }
  <2>1. taskStatus'[t] = Revised(zkStatus'[t]) /\ zkStatus'[t] \in TaskStatuses
    BY <1>2 DEF Recover, AMInv, IInv, SMTypeOK
  <2>. QED BY <2>1 DEF Revised, TaskStatuses, TaskStates
<1>12. triggered' = FALSE /\ numbers \in Numbers
  BY <1>2 DEF Recover, AMInv, AMTypes
<1>. QED BY <1>1, <1>2, <1>5, <1>6, <1>9, <1>10, <1>11, <1>12

-----------------------------------------------------------------------------
(* Who moves the tasks on *)

\* A task in these states has to be moved on by the AM itself.
Needs(t) ==
    \/ taskStatus[t].state \in { "TASK_WAITING", "CONTAINER_REQUESTED", "CONTAINER_COMPLETED" }
    \/ taskStatus[t].state = "CONTAINER_ALLOCATED" /\ ~Gang

\* System task, part or timer i will move it on.
Drives(i, t) ==
    \/ /\ taskStatus[t].state = "TASK_WAITING"
       /\ i.op = "AllWaiting" \/ (i.op = "Request" /\ t \in i.all) \/ i = AgainFor(t)
    \/ /\ taskStatus[t].state = "CONTAINER_REQUESTED"
       /\ \/ containerRequests[t] = None /\ i.op = "Withdraw" /\ t \in i.all
          \/ containerRequests[t] # None /\ i = TimeoutOf(containerRequests[t], t)
    \/ /\ taskStatus[t].state = "CONTAINER_ALLOCATED"
       /\ i.op = "Launch" /\ t \in i.all
    \/ /\ taskStatus[t].state = "CONTAINER_COMPLETED"
       /\ i.op = "RetryAll" \/ (i.op = "Retry" /\ t \in i.all)

Resyncs(i) == i.op \in { "Resync", "QueueResync" }

\* The next resync is on its way, and so is what moves the tasks on.
DrivenInv ==
    phase = "running" =>
        /\ \E i \in Pending : Resyncs(i)
        /\ \A t \in Locators : Needs(t) => \E i \in Pending : Drives(i, t)

\* What is pending stays so, but for what is worked on and for the timers whose
\* request or round is over.
LEMMA PendingKept ==
    ASSUME AMInv, HasWork, NEW then, NEW submitted, NEW delayed, Goes(then, submitted),
           Armed(timers \cup delayed) \subseteq timers'
    PROVE  /\ \A i \in Pending \cup delayed :
                 \/ i \in Pending'
                 \/ i = Work /\ i \notin delayed
                 \/ i.op = "Timeout" /\ priorityLocators'[i.priority] = None
                 \/ i.op = "GangTimeout" /\ i.round # round'
           /\ then \subseteq Pending' /\ submitted \subseteq Pending'
<1>1. /\ Elements(todo') = then \cup Elements(Rest)
      /\ submitted \subseteq Elements(queue')
      /\ \A i \in Elements(queue) : i \in Elements(queue') \/ (todo = << >> /\ i = Work)
  BY DEF Goes
<1>2. Pending' = Elements(queue') \cup Elements(todo') \cup timers'
  BY DEF Pending, Elements
<1>3. \A i \in timers \cup delayed :
         \/ i \in timers'
         \/ i.op = "Timeout" /\ priorityLocators'[i.priority] = None
         \/ i.op = "GangTimeout" /\ i.round # round'
  BY DEF Armed
<1>4. \A i \in Elements(todo) : i = Work \/ i \in Elements(Rest)
  BY RestFacts
<1>. QED BY <1>1, <1>2, <1>3, <1>4 DEF Pending

\* A task that a step leaves as it is, but for its lost count.
Still(t) ==
    /\ taskStatus'[t].state = taskStatus[t].state
    /\ containerRequests'[t] = containerRequests[t]
    /\ taskStatus[t].state = "TASK_WAITING" => taskStatus'[t] = taskStatus[t]

\* After a step every task is still moved on, when what it was worked on drove is
\* driven by what comes of it, and so are the tasks moved.
LEMMA DriversKept ==
    ASSUME AMInv, AMInv', HasWork, DrivenInv, phase = "running",
           NEW then, NEW submitted, NEW delayed, Goes(then, submitted),
           Armed(timers \cup delayed) \subseteq timers',
           NEW moved \in SUBSET Locators,
           \A u \in Locators : u \notin moved => Still(u),
           \A u \in Locators : u \notin moved /\ Needs(u) /\ Drives(Work, u) =>
               \E j \in then \cup delayed : Drives(j, u),
           \A u \in moved : Needs(u)' => \E j \in then \cup delayed : Drives(j, u)',
           Resyncs(Work) => \E j \in then \cup delayed : Resyncs(j)
    PROVE  DrivenInv'
<1>1. /\ \A i \in Pending \cup delayed :
            \/ i \in Pending'
            \/ i = Work /\ i \notin delayed
            \/ i.op = "Timeout" /\ priorityLocators'[i.priority] = None
            \/ i.op = "GangTimeout" /\ i.round # round'
      /\ then \subseteq Pending'
  BY PendingKept
<1>2. \E i \in Pending' : Resyncs(i)
  <2>1. PICK i \in Pending : Resyncs(i)
    BY DEF DrivenInv
  <2>2. \A j \in Pending \cup then \cup delayed :
            Resyncs(j) => j \in Pending' \/ (j = Work /\ j \notin then \cup delayed)
    BY <1>1 DEF Resyncs
  <2>. QED BY <2>1, <2>2
<1>3. ASSUME NEW u \in Locators, NEW i \in Pending \cup delayed \cup then, Drives(i, u)'
      PROVE  i \in Pending' \/ (i = Work /\ i \notin then \cup delayed)
  <2>1. i.op = "Timeout" => priorityLocators'[i.priority] = u
    <3>1. ASSUME i.op = "Timeout"
          PROVE  containerRequests'[u] # None /\ i = TimeoutOf(containerRequests'[u], u)
      BY <1>3, <3>1 DEF Drives, AgainFor
    <3>2. ASSUME i.op = "Timeout" PROVE i.priority = containerRequests'[u]
      BY <3>1, <3>2 DEF TimeoutOf
    <3>3. ASSUME containerRequests'[u] # None
          PROVE  priorityLocators'[containerRequests'[u]] = u
      BY <3>3 DEF AMInv, IInv, SMTypeOK, IndexesExact, RequestIndexExact
    <3>. QED BY <3>1, <3>2, <3>3
  <2>2. i.op # "GangTimeout"
    BY <1>3 DEF Drives, AgainFor, TimeoutOf
  <2>. QED BY <1>1, <2>1, <2>2, NoneAssumption
<1>4. ASSUME NEW u \in Locators, Needs(u)'
      PROVE  \E i \in Pending' : Drives(i, u)'
  <2>1. CASE u \in moved
    <3>1. PICK j \in then \cup delayed : Drives(j, u)'
      BY <1>4, <2>1
    <3>. QED BY <1>1, <1>3, <3>1
  <2>2. CASE u \notin moved
    <3>1. Needs(u) /\ \A i : Drives(i, u) => Drives(i, u)'
      BY <1>4, <2>2 DEF Still, Needs, Drives, AgainFor
    <3>2. PICK i \in Pending : Drives(i, u)
      BY <3>1 DEF DrivenInv
    <3>3. CASE i = Work
      <4>1. PICK j \in then \cup delayed : Drives(j, u)
        BY <2>2, <3>1, <3>2, <3>3
      <4>. QED BY <1>1, <1>3, <3>1, <4>1
    <3>. QED BY <1>3, <3>1, <3>2, <3>3
  <2>. QED BY <2>1, <2>2
<1>. QED BY <1>2, <1>4 DEF DrivenInv, Resyncs

\* What an edge does to the statuses and requests.
LEMMA EdgeFacts ==
    ASSUME AMInv, NEW t, NEW dst, NEW then, NEW delayed, EdgeShape(t, dst, then, delayed)
    PROVE  /\ t \in Locators /\ taskStatus'[t].state = dst /\ taskStatus[t].state # dst
           /\ \A u \in Locators : u # t => /\ taskStatus'[u] = taskStatus[u]
                                           /\ containerRequests'[u] = containerRequests[u]
           /\ dst = "CONTAINER_REQUESTED" => containerRequests'[t] = nextPriority
           /\ dst # "CONTAINER_REQUESTED" => nextPriority' = nextPriority
<1>1. PICK event \in Events : LegalEdge(t, dst, event) /\ TransitionTaskState(t, dst, event)
  BY DEF EdgeShape
<1>2. t \in Locators /\ dst \in TaskStates
  BY DEF EdgeShape
<1>3. IInv
  BY DEF AMInv
<1>. QED BY <1>1, <1>2, <1>3, EdgeSummary DEF LegalEdge, LIVE_STATES

\* An edge, ...
LEMMA EdgeDrives ==
    ASSUME AMInv, AMInv', HasWork, DrivenInv, NEW t, NEW dst, NEW then, NEW delayed,
           EdgeShape(t, dst, then, delayed), ~Resyncs(Work),
           \A u \in Locators : u # t /\ Needs(u) /\ Drives(Work, u) =>
               \E j \in then \cup delayed : Drives(j, u),
           Needs(t)' => \E j \in then \cup delayed : Drives(j, t)'
    PROVE  DrivenInv'
<1>1. PICK submitted : Goes(then, submitted)
  BY DEF EdgeShape
<1>2. Armed(timers \cup delayed) \subseteq timers'
  BY DEF EdgeShape, Armed
<1>3. { t } \in SUBSET Locators /\ \A u \in Locators : u \notin { t } => Still(u)
  BY EdgeFacts DEF Still
<1>4. PICK moved \in SUBSET Locators : moved = { t }
  BY <1>3
<1>5. phase = "running"
  BY DEF HasWork
<1>6. /\ \A u \in Locators : u \notin moved => Still(u)
      /\ \A u \in Locators : u \notin moved /\ Needs(u) /\ Drives(Work, u) =>
               \E j \in then \cup delayed : Drives(j, u)
      /\ \A u \in moved : Needs(u)' => \E j \in then \cup delayed : Drives(j, u)'
      /\ Resyncs(Work) => \E j \in then \cup delayed : Resyncs(j)
  BY <1>3, <1>4
<1>. QED BY <1>1, <1>2, <1>5, <1>6, DriversKept

\* ... a step that leaves the StatusManager alone, ...
LEMMA QuietDrives ==
    ASSUME AMInv, AMInv', HasWork, DrivenInv, NEW then, NEW delayed, QuietShape(then, delayed),
           \A u \in Locators : Needs(u) /\ Drives(Work, u) =>
               \E j \in then \cup delayed : Drives(j, u),
           Resyncs(Work) => \E j \in then \cup delayed : Resyncs(j)
    PROVE  DrivenInv'
<1>1. Goes(then, {})
  BY DEF QuietShape
<1>2. Armed(timers \cup delayed) \subseteq timers'
  BY DEF QuietShape, Armed
<1>3. \A u \in Locators : Still(u)
  BY DEF Still, QuietShape, smVars, memVars, reqVars
<1>4. PICK moved \in SUBSET Locators : moved = {}
  OBVIOUS
<1>5. phase = "running"
  BY DEF HasWork
<1>6. /\ \A u \in Locators : u \notin moved => Still(u)
      /\ \A u \in Locators : u \notin moved /\ Needs(u) /\ Drives(Work, u) =>
               \E j \in then \cup delayed : Drives(j, u)
      /\ \A u \in moved : Needs(u)' => \E j \in then \cup delayed : Drives(j, u)'
  BY <1>3, <1>4
<1>. QED BY <1>1, <1>2, <1>5, <1>6, DriversKept

\* ... and one that counts keep the tasks driven.
LEMMA CountDrives ==
    ASSUME AMInv, AMInv', HasWork, DrivenInv, NEW then, NEW delayed, CountShape(then, delayed),
           \A u \in Locators : ~Drives(Work, u),
           Resyncs(Work) => \E j \in then \cup delayed : Resyncs(j)
    PROVE  DrivenInv'
<1>1. Goes(then, {})
  BY DEF CountShape
<1>2. Armed(timers \cup delayed) \subseteq timers'
  BY DEF CountShape, Armed
<1>3. PICK count : SetLostCounts(count)
  BY DEF CountShape
<1>4. \A u \in Locators : Still(u)
  <2>1. \A u \in Locators : taskStatus[u] \in TaskStatuses
    BY DEF AMInv, IInv, SMTypeOK
  <2>2. \A u \in Locators : taskStatus'[u].state = taskStatus[u].state
    BY <1>3, <2>1 DEF SetLostCounts, TaskStatuses
  <2>3. UNCHANGED containerRequests
    BY <1>3 DEF SetLostCounts, reqVars
  <2>. QED BY <2>2, <2>3 DEF Still, CountShape, LIVE_STATES
<1>5. PICK moved \in SUBSET Locators : moved = {}
  OBVIOUS
<1>6. phase = "running"
  BY DEF HasWork
<1>. QED BY <1>1, <1>2, <1>4, <1>5, <1>6, DriversKept, ZenonT(60)

\* The part for the elements of a set is about each of them.
LEMMA EachHas ==
    ASSUME NEW op, NEW s, NEW u \in s
    PROVE  \E j \in Each(op, s) : j.op = op /\ u \in j.all
<1>1. PICK j : j = [ op |-> op, all |-> s ]
  OBVIOUS
<1>2. j \in Each(op, s)
  BY <1>1 DEF Each
<1>. QED BY <1>1, <1>2

\* The parts that request containers drive every waiting task.
LEMMA AllWaitingDrives == ASSUME AMInv, AMInv', DrivenInv, DoAllWaiting PROVE DrivenInv'
<1>1. /\ HasWork /\ Work.op = "AllWaiting" /\ UNCHANGED << phase, releasing, migrate, exceed >>
      /\ QuietShape(Each("Request", WaitingTasks), {})
  BY AllWaitingIs
<1>2. ASSUME NEW u \in Locators, Needs(u), Drives(Work, u)
      PROVE  \E j \in Each("Request", WaitingTasks) \cup {} : Drives(j, u)
  <2>1. taskStatus[u].state = "TASK_WAITING"
    BY <1>1, <1>2 DEF Drives, TimeoutOf
  <2>2. u \in WaitingTasks
    BY <2>1 DEF WaitingTasks, AMInv, IInv, IndexesExact, StateIndexExact, TaskStates
  <2>. QED BY <2>1, <2>2, EachHas DEF Drives
<1>. QED BY <1>1, <1>2, QuietDrives DEF Resyncs

\* A request is driven by its timeout, a failed setup by its next try.
LEMMA RequestDrives == ASSUME AMInv, AMInv', DrivenInv, DoRequest PROVE DrivenInv'
<1>1. HasWork /\ Work.op = "Request" /\ Work.all \subseteq Locators
  BY RequestIs
<1>2. PICK t \in Work.all :
         \/ EdgeShape(t, "CONTAINER_REQUESTED", Each("Request", Work.all \ { t }),
                      { TimeoutOf(nextPriority, t) })
         \/ QuietShape(Each("Request", Work.all \ { t }), { AgainFor(t) })
  BY RequestIs
<1>3. t \in Locators /\ \A u \in Work.all : taskStatus[u].state = "TASK_WAITING"
  BY <1>1, <1>2, WorkFacts DEF AMInv, Valid
<1>4. ~Resyncs(Work) /\ \A u \in Locators : Drives(Work, u) => u \in Work.all \/ Work = AgainFor(u)
  BY <1>1 DEF Resyncs, Drives, TimeoutOf
<1>5. ASSUME NEW u \in Locators, u # t, Drives(Work, u)
      PROVE  \E j \in Each("Request", Work.all \ { t }) : Drives(j, u)
  <2>1. u \in Work.all \ { t }
    BY <1>1, <1>4, <1>5 DEF AgainFor
  <2>2. PICK j \in Each("Request", Work.all \ { t }) : j.op = "Request" /\ u \in j.all
    BY <2>1, EachHas
  <2>. QED BY <1>3, <2>1, <2>2 DEF Drives
<1>6. CASE EdgeShape(t, "CONTAINER_REQUESTED", Each("Request", Work.all \ { t }),
                     { TimeoutOf(nextPriority, t) })
  <2>1. /\ taskStatus'[t].state = "CONTAINER_REQUESTED" /\ containerRequests'[t] = nextPriority
    BY <1>6, EdgeFacts
  <2>2. containerRequests'[t] # None
    <3>1. nextPriority \in Priorities
      BY <1>6, EdgeSummary DEF EdgeShape, AMInv
    <3>. QED BY <2>1, <3>1, NoneAssumption
  <2>3. PICK d : d = TimeoutOf(nextPriority, t)
    OBVIOUS
  <2>4. Drives(d, t)'
    BY <2>1, <2>2, <2>3 DEF Drives, TimeoutOf
  <2>5. EdgeShape(t, "CONTAINER_REQUESTED", Each("Request", Work.all \ { t }), { d })
    BY <1>6, <2>3
  <2>. QED BY <1>1, <1>4, <1>5, <2>4, <2>5, EdgeDrives
<1>7. CASE QuietShape(Each("Request", Work.all \ { t }), { AgainFor(t) })
  <2>1. Drives(AgainFor(t), t)
    BY <1>2, <1>3 DEF Drives
  <2>. QED BY <1>1, <1>4, <1>5, <1>7, <2>1, QuietDrives
<1>. QED BY <1>2, <1>6, <1>7

\* Which of the system tasks and parts drive tasks.
LEMMA DriverOps ==
    ASSUME NEW i, NEW u, Drives(i, u)
    PROVE  /\ \/ i.op \in { "AllWaiting", "Request", "Again" } /\ taskStatus[u].state = "TASK_WAITING"
              \/ i.op \in { "Withdraw", "Timeout" } /\ taskStatus[u].state = "CONTAINER_REQUESTED"
              \/ i.op = "Launch" /\ taskStatus[u].state = "CONTAINER_ALLOCATED"
              \/ i.op \in { "RetryAll", "Retry" } /\ taskStatus[u].state = "CONTAINER_COMPLETED"
           /\ i.op \in { "Request", "Withdraw", "Launch", "Retry" } => u \in i.all
           /\ i.op = "Again" => i = AgainFor(u)
           /\ i.op = "Timeout" => i.task = u /\ i.priority = containerRequests[u]
BY DEF Drives, AgainFor, TimeoutOf

\* A setup that is tried again drives its task.
LEMMA AgainDrives == ASSUME AMInv, AMInv', DrivenInv, DoAgain PROVE DrivenInv'
<1>1. /\ HasWork /\ Work.op = "Again" /\ ~Resyncs(Work)
      /\ taskStatus[Work.task] = Work.status => QuietShape(Each("Request", { Work.task }), {})
      /\ taskStatus[Work.task] # Work.status => QuietShape({}, {})
  BY AgainIs DEF Resyncs
<1>2. \A u \in Locators : Drives(Work, u) =>
         /\ taskStatus[u].state = "TASK_WAITING"
         /\ Work.task = u /\ Work.status = taskStatus[u]
  BY <1>1, DriverOps DEF AgainFor
<1>3. CASE taskStatus[Work.task] = Work.status
  <2>1. ASSUME NEW u \in Locators, Drives(Work, u)
        PROVE  \E j \in Each("Request", { Work.task }) : Drives(j, u)
    <3>1. PICK j \in Each("Request", { Work.task }) : j.op = "Request" /\ u \in j.all
      BY <1>2, <2>1, EachHas
    <3>. QED BY <1>2, <2>1, <3>1 DEF Drives
  <2>. QED BY <1>1, <1>3, <2>1, QuietDrives
<1>4. CASE taskStatus[Work.task] # Work.status
  BY <1>1, <1>2, <1>4, QuietDrives
<1>. QED BY <1>3, <1>4

\* A request that timed out is requested again.
LEMMA TimeoutDrives == ASSUME AMInv, AMInv', DrivenInv, DoTimeout PROVE DrivenInv'
<1>1. /\ HasWork /\ Work.op = "Timeout" /\ ~Resyncs(Work)
      /\ priorityLocators[Work.priority] # None =>
            EdgeShape(Work.task, "TASK_WAITING", Each("Request", { Work.task }), {})
      /\ priorityLocators[Work.priority] = None => QuietShape({}, {})
  BY TimeoutIs DEF Resyncs
<1>2. PICK t, p : t = Work.task /\ p = Work.priority
  OBVIOUS
<1>3. \A u \in Locators : Drives(Work, u) => /\ u = t
                                              /\ priorityLocators[p] = u
  <2>1. ASSUME NEW u \in Locators, Drives(Work, u)
        PROVE  u = t /\ containerRequests[u] = p /\ p # None
    BY <1>1, <1>2, <2>1, DriverOps DEF Drives
  <2>2. \A u \in Locators : containerRequests[u] \in Priorities \cup { None }
    BY DEF AMInv, IInv, SMTypeOK
  <2>. QED BY <2>1, <2>2 DEF AMInv, IInv, IndexesExact, RequestIndexExact
<1>4. CASE priorityLocators[p] # None
  <2>1. EdgeShape(t, "TASK_WAITING", Each("Request", { t }), {})
    BY <1>1, <1>2, <1>4
  <2>2. taskStatus'[t].state = "TASK_WAITING"
    BY <2>1, EdgeFacts
  <2>3. PICK j \in Each("Request", { t }) : j.op = "Request" /\ t \in j.all
    BY EachHas
  <2>4. Drives(j, t)'
    BY <2>2, <2>3 DEF Drives
  <2>. QED BY <1>1, <1>3, <2>1, <2>3, <2>4, EdgeDrives
<1>5. CASE priorityLocators[p] = None
  BY <1>1, <1>2, <1>3, <1>5, NoneAssumption, QuietDrives
<1>. QED BY <1>4, <1>5

\* Every edge to TASK_WAITING comes with a part that requests a container.
LEMMA BackToWaiting ==
    ASSUME AMInv, AMInv', HasWork, DrivenInv, NEW t, ~Resyncs(Work),
           EdgeShape(t, "TASK_WAITING", Each("Request", { t }), {}),
           \A u \in Locators : u # t => ~Drives(Work, u)
    PROVE  DrivenInv'
<1>1. taskStatus'[t].state = "TASK_WAITING"
  BY EdgeFacts
<1>2. PICK j \in Each("Request", { t }) : j.op = "Request" /\ t \in j.all
  BY EachHas
<1>3. Drives(j, t)'
  BY <1>1, <1>2 DEF Drives
<1>. QED BY <1>2, <1>3, EdgeDrives

\* A withdrawn task is requested again.
LEMMA WithdrawDrives == ASSUME AMInv, AMInv', DrivenInv, DoWithdraw PROVE DrivenInv'
<1>1. PICK t \in Locators : /\ HasWork /\ Work.op = "Withdraw" /\ Work.all = { t }
                            /\ EdgeShape(t, "TASK_WAITING", Each("Request", { t }), {})
  BY WithdrawIs
<1>2. ~Resyncs(Work) /\ \A u \in Locators : u # t => ~Drives(Work, u)
  BY <1>1, DriverOps DEF Resyncs
<1>. QED BY <1>1, <1>2, BackToWaiting

\* The tasks still to launch keep their part.
LEMMA LaunchDrives == ASSUME AMInv, AMInv', DrivenInv, DoLaunch PROVE DrivenInv'
<1>1. HasWork /\ Work.op = "Launch" /\ Work.all \subseteq Locators /\ ~Resyncs(Work)
  BY LaunchIs DEF Resyncs
<1>2. PICK t \in Work.all : EdgeShape(t, "CONTAINER_LAUNCHED", Each("Launch", Work.all \ { t }), {})
  BY LaunchIs
<1>3. taskStatus'[t].state = "CONTAINER_LAUNCHED"
  BY <1>2, EdgeFacts
<1>4. ASSUME NEW u \in Locators, u # t, Drives(Work, u)
      PROVE  \E j \in Each("Launch", Work.all \ { t }) : Drives(j, u)
  <2>1. u \in Work.all \ { t } /\ taskStatus[u].state = "CONTAINER_ALLOCATED"
    BY <1>1, <1>4, DriverOps
  <2>2. PICK j \in Each("Launch", Work.all \ { t }) : j.op = "Launch" /\ u \in j.all
    BY <2>1, EachHas
  <2>. QED BY <2>1, <2>2 DEF Drives
<1>5. ~Needs(t)'
  BY <1>3 DEF Needs
<1>. QED BY <1>1, <1>2, <1>4, <1>5, EdgeDrives

\* The callback that launches them all drives no task of its own.
LEMMA LaunchAllDrives == ASSUME AMInv, AMInv', DrivenInv, DoLaunchAll PROVE DrivenInv'
<1>1. /\ HasWork /\ Work.op = "LaunchAll" /\ ~Resyncs(Work)
      /\ \/ QuietShape(Each("Launch", taskStateLocators["CONTAINER_ALLOCATED"]), {})
         \/ QuietShape({}, {})
  BY LaunchAllIs DEF Resyncs
<1>2. \A u \in Locators : ~Drives(Work, u)
  BY <1>1, DriverOps
<1>. QED BY <1>1, <1>2, QuietDrives

\* Nor does the timeout of a round.
LEMMA GangTimeoutDrives == ASSUME AMInv, AMInv', DrivenInv, DoGangTimeout PROVE DrivenInv'
<1>1. /\ HasWork /\ Work.op = "GangTimeout" /\ ~Resyncs(Work) /\ QuietShape({}, {})
  BY GangTimeoutIs DEF Resyncs
<1>2. \A u \in Locators : ~Drives(Work, u)
  BY <1>1, DriverOps
<1>. QED BY <1>1, <1>2, QuietDrives

\* The parts that retry drive every completed task.
LEMMA RetryAllDrives == ASSUME AMInv, AMInv', DrivenInv, DoRetryAll PROVE DrivenInv'
<1>1. /\ HasWork /\ Work.op = "RetryAll" /\ ~Resyncs(Work)
      /\ QuietShape(Each("Retry", taskStateLocators["CONTAINER_COMPLETED"]), {})
  BY RetryAllIs DEF Resyncs
<1>2. ASSUME NEW u \in Locators, Drives(Work, u)
      PROVE  \E j \in Each("Retry", taskStateLocators["CONTAINER_COMPLETED"]) : Drives(j, u)
  <2>1. taskStatus[u].state = "CONTAINER_COMPLETED"
    BY <1>1, <1>2, DriverOps
  <2>2. u \in taskStateLocators["CONTAINER_COMPLETED"]
    BY <2>1 DEF AMInv, IInv, IndexesExact, StateIndexExact, TaskStates
  <2>3. PICK j \in Each("Retry", taskStateLocators["CONTAINER_COMPLETED"]) : j.op = "Retry" /\ u \in j.all
    BY <2>2, EachHas
  <2>. QED BY <2>1, <2>3 DEF Drives
<1>. QED BY <1>1, <1>2, QuietDrives

\* The next resync is armed before this one ends.
LEMMA QueueResyncDrives == ASSUME AMInv, AMInv', DrivenInv, DoQueueResync PROVE DrivenInv'
<1>1. /\ HasWork /\ Work.op = "QueueResync" /\ QuietShape({}, { Plain("Resync") })
  BY QueueResyncIs
<1>2. \A u \in Locators : ~Drives(Work, u)
  BY <1>1, DriverOps
<1>3. Resyncs(Plain("Resync"))
  BY DEF Resyncs, Plain
<1>. QED BY <1>1, <1>2, <1>3, QuietDrives

\* A running task needs no part of its own.
LEMMA StartedDrives == ASSUME AMInv, AMInv', DrivenInv, DoStarted PROVE DrivenInv'
<1>1. HasWork /\ Work.op = "Started" /\ ~Resyncs(Work)
  BY StartedIs DEF Resyncs
<1>2. \A u \in Locators : ~Drives(Work, u)
  BY <1>1, DriverOps
<1>3. CASE QuietShape({}, {})
  BY <1>1, <1>2, <1>3, QuietDrives
<1>4. ASSUME NEW t \in Locators, EdgeShape(t, "CONTAINER_RUNNING", {}, {}) PROVE DrivenInv'
  <2>1. ~Needs(t)'
    BY <1>4, EdgeFacts DEF Needs
  <2>. QED BY <1>1, <1>2, <1>4, <2>1, EdgeDrives
<1>. QED BY <1>3, <1>4, StartedIs

\* A start that failed moves no task.
LEMMA StartFailedDrives == ASSUME AMInv, AMInv', DrivenInv, DoStartFailed PROVE DrivenInv'
<1>1. /\ HasWork /\ Work.op = "StartFailed" /\ ~Resyncs(Work)
      /\ \E then : QuietShape(then, {})
  BY StartFailedIs DEF Resyncs
<1>2. \A u \in Locators : ~Drives(Work, u)
  BY <1>1, DriverOps
<1>. QED BY <1>1, <1>2, QuietDrives

\* A completed task comes with the part that retries it.
LEMMA CompleteDrives == ASSUME AMInv, AMInv', DrivenInv, DoComplete PROVE DrivenInv'
<1>1. HasWork /\ Work.op = "Complete" /\ ~Resyncs(Work)
  BY CompleteIs DEF Resyncs
<1>2. \A u \in Locators : ~Drives(Work, u)
  BY <1>1, DriverOps
<1>3. CASE QuietShape({}, {})
  BY <1>1, <1>2, <1>3, QuietDrives
<1>4. ASSUME NEW t \in Locators, EdgeShape(t, "CONTAINER_COMPLETED", Each("Retry", { t }), {})
      PROVE  DrivenInv'
  <2>1. PICK j \in Each("Retry", { t }) : j.op = "Retry" /\ t \in j.all
    BY EachHas
  <2>2. Drives(j, t)'
    BY <1>4, <2>1, EdgeFacts DEF Drives
  <2>. QED BY <1>1, <1>2, <1>4, <2>1, <2>2, EdgeDrives
<1>. QED BY <1>3, <1>4, CompleteIs

\* A retried task comes with the part that requests its container.
LEMMA RetryDrives == ASSUME AMInv, AMInv', DrivenInv, DoRetry PROVE DrivenInv'
<1>1. HasWork /\ Work.op = "Retry" /\ ~Resyncs(Work) /\ Work.all \subseteq Locators
  BY RetryIs DEF Resyncs
<1>2. PICK t \in Work.all :
         \/ EdgeShape(t, "TASK_WAITING", Each("Request", { t }) \cup Each("Retry", Work.all \ { t }), {})
         \/ EdgeShape(t, "TASK_COMPLETED", Each("Retry", Work.all \ { t }), {})
  BY RetryIs
<1>3. ASSUME NEW u \in Locators, u # t, Drives(Work, u)
      PROVE  \E j \in Each("Retry", Work.all \ { t }) : Drives(j, u)
  <2>1. u \in Work.all \ { t } /\ taskStatus[u].state = "CONTAINER_COMPLETED"
    BY <1>1, <1>3, DriverOps
  <2>2. PICK j \in Each("Retry", Work.all \ { t }) : j.op = "Retry" /\ u \in j.all
    BY <2>1, EachHas
  <2>. QED BY <2>1, <2>2 DEF Drives
<1>4. CASE EdgeShape(t, "TASK_WAITING", Each("Request", { t }) \cup Each("Retry", Work.all \ { t }), {})
  <2>1. PICK then : then = Each("Request", { t }) \cup Each("Retry", Work.all \ { t })
    OBVIOUS
  <2>2. PICK j \in then : j.op = "Request" /\ t \in j.all
    BY <2>1, EachHas
  <2>3. EdgeShape(t, "TASK_WAITING", then, {})
    BY <1>4, <2>1
  <2>4. Drives(j, t)'
    BY <2>2, <2>3, EdgeFacts DEF Drives
  <2>5. \A u \in Locators : u # t /\ Drives(Work, u) => \E i \in then : Drives(i, u)
    BY <1>3, <2>1
  <2>. QED BY <1>1, <2>2, <2>3, <2>4, <2>5, EdgeDrives
<1>5. CASE EdgeShape(t, "TASK_COMPLETED", Each("Retry", Work.all \ { t }), {})
  <2>1. ~Needs(t)'
    BY <1>5, EdgeFacts DEF Needs
  <2>. QED BY <1>1, <1>3, <1>5, <2>1, EdgeDrives
<1>. QED BY <1>2, <1>4, <1>5

\* An allocated task comes with its launch, or waits for its gang; a refused or
\* unassociated one with its request or its withdrawal.
LEMMA AllocateDrives == ASSUME AMInv, AMInv', DrivenInv, DoAllocate PROVE DrivenInv'
<1>1. HasWork /\ Work.op = "Allocate" /\ ~Resyncs(Work) /\ phase = "running"
  BY AllocateIs DEF Resyncs, HasWork
<1>2. \A u \in Locators : ~Drives(Work, u)
  BY <1>1, DriverOps
<1>3. PICK t : t = priorityLocators[Work.priority]
  OBVIOUS
<1>4. \/ QuietShape({}, {})
      \/ EdgeShape(t, "TASK_WAITING", Each("Request", { t }), {})
      \/ EdgeShape(t, "CONTAINER_ALLOCATED", IF Gang THEN {} ELSE Each("Launch", { t }), {})
      \/ /\ t \in Locators /\ taskStatus[t].state = "CONTAINER_REQUESTED"
         /\ FailToAssociate(t) /\ Goes(Each("Withdraw", { t }), {})
         /\ timers' = Armed(timers)
  BY <1>3, AllocateIs
<1>5. CASE QuietShape({}, {})
  BY <1>1, <1>2, <1>5, QuietDrives
<1>6. CASE EdgeShape(t, "TASK_WAITING", Each("Request", { t }), {})
  BY <1>1, <1>2, <1>6, BackToWaiting
<1>7. CASE EdgeShape(t, "CONTAINER_ALLOCATED", IF Gang THEN {} ELSE Each("Launch", { t }), {})
  <2>1. taskStatus'[t].state = "CONTAINER_ALLOCATED"
    BY <1>7, EdgeFacts
  <2>2. PICK then : then = IF Gang THEN {} ELSE Each("Launch", { t })
    OBVIOUS
  <2>3. ~Gang => \E j \in then : Drives(j, t)'
    <3>1. PICK j \in Each("Launch", { t }) : j.op = "Launch" /\ t \in j.all
      BY EachHas
    <3>2. Drives(j, t)'
      BY <2>1, <3>1 DEF Drives
    <3>. QED BY <2>2, <3>1, <3>2
  <2>4. Needs(t)' => ~Gang
    BY <2>1 DEF Needs
  <2>. QED BY <1>1, <1>2, <1>7, <2>2, <2>3, <2>4, EdgeDrives
<1>8. CASE /\ t \in Locators /\ taskStatus[t].state = "CONTAINER_REQUESTED"
           /\ FailToAssociate(t) /\ Goes(Each("Withdraw", { t }), {})
           /\ timers' = Armed(timers)
  <2>1. taskStatus' = taskStatus /\ containerRequests' = [ u \in Locators |->
           IF u \in { t } THEN None ELSE containerRequests[u] ]
    BY <1>8 DEF FailToAssociate, WithoutRequests, memVars
  <2>2. PICK moved \in SUBSET Locators : moved = { t }
    BY <1>8
  <2>3. \A u \in Locators : u \notin moved => Still(u)
    BY <2>1, <2>2 DEF Still
  <2>4. PICK j \in Each("Withdraw", { t }) : j.op = "Withdraw" /\ t \in j.all
    BY EachHas
  <2>5. Drives(j, t)'
    BY <1>8, <2>1, <2>4 DEF Drives
  <2>6. Armed(timers \cup {}) \subseteq timers'
    BY <1>8
  <2>7. /\ \A u \in Locators : u \notin moved /\ Needs(u) /\ Drives(Work, u) =>
               \E i \in Each("Withdraw", { t }) \cup {} : Drives(i, u)
        /\ \A u \in moved : Needs(u)' => \E i \in Each("Withdraw", { t }) \cup {} : Drives(i, u)'
        /\ Resyncs(Work) => \E i \in Each("Withdraw", { t }) \cup {} : Resyncs(i)
    BY <1>1, <1>2, <2>2, <2>4, <2>5
  <2>. QED BY <1>1, <1>8, <2>3, <2>6, <2>7, DriversKept
<1>. QED BY <1>4, <1>5, <1>6, <1>7, <1>8

\* Added tasks are driven by the part that requests containers of them all.
LEMMA NumbersDrive == ASSUME AMInv, AMInv', DrivenInv, DoNumbers PROVE DrivenInv'
<1>1. /\ HasWork /\ Work.op = "Numbers" /\ ~Resyncs(Work) /\ phase = "running"
      /\ UpdateTaskNumbers(Work.numbers)
      /\ timers' = Armed(timers \cup {} \cup
             IF Gang /\ Appears(~triggered) THEN { GangTimeout(round) } ELSE {})
  BY NumbersIs DEF Resyncs, HasWork
<1>2. PICK submitted : Goes({ Plain("AllWaiting") }, submitted)
  BY NumbersIs
<1>3. \A u \in Locators : ~Drives(Work, u)
  BY <1>1, DriverOps
<1>4. PICK gone, new : gone = Removed(Work.numbers) /\ new = Added(Work.numbers)
  OBVIOUS
<1>5. /\ taskStatus' = [ u \in Locators |->
             IF u \in gone THEN NoTask ELSE IF u \in new THEN NewTask ELSE taskStatus[u] ]
      /\ containerRequests' = [ u \in Locators |-> IF u \in gone THEN None ELSE containerRequests[u] ]
  BY <1>1, <1>4 DEF UpdateTaskNumbers, WithoutRequests
<1>6. PICK moved \in SUBSET Locators : moved = Locators \cap (gone \cup new)
  OBVIOUS
<1>7. \A u \in Locators : u \notin moved => Still(u)
  BY <1>5, <1>6 DEF Still
<1>8. PICK j : j = Plain("AllWaiting")
  OBVIOUS
<1>9. ASSUME NEW u \in moved, Needs(u)' PROVE Drives(j, u)'
  <2>1. u \notin gone
    BY <1>5, <1>9 DEF Needs, NoTask
  <2>2. taskStatus'[u].state = "TASK_WAITING"
    BY <1>5, <1>6, <2>1 DEF NewTask, NoTask
  <2>. QED BY <1>8, <2>2 DEF Drives, Plain
<1>10. Armed(timers \cup {}) \subseteq timers'
  BY <1>1 DEF Armed
<1>11. /\ Goes({ j }, submitted)
       /\ \A u \in Locators : u \notin moved /\ Needs(u) /\ Drives(Work, u) =>
               \E i \in { j } \cup {} : Drives(i, u)
       /\ \A u \in moved : Needs(u)' => \E i \in { j } \cup {} : Drives(i, u)'
       /\ Resyncs(Work) => \E i \in { j } \cup {} : Resyncs(i)
  BY <1>1, <1>2, <1>3, <1>8, <1>9
<1>. QED BY <1>1, <1>7, <1>10, <1>11, DriversKept

\* A resync that fails arms the next one.
LEMMA ResyncFailsDrives == ASSUME AMInv, AMInv', DrivenInv, DoResyncFails PROVE DrivenInv'
<1>1. /\ HasWork /\ Work.op = "Resync" /\ CountShape({}, { Plain("Resync") })
  BY ResyncFailsIs
<1>2. \A u \in Locators : ~Drives(Work, u)
  BY <1>1, DriverOps
<1>3. Resyncs(Plain("Resync"))
  BY DEF Resyncs, Plain
<1>. QED BY <1>1, <1>2, <1>3, CountDrives

\* A resync ends in the part that arms the next one.
LEMMA ResyncDrives == ASSUME AMInv, AMInv', DrivenInv, DoResync PROVE DrivenInv'
<1>1. HasWork /\ Work.op = "Resync"
  BY ResyncIs
<1>2. PICK then : QuietShape(then, {}) /\ Plain("QueueResync") \in then
  BY ResyncIs
<1>3. \A u \in Locators : ~Drives(Work, u)
  BY <1>1, DriverOps
<1>4. Resyncs(Plain("QueueResync"))
  BY DEF Resyncs, Plain
<1>. QED BY <1>1, <1>2, <1>3, <1>4, QuietDrives

\* Counting a container that was seen drives as before ...
LEMMA SeenDrives == ASSUME AMInv, AMInv', DrivenInv, DoSeen PROVE DrivenInv'
<1>1. /\ HasWork /\ Work.op = "Seen" /\ ~Resyncs(Work)
      /\ (\E then : CountShape(then, {})) \/ (\E then : QuietShape(then, {}))
  BY SeenIs DEF Resyncs
<1>2. \A u \in Locators : ~Drives(Work, u)
  BY <1>1, DriverOps
<1>. QED BY <1>1, <1>2, CountDrives, QuietDrives

\* ... and so does counting one that was not.
LEMMA MissingDrives == ASSUME AMInv, AMInv', DrivenInv, DoMissing PROVE DrivenInv'
<1>1. /\ HasWork /\ Work.op = "Missing" /\ ~Resyncs(Work)
      /\ \E then : CountShape(then, {})
  BY MissingIs DEF Resyncs
<1>2. \A u \in Locators : ~Drives(Work, u)
  BY <1>1, DriverOps
<1>. QED BY <1>1, <1>2, CountDrives

\* Every step of the queue's thread leaves every task driven.
LEMMA WorkerDrives == ASSUME AMInv, AMInv', DrivenInv, WorkerStep PROVE DrivenInv'
BY AllWaitingDrives, RequestDrives, AgainDrives, TimeoutDrives, AllocateDrives, WithdrawDrives,
   LaunchDrives, LaunchAllDrives, GangTimeoutDrives, StartedDrives, StartFailedDrives,
   CompleteDrives, RetryAllDrives, RetryDrives, NumbersDrive, ResyncFailsDrives, ResyncDrives,
   SeenDrives, MissingDrives, QueueResyncDrives
   DEF WorkerStep

\* Steps outside the running system task leave its drivers in place.
LEMMA OutsideDrives == ASSUME DrivenInv, OutsideShape PROVE DrivenInv'
<1>1. UNCHANGED << taskStatus, containerRequests >> /\ Pending \subseteq Pending'
      /\ (phase' = "running" => phase = "running")
  BY DEF OutsideShape, memVars, reqVars
<1>2. \A t \in Locators : Needs(t)' => Needs(t)
  BY <1>1 DEF Needs
<1>3. \A t \in Locators : \A i : Drives(i, t) => Drives(i, t)'
  BY <1>1 DEF Drives, AgainFor
<1>4. \A i : Resyncs(i)' <=> Resyncs(i)
  BY DEF Resyncs
<1>. QED BY <1>1, <1>2, <1>3, <1>4 DEF DrivenInv

\* A new attempt drives every task it recovers.
LEMMA RestartDrives == ASSUME AMInv, AMInv', CrashAndRestart PROVE DrivenInv'
<1>1. PICK a, b, d : /\ a = Plain("AllWaiting") /\ b = Plain("RetryAll") /\ d = Plain("Resync")
                     /\ { a, b, d } \subseteq Pending'
  BY RestartIs DEF Pending, Elements
<1>2. ASSUME NEW t \in Locators, Needs(t)' PROVE \E i \in Pending' : Drives(i, t)'
  <2>1. taskStatus'[t].state \in { "TASK_WAITING", "CONTAINER_COMPLETED" }
    BY <1>2, RestartIs DEF Needs
  <2>. QED BY <1>1, <2>1 DEF Drives, Plain
<1>. QED BY <1>1, <1>2 DEF DrivenInv, Resyncs, Plain

\* At first there are no tasks.
LEMMA InitDrives == ASSUME Init PROVE DrivenInv
<1>1. taskStatus = [ t \in Locators |-> NoTask ] /\ timers = { Plain("Resync") }
  BY DEF Init, SMInit
<1>2. \A t \in Locators : ~Needs(t)
  BY <1>1 DEF Needs, NoTask
<1>3. Resyncs(Plain("Resync")) /\ Plain("Resync") \in Pending
  BY <1>1 DEF Resyncs, Plain, Pending
<1>. QED BY <1>2, <1>3 DEF DrivenInv

\* Every step of the AM leaves every task driven.
LEMMA NextDrives == AMInv /\ DrivenInv /\ [Next]_vars => DrivenInv'
<1>. SUFFICES ASSUME AMInv, DrivenInv, [Next]_vars PROVE DrivenInv'
  OBVIOUS
<1>1. AMInv'
  BY NextKeepsAMInv
<1>. QED BY <1>1, OutsideIs, OutsideDrives, RestartDrives, WorkerDrives

\* recoverTransitionTaskStateQueue promises that somebody moves every task on: it
\* holds of every task at every moment, whatever call fails, is lost or comes late,
\* and of every attempt.
THEOREM AMDrivesTasks == Spec => []TasksDriven
<1>1. Init => DrivenInv
  BY InitDrives
<1>2. AMInv /\ DrivenInv /\ [Next]_vars => DrivenInv'
  BY NextDrives
<1>3. AMInv /\ DrivenInv => TasksDriven
  <2>. SUFFICES ASSUME AMInv, DrivenInv, phase = "running", NEW t \in AllTasks PROVE Driven(t)
    BY DEF TasksDriven
  <2>1. t \in Locators
    BY DEF AllTasks, TasksIn, AMInv, IInv, SMTypeOK
  <2>2. PICK r \in Pending : r.op = "Resync" \/ r.op = "QueueResync"
    BY DEF DrivenInv, Resyncs
  <2>3. Waits("Resync") \/ Waits("QueueResync")
    BY <2>2 DEF Waits
  <2>4. \A i \in Pending : i.op \in { "Request", "Withdraw", "Launch", "Retry" } => i \in Elements(todo)
    <3>1. \A i \in QueueItems : i.op \notin { "Request", "Withdraw", "Launch", "Retry" }
      BY DEF QueueItems, TimerItems, InboxItems, CompletionItems
    <3>2. timers \subseteq QueueItems /\ Elements(queue) \subseteq QueueItems
      BY DEF AMInv, AMTypes, QueueItems, Elements
    <3>. QED BY <3>1, <3>2 DEF Pending
  <2>5. Needs(t) => \E i \in Pending : Drives(i, t)
    BY <2>1 DEF DrivenInv
  <2>6. CASE taskStatus[t].state = "TASK_WAITING"
    <3>1. PICK i \in Pending : i.op = "AllWaiting" \/ (i.op = "Request" /\ t \in i.all) \/ i = AgainFor(t)
      BY <2>5, <2>6 DEF Needs, Drives
    <3>. QED BY <2>4, <2>6, <3>1 DEF Driven, Has, Waits
  <2>7. CASE taskStatus[t].state = "CONTAINER_REQUESTED"
    <3>1. PICK i \in Pending :
             \/ containerRequests[t] = None /\ i.op = "Withdraw" /\ t \in i.all
             \/ containerRequests[t] # None /\ i = TimeoutOf(containerRequests[t], t)
      BY <2>5, <2>7 DEF Needs, Drives
    <3>. QED BY <2>4, <2>7, <3>1 DEF Driven, Has
  <2>8. CASE taskStatus[t].state = "CONTAINER_ALLOCATED"
    <3>1. CASE Gang
      BY <2>3, <2>8, <3>1 DEF Driven
    <3>2. CASE ~Gang
      <4>1. PICK i \in Pending : i.op = "Launch" /\ t \in i.all
        BY <2>5, <2>8, <3>2 DEF Needs, Drives
      <4>. QED BY <2>4, <2>8, <4>1 DEF Driven, Has
    <3>. QED BY <3>1, <3>2
  <2>9. CASE taskStatus[t].state \in { "CONTAINER_LAUNCHED", "CONTAINER_RUNNING" }
    BY <2>3, <2>9 DEF Driven
  <2>10. CASE taskStatus[t].state = "CONTAINER_COMPLETED"
    <3>1. PICK i \in Pending : i.op = "RetryAll" \/ (i.op = "Retry" /\ t \in i.all)
      BY <2>5, <2>10 DEF Needs, Drives
    <3>. QED BY <2>4, <2>10, <3>1 DEF Driven, Has, Waits
  <2>. QED BY <2>6, <2>7, <2>8, <2>9, <2>10 DEF Driven
<1>. QED BY <1>1, <1>2, <1>3, AMInvariance, PTL DEF Spec

-----------------------------------------------------------------------------
(* The four kinds of steps of the queue's thread *)

\* A task moves along an edge: to be allocated the container the RM granted, which
\* has been tested, to be launched, or otherwise.
EdgeStepShape(t, dst, then, delayed) ==
    /\ EdgeShape(t, dst, then, delayed)
    /\ Work.op \notin { "Numbers", "LaunchAll", "GangTimeout" }
    /\ dst = "CONTAINER_ALLOCATED" =>
          /\ Work.op = "Allocate" /\ Work.container \in Containers
          /\ TestContainer(Work.container, t[1])
          /\ taskStatus'[t].container = Work.container
          /\ taskStatus[t].state = "CONTAINER_REQUESTED"
    /\ dst = "CONTAINER_LAUNCHED" => Work.op = "Launch"
    /\ \A j \in then : j.op = "Launch" => ~Gang \/ Work.op = "Launch"
    /\ Work.op = "Launch" =>
          /\ dst = "CONTAINER_LAUNCHED"
          /\ \A u \in Work.all : u = t \/ \E j \in then : j.op = "Launch" /\ u \in j.all

\* No task moves: the gang is launched, or its round is over, or it is nothing to them.
QuietStepShape(then, delayed) ==
    /\ QuietShape(then, delayed) \/ CountShape(then, delayed)
    /\ Work.op \notin { "Launch", "Numbers" }
    /\ \A j \in then : j.op = "Launch" => Work.op = "LaunchAll" /\ Outstanding = {}
    /\ Work.op = "LaunchAll" /\ Outstanding = {} =>
          \A u \in taskStateLocators["CONTAINER_ALLOCATED"] :
              \E j \in then : j.op = "Launch" /\ u \in j.all
    /\ Work.op = "GangTimeout" /\ Work.round = round /\ Outstanding # {} => phase' = "stopping"

\* A container cannot be associated.
FailStepShape(t) ==
    /\ t \in Locators /\ taskStatus[t].state = "CONTAINER_REQUESTED"
    /\ Work.op = "Allocate" /\ FailToAssociate(t)
    /\ Goes(Each("Withdraw", { t }), {}) /\ timers' = Armed(timers)

\* Tasks are added and removed.
NumbersStepShape ==
    /\ Work.op = "Numbers" /\ UNCHANGED phase
    /\ Work.numbers \in Numbers /\ UpdateTaskNumbers(Work.numbers)
    /\ todo = << >> /\ Elements(Rest) = {}
    /\ Goes({ Plain("AllWaiting") },
            IF Gang /\ Disappears(~triggered) THEN { Plain("LaunchAll") } ELSE {})
    /\ timers' = Armed(timers \cup {} \cup
           IF Gang /\ Appears(~triggered) THEN { GangTimeout(round) } ELSE {})

WorkerShape ==
    /\ HasWork
    /\ \/ \E t, dst, then, delayed : EdgeStepShape(t, dst, then, delayed)
       \/ \E then, delayed : QuietStepShape(then, delayed)
       \/ \E t : FailStepShape(t)
       \/ NumbersStepShape

NoLaunch(parts) == \A j \in parts : j.op # "Launch"
OtherOps ==
    { "AllWaiting", "Request", "Again", "Timeout", "Allocate", "Withdraw", "Started",
      "StartFailed", "Complete", "RetryAll", "Retry", "Resync", "Seen", "Missing", "QueueResync" }

\* Which parts are no launches.
LEMMA NoLaunches ==
    /\ NoLaunch({})
    /\ \A s : /\ NoLaunch(Each("Request", s)) /\ NoLaunch(Each("Retry", s))
              /\ NoLaunch(Each("Seen", s)) /\ NoLaunch(Each("Missing", s))
    /\ \A i : i.op # "Launch" => NoLaunch({ i })
    /\ \A a, b : NoLaunch(a) /\ NoLaunch(b) => NoLaunch(a \cup b)
    /\ \A c, x, r, w : NoLaunch({ Completion(c, x, r, w) })
    /\ NoLaunch({ Plain("QueueResync") })
<1>1. NoLaunch({})
  BY DEF NoLaunch
<1>2. ASSUME NEW s
      PROVE  /\ NoLaunch(Each("Request", s)) /\ NoLaunch(Each("Retry", s))
             /\ NoLaunch(Each("Seen", s)) /\ NoLaunch(Each("Missing", s))
  BY DEF NoLaunch, Each
<1>3. ASSUME NEW i, i.op # "Launch" PROVE NoLaunch({ i })
  BY <1>3 DEF NoLaunch
<1>4. ASSUME NEW a, NEW b, NoLaunch(a), NoLaunch(b) PROVE NoLaunch(a \cup b)
  BY <1>4 DEF NoLaunch
<1>5. ASSUME NEW c, NEW x, NEW r, NEW w PROVE NoLaunch({ Completion(c, x, r, w) })
  BY DEF NoLaunch, Completion
<1>6. NoLaunch({ Plain("QueueResync") })
  BY DEF NoLaunch, Plain
<1>. QED BY <1>1, <1>2, <1>3, <1>4, <1>5, <1>6, Zenon

\* Edges that neither allocate nor launch ...
LEMMA OtherEdge ==
    ASSUME HasWork, Work.op \in OtherOps, NEW t, NEW dst, NEW then, NEW delayed,
           EdgeShape(t, dst, then, delayed), NoLaunch(then),
           dst \notin { "CONTAINER_ALLOCATED", "CONTAINER_LAUNCHED" }
    PROVE  WorkerShape
<1>1. EdgeStepShape(t, dst, then, delayed)
  BY DEF EdgeStepShape, NoLaunch, OtherOps
<1>. QED BY <1>1 DEF WorkerShape

\* ... and steps that leave the tasks and the gang as they are.
LEMMA OtherQuiet ==
    ASSUME HasWork, Work.op \in OtherOps, NEW then, NEW delayed,
           QuietShape(then, delayed) \/ CountShape(then, delayed), NoLaunch(then)
    PROVE  WorkerShape
<1>1. QuietStepShape(then, delayed)
  BY DEF QuietStepShape, NoLaunch, OtherOps
<1>. QED BY <1>1 DEF WorkerShape

\* Every step of the thread is of one of these kinds.
LEMMA WorkerShapes == ASSUME AMInv, WorkerStep PROVE WorkerShape
<1>1. CASE DoAllWaiting
  <2>1. HasWork /\ Work.op \in OtherOps /\ QuietShape(Each("Request", WaitingTasks), {})
    BY <1>1, AllWaitingIs DEF OtherOps
  <2>. QED BY <2>1, NoLaunches, OtherQuiet, Zenon
<1>2. CASE DoRequest
  <2>1. HasWork /\ Work.op \in OtherOps
    BY <1>2, RequestIs DEF OtherOps
  <2>2. PICK t \in Work.all :
           \/ EdgeShape(t, "CONTAINER_REQUESTED", Each("Request", Work.all \ { t }),
                        { TimeoutOf(nextPriority, t) })
           \/ QuietShape(Each("Request", Work.all \ { t }), { AgainFor(t) })
    BY <1>2, RequestIs
  <2>3. "CONTAINER_REQUESTED" \notin { "CONTAINER_ALLOCATED", "CONTAINER_LAUNCHED" }
    OBVIOUS
  <2>. QED BY <2>1, <2>2, <2>3, NoLaunches, OtherQuiet, OtherEdge, Zenon
<1>3. CASE DoAgain
  <2>1. HasWork /\ Work.op \in OtherOps
        /\ (QuietShape({}, {}) \/ QuietShape(Each("Request", { Work.task }), {}))
    BY <1>3, AgainIs DEF OtherOps
  <2>. QED BY <2>1, NoLaunches, OtherQuiet, Zenon
<1>4. CASE DoTimeout
  <2>1. HasWork /\ Work.op \in OtherOps
        /\ \/ QuietShape({}, {})
           \/ EdgeShape(Work.task, "TASK_WAITING", Each("Request", { Work.task }), {})
    BY <1>4, TimeoutIs DEF OtherOps
  <2>2. "TASK_WAITING" \notin { "CONTAINER_ALLOCATED", "CONTAINER_LAUNCHED" }
    OBVIOUS
  <2>. QED BY <2>1, <2>2, NoLaunches, OtherQuiet, OtherEdge, Zenon
<1>5. CASE DoWithdraw
  <2>1. HasWork /\ Work.op \in OtherOps
    BY <1>5, WithdrawIs DEF OtherOps
  <2>2. PICK t : EdgeShape(t, "TASK_WAITING", Each("Request", { t }), {})
    BY <1>5, WithdrawIs
  <2>3. "TASK_WAITING" \notin { "CONTAINER_ALLOCATED", "CONTAINER_LAUNCHED" }
    OBVIOUS
  <2>. QED BY <2>1, <2>2, <2>3, NoLaunches, OtherEdge, Zenon
<1>6. CASE DoStarted
  <2>1. HasWork /\ Work.op \in OtherOps
    BY <1>6, StartedIs DEF OtherOps
  <2>2. QuietShape({}, {}) \/ \E t : EdgeShape(t, "CONTAINER_RUNNING", {}, {})
    BY <1>6, StartedIs
  <2>3. "CONTAINER_RUNNING" \notin { "CONTAINER_ALLOCATED", "CONTAINER_LAUNCHED" }
    OBVIOUS
  <2>. QED BY <2>1, <2>2, <2>3, NoLaunches, OtherQuiet, OtherEdge, Zenon
<1>7. CASE DoStartFailed
  <2>1. HasWork /\ Work.op \in OtherOps
        /\ \/ QuietShape({}, {})
           \/ QuietShape({ Completion(Work.container, "TRANSIENT_NORMAL", TRUE, "start") }, {})
    BY <1>7, StartFailedIs DEF OtherOps
  <2>. QED BY <2>1, NoLaunches, OtherQuiet, Zenon
<1>8. CASE DoComplete
  <2>1. HasWork /\ Work.op \in OtherOps
    BY <1>8, CompleteIs DEF OtherOps
  <2>2. \/ QuietShape({}, {})
        \/ \E t : EdgeShape(t, "CONTAINER_COMPLETED", Each("Retry", { t }), {})
    BY <1>8, CompleteIs
  <2>3. "CONTAINER_COMPLETED" \notin { "CONTAINER_ALLOCATED", "CONTAINER_LAUNCHED" }
    OBVIOUS
  <2>. QED BY <2>1, <2>2, <2>3, NoLaunches, OtherQuiet, OtherEdge, Zenon
<1>9. CASE DoRetryAll
  <2>1. /\ HasWork /\ Work.op \in OtherOps
        /\ QuietShape(Each("Retry", taskStateLocators["CONTAINER_COMPLETED"]), {})
    BY <1>9, RetryAllIs DEF OtherOps
  <2>. QED BY <2>1, NoLaunches, OtherQuiet, Zenon
<1>10. CASE DoRetry
  <2>1. HasWork /\ Work.op \in OtherOps
    BY <1>10, RetryIs DEF OtherOps
  <2>2. PICK t \in Work.all :
           \/ EdgeShape(t, "TASK_WAITING", Each("Request", { t }) \cup Each("Retry", Work.all \ { t }), {})
           \/ EdgeShape(t, "TASK_COMPLETED", Each("Retry", Work.all \ { t }), {})
    BY <1>10, RetryIs
  <2>3. { "TASK_WAITING", "TASK_COMPLETED" } \cap { "CONTAINER_ALLOCATED", "CONTAINER_LAUNCHED" } = {}
        /\ "TASK_WAITING" \notin { "CONTAINER_ALLOCATED", "CONTAINER_LAUNCHED" }
        /\ "TASK_COMPLETED" \notin { "CONTAINER_ALLOCATED", "CONTAINER_LAUNCHED" }
    OBVIOUS
  <2>. QED BY <2>1, <2>2, <2>3, NoLaunches, OtherEdge, Zenon
<1>11. CASE DoResyncFails
  <2>1. HasWork /\ Work.op \in OtherOps /\ CountShape({}, { Plain("Resync") })
    BY <1>11, ResyncFailsIs DEF OtherOps
  <2>. QED BY <2>1, NoLaunches, OtherQuiet, Zenon
<1>12. CASE DoResync
  <2>1. HasWork /\ Work.op \in OtherOps
    BY <1>12, ResyncIs DEF OtherOps
  <2>2. PICK seen : QuietShape(Each("Seen", seen)
                                  \cup Each("Missing", LiveAssociatedContainers \ seen)
                                  \cup { Plain("QueueResync") }, {})
    BY <1>12, ResyncIs
  <2>. QED BY <2>1, <2>2, NoLaunches, OtherQuiet, Zenon
<1>13. CASE DoSeen
  <2>1. HasWork /\ Work.op \in OtherOps
    BY <1>13, SeenIs DEF OtherOps
  <2>2. PICK c : \/ CountShape(Each("Seen", Work.all \ { c }), {})
                 \/ QuietShape(Each("Seen", Work.all \ { c }), {})
                 \/ QuietShape({ Completion(c, "NON_TRANSIENT", TRUE, "exceed") }
                                   \cup Each("Seen", Work.all \ { c }), {})
    BY <1>13, SeenIs
  <2>. QED BY <2>1, <2>2, NoLaunches, OtherQuiet, Zenon
<1>14. CASE DoMissing
  <2>1. HasWork /\ Work.op \in OtherOps
    BY <1>14, MissingIs DEF OtherOps
  <2>2. PICK c : \/ CountShape({ Completion(c, "TRANSIENT_NORMAL", TRUE, "lost") }
                                   \cup Each("Missing", Work.all \ { c }), {})
                 \/ CountShape(Each("Missing", Work.all \ { c }), {})
    BY <1>14, MissingIs
  <2>. QED BY <2>1, <2>2, NoLaunches, OtherQuiet, Zenon
<1>15. CASE DoQueueResync
  <2>1. HasWork /\ Work.op \in OtherOps /\ QuietShape({}, { Plain("Resync") })
    BY <1>15, QueueResyncIs DEF OtherOps
  <2>. QED BY <2>1, NoLaunches, OtherQuiet, Zenon
<1>16. CASE DoNumbers
  BY <1>16, NumbersIs DEF NumbersStepShape, WorkerShape
<1>17. CASE DoGangTimeout
  BY <1>17, GangTimeoutIs DEF QuietStepShape, WorkerShape
<1>18. CASE DoLaunchAll
  <2>1. \A u \in taskStateLocators["CONTAINER_ALLOCATED"] :
           \E j \in Each("Launch", taskStateLocators["CONTAINER_ALLOCATED"]) :
               j.op = "Launch" /\ u \in j.all
    BY EachHas
  <2>2. CASE Outstanding = {}
    <3>1. QuietStepShape(Each("Launch", taskStateLocators["CONTAINER_ALLOCATED"]), {})
      BY <1>18, <2>1, <2>2, LaunchAllIs DEF QuietStepShape
    <3>. QED BY <1>18, <3>1, LaunchAllIs DEF WorkerShape
  <2>3. CASE Outstanding # {}
    <3>1. QuietStepShape({}, {})
      BY <1>18, <2>3, LaunchAllIs DEF QuietStepShape
    <3>. QED BY <1>18, <3>1, LaunchAllIs DEF WorkerShape
  <2>. QED BY <2>2, <2>3
<1>19. CASE DoLaunch
  <2>1. PICK t \in Work.all : EdgeShape(t, "CONTAINER_LAUNCHED", Each("Launch", Work.all \ { t }), {})
    BY <1>19, LaunchIs
  <2>2. \A u \in Work.all \ { t } : \E j \in Each("Launch", Work.all \ { t }) : j.op = "Launch" /\ u \in j.all
    BY EachHas
  <2>3. EdgeStepShape(t, "CONTAINER_LAUNCHED", Each("Launch", Work.all \ { t }), {})
    BY <1>19, <2>1, <2>2, LaunchIs DEF EdgeStepShape
  <2>. QED BY <1>19, <2>3, LaunchIs DEF WorkerShape
<1>20. CASE DoAllocate
  <2>1. HasWork /\ Work.op = "Allocate" /\ Work.container \in Containers
    BY <1>20, AllocateIs
  <2>2. PICK c, t : c = Work.container /\ t = priorityLocators[Work.priority]
    OBVIOUS
  <2>3. \/ QuietShape({}, {})
        \/ EdgeShape(t, "TASK_WAITING", Each("Request", { t }), {})
        \/ /\ EdgeShape(t, "CONTAINER_ALLOCATED", IF Gang THEN {} ELSE Each("Launch", { t }), {})
           /\ TestContainer(c, t[1]) /\ taskStatus'[t].container = c
           /\ taskStatus[t].state = "CONTAINER_REQUESTED"
        \/ /\ t \in Locators /\ taskStatus[t].state = "CONTAINER_REQUESTED"
           /\ FailToAssociate(t) /\ Goes(Each("Withdraw", { t }), {})
           /\ timers' = Armed(timers)
    BY <1>20, <2>2, AllocateIs
  <2>4. CASE QuietShape({}, {})
    <3>1. Work.op \in OtherOps
      BY <2>1 DEF OtherOps
    <3>. QED BY <2>1, <2>4, <3>1, NoLaunches, OtherQuiet, Zenon
  <2>5. CASE EdgeShape(t, "TASK_WAITING", Each("Request", { t }), {})
    <3>1. Work.op \in OtherOps /\ "TASK_WAITING" \notin { "CONTAINER_ALLOCATED", "CONTAINER_LAUNCHED" }
      BY <2>1 DEF OtherOps
    <3>. QED BY <2>1, <2>5, <3>1, NoLaunches, OtherEdge, Zenon
  <2>6. CASE /\ EdgeShape(t, "CONTAINER_ALLOCATED", IF Gang THEN {} ELSE Each("Launch", { t }), {})
             /\ TestContainer(c, t[1]) /\ taskStatus'[t].container = c
             /\ taskStatus[t].state = "CONTAINER_REQUESTED"
    <3>1. EdgeStepShape(t, "CONTAINER_ALLOCATED", IF Gang THEN {} ELSE Each("Launch", { t }), {})
      BY <2>1, <2>2, <2>6 DEF EdgeStepShape
    <3>. QED BY <2>1, <3>1 DEF WorkerShape
  <2>7. CASE /\ t \in Locators /\ taskStatus[t].state = "CONTAINER_REQUESTED"
             /\ FailToAssociate(t) /\ Goes(Each("Withdraw", { t }), {})
             /\ timers' = Armed(timers)
    BY <2>1, <2>7 DEF FailStepShape, WorkerShape
  <2>. QED BY <2>3, <2>4, <2>5, <2>6, <2>7
<1>. QED BY <1>1, <1>2, <1>3, <1>4, <1>5, <1>6, <1>7, <1>8, <1>9, <1>10, <1>11, <1>12, <1>13,
            <1>14, <1>15, <1>16, <1>17, <1>18, <1>19, <1>20 DEF WorkerStep

-----------------------------------------------------------------------------
(* Who launches the gang, and who gives it up *)

\* System task or part i will launch an allocated task.
Launches(i, t) == i.op = "LaunchAll" \/ (i.op = "Launch" /\ t \in i.all)

\* The callbacks of the outstanding tasks have left behind what they promise, or
\* the attempt still has to see its first task numbers, which will.
GangInv ==
    Gang /\ phase = "running" =>
        IF triggered
        THEN /\ Outstanding = {} =>
                   \A t \in Locators : taskStatus[t].state = "CONTAINER_ALLOCATED" =>
                       \E i \in Pending : Launches(i, t)
             /\ Outstanding # {} => GangTimeout(round) \in Pending
        ELSE \E i \in Pending : i.op = "Numbers"

\* The outstanding tasks by their states.
LEMMA OutstandingIs ==
    ASSUME IndexesExact
    PROVE  Outstanding = { t \in Locators : taskStatus[t].state \in OUTSTANDING_STATES }
BY DEF Outstanding, TasksIn, IndexesExact, StateIndexExact, OUTSTANDING_STATES, TaskStates

\* A step of the thread keeps it: an outstanding task appears or disappears with
\* its callback, and what is worked on launches or gives up what it has to.
LEMMA GangKept ==
    ASSUME AMInv, AMInv', HasWork, GangInv,
           NEW then, NEW submitted, NEW delayed, Goes(then, submitted),
           Armed(timers \cup delayed) \subseteq timers', NEW recover \in BOOLEAN,
           \/ UNCHANGED gangVars /\ Outstanding' = Outstanding
           \/ /\ OutstandingCallbacks(recover)
              /\ Gang /\ Disappears(recover) => Plain("LaunchAll") \in submitted
              /\ Gang /\ Appears(recover) => GangTimeout(round) \in delayed,
           Work.op = "Numbers" => triggered',
           \A t \in Locators : taskStatus[t].state # "CONTAINER_ALLOCATED"
               /\ taskStatus'[t].state = "CONTAINER_ALLOCATED" => Outstanding # {},
           Outstanding = {} => \A t \in Locators :
               taskStatus[t].state = "CONTAINER_ALLOCATED"
               /\ taskStatus'[t].state = "CONTAINER_ALLOCATED" /\ Launches(Work, t) =>
                     \E j \in then : Launches(j, t),
           Work.op = "GangTimeout" /\ Work.round = round /\ Outstanding # {} => phase' # "running"
    PROVE  GangInv'
<1>. SUFFICES ASSUME Gang, phase' = "running"
              PROVE  IF triggered'
                     THEN /\ Outstanding' = {} =>
                                \A t \in Locators : taskStatus'[t].state = "CONTAINER_ALLOCATED" =>
                                    \E i \in Pending' : Launches(i, t)
                          /\ Outstanding' # {} => GangTimeout(round') \in Pending'
                     ELSE \E i \in Pending' : i.op = "Numbers"
  BY DEF GangInv, Launches, GangTimeout
<1>1. /\ \A i \in Pending \cup delayed :
            \/ i \in Pending'
            \/ i = Work /\ i \notin delayed
            \/ i.op = "Timeout" /\ priorityLocators'[i.priority] = None
            \/ i.op = "GangTimeout" /\ i.round # round'
      /\ then \subseteq Pending' /\ submitted \subseteq Pending'
  BY PendingKept
<1>2. phase = "running"
  BY DEF HasWork
<1>3. /\ triggered => triggered'
      /\ triggered \in BOOLEAN
      /\ round' = round \/ Outstanding' = {}
      /\ Outstanding = {} /\ Outstanding' = {} /\ ~recover => round' = round
  BY DEF OutstandingCallbacks, gangVars, Disappears, Appears, AMInv, IInv, SMTypeOK
<1>4. CASE ~triggered'
  <2>1. PICK i \in Pending : i.op = "Numbers"
    BY <1>2, <1>3, <1>4 DEF GangInv
  <2>. QED BY <1>1, <1>4, <2>1
<1>5. ASSUME triggered', Outstanding' = {}, NEW t \in Locators,
             taskStatus'[t].state = "CONTAINER_ALLOCATED"
      PROVE  \E i \in Pending' : Launches(i, t)
  <2>1. CASE Plain("LaunchAll") \in submitted
    BY <1>1, <2>1 DEF Launches, Plain
  <2>2. CASE Plain("LaunchAll") \notin submitted
    <3>1. triggered /\ Outstanding = {}
      BY <1>5, <2>2 DEF OutstandingCallbacks, Disappears, Appears, gangVars
    <3>2. taskStatus[t].state = "CONTAINER_ALLOCATED"
      BY <1>5, <3>1
    <3>3. PICK i \in Pending : Launches(i, t)
      BY <1>2, <3>1, <3>2 DEF GangInv
    <3>4. i = Work => \E j \in then : Launches(j, t)
      BY <1>5, <3>1, <3>2, <3>3
    <3>5. i.op # "Timeout" /\ i.op # "GangTimeout"
      BY <3>3 DEF Launches
    <3>. QED BY <1>1, <3>3, <3>4, <3>5
  <2>. QED BY <2>1, <2>2
<1>6. ASSUME triggered', Outstanding' # {}
      PROVE  GangTimeout(round') \in Pending'
  <2>1. round' = round
    BY <1>3, <1>6
  <2>2. PICK g : g = GangTimeout(round)
    OBVIOUS
  <2>3. g.op = "GangTimeout" /\ g.round = round
    BY <2>2 DEF GangTimeout
  <2>4. CASE g \in delayed
    BY <1>1, <2>1, <2>2, <2>3, <2>4 DEF GangTimeout
  <2>5. CASE g \notin delayed
    <3>1. triggered /\ Outstanding # {}
      BY <1>6, <2>2, <2>5 DEF OutstandingCallbacks, Disappears, Appears, gangVars
    <3>2. g \in Pending
      BY <1>2, <2>2, <3>1 DEF GangInv
    <3>3. g # Work
      BY <2>3, <3>1
    <3>4. g \in Pending'
      BY <1>1, <2>1, <2>3, <3>2, <3>3
    <3>. QED BY <2>1, <2>2, <3>4 DEF GangTimeout
  <2>. QED BY <2>4, <2>5
<1>. QED BY <1>3, <1>4, <1>5, <1>6

\* An edge, ...
LEMMA EdgeGang ==
    ASSUME AMInv, AMInv', HasWork, GangInv, NEW t, NEW dst, NEW then, NEW delayed,
           EdgeStepShape(t, dst, then, delayed)
    PROVE  GangInv'
<1>1. EdgeShape(t, dst, then, delayed)
  BY DEF EdgeStepShape
<1>2. /\ t \in Locators /\ taskStatus'[t].state = dst /\ taskStatus[t].state # dst
      /\ \A u \in Locators : u # t => taskStatus'[u] = taskStatus[u]
  BY <1>1, EdgeFacts
<1>3. PICK submitted : /\ submitted = IF Gang /\ Disappears(FALSE) THEN { Plain("LaunchAll") } ELSE {}
                       /\ Goes(then, submitted)
  BY <1>1 DEF EdgeShape
<1>4. PICK more : /\ more = delayed \cup IF Gang /\ Appears(FALSE) THEN { GangTimeout(round) } ELSE {}
                  /\ timers' = Armed(timers \cup more)
  <2>1. PICK g : g = IF Gang /\ Appears(FALSE) THEN { GangTimeout(round) } ELSE {}
    OBVIOUS
  <2>2. timers' = Armed(timers \cup delayed \cup g)
    BY <1>1, <2>1 DEF EdgeShape
  <2>3. timers \cup delayed \cup g = timers \cup (delayed \cup g)
    OBVIOUS
  <2>. QED BY <2>1, <2>2, <2>3
<1>5. OutstandingCallbacks(FALSE)
  <2>1. \E event \in Events : TransitionTaskState(t, dst, event)
    BY <1>1 DEF EdgeShape
  <2>. QED BY <1>2, <2>1 DEF TransitionTaskState
<1>6. \A u \in Locators : taskStatus[u].state # "CONTAINER_ALLOCATED"
          /\ taskStatus'[u].state = "CONTAINER_ALLOCATED" => Outstanding # {}
  <2>1. ASSUME NEW u \in Locators, taskStatus[u].state # "CONTAINER_ALLOCATED",
               taskStatus'[u].state = "CONTAINER_ALLOCATED"
        PROVE  taskStatus[u].state = "CONTAINER_REQUESTED"
    BY <1>2, <2>1 DEF EdgeStepShape
  <2>2. Outstanding = { u \in Locators : taskStatus[u].state \in OUTSTANDING_STATES }
    BY OutstandingIs DEF AMInv, IInv
  <2>. QED BY <2>1, <2>2 DEF OUTSTANDING_STATES
<1>7. \A u \in Locators : taskStatus[u].state = "CONTAINER_ALLOCATED"
          /\ taskStatus'[u].state = "CONTAINER_ALLOCATED" /\ Launches(Work, u) =>
                \E j \in then : Launches(j, u)
  <2>. SUFFICES ASSUME NEW u \in Locators, taskStatus[u].state = "CONTAINER_ALLOCATED",
                       taskStatus'[u].state = "CONTAINER_ALLOCATED", Launches(Work, u)
                PROVE  \E j \in then : Launches(j, u)
    OBVIOUS
  <2>1. u # t
    BY <1>2
  <2>2. Work.op = "Launch" /\ u \in Work.all
    BY DEF EdgeStepShape, Launches
  <2>3. PICK j \in then : j.op = "Launch" /\ u \in j.all
    BY <2>1, <2>2 DEF EdgeStepShape
  <2>. QED BY <2>3 DEF Launches
<1>8. Work.op # "Numbers" /\ Work.op # "GangTimeout"
  BY DEF EdgeStepShape
<1>9. /\ Gang /\ Disappears(FALSE) => Plain("LaunchAll") \in submitted
      /\ Gang /\ Appears(FALSE) => GangTimeout(round) \in more
      /\ Armed(timers \cup more) \subseteq timers'
  BY <1>3, <1>4
<1>10. PICK recover \in BOOLEAN : recover = FALSE
  OBVIOUS
<1>11. /\ OutstandingCallbacks(recover)
       /\ Gang /\ Disappears(recover) => Plain("LaunchAll") \in submitted
       /\ Gang /\ Appears(recover) => GangTimeout(round) \in more
  BY <1>5, <1>9, <1>10
<1>. QED BY <1>3, <1>6, <1>7, <1>8, <1>9, <1>11, GangKept

\* ... a step that moves no task, ...
LEMMA QuietGang ==
    ASSUME AMInv, AMInv', HasWork, GangInv, NEW then, NEW delayed, QuietStepShape(then, delayed)
    PROVE  GangInv'
<1>1. Goes(then, {}) /\ Armed(timers \cup delayed) \subseteq timers'
  BY DEF QuietStepShape, QuietShape, CountShape, Armed
<1>2. UNCHANGED << extVars, gangVars >>
  BY DEF QuietStepShape, QuietShape, CountShape, SetLostCounts, smVars
<1>3. Outstanding' = Outstanding
  BY <1>2 DEF Outstanding, TasksIn, extVars
<1>4. \A u \in Locators : (taskStatus[u].state = "CONTAINER_ALLOCATED"
                               <=> taskStatus'[u].state = "CONTAINER_ALLOCATED")
  <2>1. taskStateLocators["CONTAINER_ALLOCATED"]' = taskStateLocators["CONTAINER_ALLOCATED"]
    BY <1>2 DEF extVars
  <2>. QED BY <2>1 DEF AMInv, IInv, IndexesExact, StateIndexExact, TaskStates
<1>5. Outstanding = {} => \A u \in Locators :
         taskStatus[u].state = "CONTAINER_ALLOCATED"
         /\ taskStatus'[u].state = "CONTAINER_ALLOCATED" /\ Launches(Work, u) =>
               \E j \in then : Launches(j, u)
  <2>. SUFFICES ASSUME Outstanding = {}, NEW u \in Locators,
                       taskStatus[u].state = "CONTAINER_ALLOCATED", Launches(Work, u)
                PROVE  \E j \in then : Launches(j, u)
    OBVIOUS
  <2>1. u \in taskStateLocators["CONTAINER_ALLOCATED"]
    BY DEF AMInv, IInv, IndexesExact, StateIndexExact, TaskStates
  <2>2. Work.op = "LaunchAll"
    BY DEF Launches, QuietStepShape
  <2>3. PICK j \in then : j.op = "Launch" /\ u \in j.all
    BY <2>1, <2>2 DEF QuietStepShape
  <2>. QED BY <2>3 DEF Launches
<1>6. Work.op # "Numbers"
      /\ (Work.op = "GangTimeout" /\ Work.round = round /\ Outstanding # {} => phase' # "running")
  BY DEF QuietStepShape
<1>7. FALSE \in BOOLEAN /\ UNCHANGED gangVars
  BY <1>2
<1>. QED BY <1>1, <1>3, <1>4, <1>5, <1>6, <1>7, GangKept

\* ... a container that cannot be associated, ...
LEMMA FailGang ==
    ASSUME AMInv, AMInv', HasWork, GangInv, NEW t, FailStepShape(t)
    PROVE  GangInv'
<1>1. /\ Goes(Each("Withdraw", { t }), {}) /\ timers' = Armed(timers)
      /\ UNCHANGED << memVars, extVars, gangVars >> /\ Work.op = "Allocate"
  BY DEF FailStepShape, FailToAssociate
<1>2. Outstanding' = Outstanding
  BY <1>1 DEF Outstanding, TasksIn, extVars
<1>3. taskStatus' = taskStatus
  BY <1>1 DEF memVars
<1>4. \A u : ~Launches(Work, u)
  BY <1>1 DEF Launches
<1>5. FALSE \in BOOLEAN /\ UNCHANGED gangVars /\ Armed(timers \cup {}) \subseteq timers'
  BY <1>1
<1>. QED BY <1>1, <1>2, <1>3, <1>4, <1>5, GangKept

\* ... and new task numbers keep the gang driven.
LEMMA NumbersGang ==
    ASSUME AMInv, AMInv', HasWork, GangInv, NumbersStepShape
    PROVE  GangInv'
<1>1. PICK submitted :
         /\ submitted = IF Gang /\ Disappears(~triggered) THEN { Plain("LaunchAll") } ELSE {}
         /\ Goes({ Plain("AllWaiting") }, submitted)
  BY DEF NumbersStepShape
<1>2. PICK more : /\ more = IF Gang /\ Appears(~triggered) THEN { GangTimeout(round) } ELSE {}
                  /\ Armed(timers \cup more) \subseteq timers'
  <2>1. PICK g : g = IF Gang /\ Appears(~triggered) THEN { GangTimeout(round) } ELSE {}
    OBVIOUS
  <2>2. timers' = Armed(timers \cup {} \cup g)
    BY <2>1 DEF NumbersStepShape
  <2>3. timers \cup {} \cup g = timers \cup g
    OBVIOUS
  <2>. QED BY <2>1, <2>2, <2>3
<1>3. PICK recover \in BOOLEAN : recover = ~triggered
  BY DEF AMInv, IInv, SMTypeOK
<1>4. /\ OutstandingCallbacks(recover)
      /\ Gang /\ Disappears(recover) => Plain("LaunchAll") \in submitted
      /\ Gang /\ Appears(recover) => GangTimeout(round) \in more
  BY <1>1, <1>2, <1>3 DEF NumbersStepShape, UpdateTaskNumbers
<1>5. triggered'
  BY <1>3, <1>4 DEF OutstandingCallbacks, Disappears, Appears
<1>6. PICK gone, new : /\ gone = Removed(Work.numbers) /\ new = Added(Work.numbers)
                       /\ taskStatus' = [ u \in Locators |->
                              IF u \in gone THEN NoTask ELSE IF u \in new THEN NewTask ELSE taskStatus[u] ]
  BY DEF NumbersStepShape, UpdateTaskNumbers
<1>7. \A u \in Locators : taskStatus'[u].state = "CONTAINER_ALLOCATED" => taskStatus'[u] = taskStatus[u]
  BY <1>6 DEF NoTask, NewTask
<1>8. Work.op = "Numbers" /\ \A u : ~Launches(Work, u)
  BY DEF NumbersStepShape, Launches
<1>. QED BY <1>1, <1>2, <1>4, <1>5, <1>7, <1>8, GangKept

\* Steps outside the queue's thread leave them in place, ...
LEMMA OutsideGang == ASSUME GangInv, OutsideShape PROVE GangInv'
<1>1. /\ UNCHANGED << taskStatus, triggered, round >> /\ Outstanding' = Outstanding
      /\ Pending \subseteq Pending' /\ (phase' = "running" => phase = "running")
  BY DEF OutsideShape, memVars, gangVars, extVars, Outstanding, TasksIn
<1>2. \A i, t : Launches(i, t)' <=> Launches(i, t)
  BY DEF Launches
<1>3. GangTimeout(round)' = GangTimeout(round)
  BY <1>1 DEF GangTimeout
<1>. QED BY <1>1, <1>2, <1>3 DEF GangInv

\* ... and a new attempt begins with its task numbers, as the first one does.
LEMMA RestartGang == ASSUME AMInv, AMInv', CrashAndRestart PROVE GangInv'
<1>1. ~triggered' /\ NumbersTo(numbers) \in Pending'
  BY RestartIs DEF Pending, Elements
<1>2. NumbersTo(numbers).op = "Numbers"
  BY DEF NumbersTo
<1>. QED BY <1>1, <1>2 DEF GangInv

\* The first attempt begins with its task numbers.
LEMMA InitGang == ASSUME Init PROVE GangInv
<1>1. ~triggered
  BY DEF Init, SMInit
<1>2. queue = << Plain("AllWaiting"), Plain("RetryAll"), NumbersTo(numbers) >>
  BY DEF Init, StartupQueue
<1>3. 3 \in DOMAIN queue /\ queue[3] = NumbersTo(numbers)
  BY <1>2
<1>4. NumbersTo(numbers) \in Pending
  BY <1>3 DEF Pending, Elements
<1>5. NumbersTo(numbers).op = "Numbers"
  BY DEF NumbersTo
<1>. QED BY <1>1, <1>4, <1>5 DEF GangInv

\* Every step of the AM leaves the gang driven.
LEMMA NextGang == AMInv /\ GangInv /\ [Next]_vars => GangInv'
<1>. SUFFICES ASSUME AMInv, GangInv, [Next]_vars PROVE GangInv'
  OBVIOUS
<1>1. AMInv'
  BY NextKeepsAMInv
<1>2. ASSUME WorkerStep PROVE GangInv'
  <2>1. WorkerShape
    BY <1>2, WorkerShapes
  <2>. QED BY <1>1, <2>1, EdgeGang, QuietGang, FailGang, NumbersGang DEF WorkerShape
<1>. QED BY <1>1, <1>2, OutsideIs, OutsideGang, RestartGang

\* Under gang allocation the tasks that are all allocated are going to be launched,
\* and a round with a task outstanding is going to time out: the gang neither waits
\* forever nor is left half launched, whatever appears or disappears meanwhile.
THEOREM AMDrivesGang == Spec => []GangDriven
<1>1. Init => GangInv
  BY InitGang
<1>2. AMInv /\ GangInv /\ [Next]_vars => GangInv'
  BY NextGang
<1>3. AMInv /\ GangInv => GangDriven
  <2>. SUFFICES ASSUME AMInv, GangInv, Gang, phase = "running"
                PROVE  /\ Outstanding = {} /\ ~Waits("Numbers") =>
                             \A t \in taskStateLocators["CONTAINER_ALLOCATED"] :
                                 Has("Launch", t) \/ Waits("LaunchAll")
                       /\ Outstanding # {} => GangTimeout(round) \in Pending \/ Waits("Numbers")
    BY DEF GangDriven
  <2>1. triggered \/ Waits("Numbers")
    BY DEF GangInv, Waits
  <2>2. ASSUME triggered, Outstanding = {}, NEW t \in taskStateLocators["CONTAINER_ALLOCATED"]
        PROVE  Has("Launch", t) \/ Waits("LaunchAll")
    <3>1. t \in Locators /\ taskStatus[t].state = "CONTAINER_ALLOCATED"
      BY <2>2 DEF AMInv, IInv, IndexesExact, StateIndexExact, TaskStates
    <3>2. PICK i \in Pending : Launches(i, t)
      BY <2>2, <3>1 DEF GangInv
    <3>3. i.op = "Launch" => i \in Elements(todo)
      <4>1. \A j \in QueueItems : j.op # "Launch"
        BY DEF QueueItems, TimerItems, InboxItems, CompletionItems
      <4>2. timers \subseteq QueueItems /\ Elements(queue) \subseteq QueueItems
        BY DEF AMInv, AMTypes, QueueItems, Elements
      <4>. QED BY <4>1, <4>2 DEF Pending
    <3>. QED BY <3>2, <3>3 DEF Launches, Has, Waits
  <2>. QED BY <2>1, <2>2 DEF GangInv
<1>. QED BY <1>1, <1>2, <1>3, AMInvariance, PTL DEF Spec

-----------------------------------------------------------------------------
(* All or nothing *)

\* While the gang is being launched no task is outstanding.
LaunchInv == Gang => \A i \in Elements(todo) : i.op = "Launch" => Outstanding = {}

\* A step of the thread begins or goes on with the launch only of a whole gang.
LEMMA WorkerLaunches ==
    ASSUME AMInv, AMInv', LaunchInv, WorkerStep, Gang
    PROVE  /\ LaunchInv'
           /\ \A t \in Locators : taskStatus[t].state = "CONTAINER_ALLOCATED"
                                      /\ taskStatus'[t].state = "CONTAINER_LAUNCHED" => Outstanding = {}
<1>1. WorkerShape /\ HasWork
  BY WorkerShapes DEF WorkerShape
<1>2. \A i \in Elements(Rest) : i.op # "Launch"
  <2>1. \A i \in Elements(Rest) : Rank(Work) < Rank(i)
    BY <1>1, RestFacts DEF Before
  <2>2. Rank(Work) \in Nat /\ Rank(Work) # 0
    BY DEF Rank
  <2>3. \A i \in Elements(Rest) : Rank(i) # 1
    BY <2>1, <2>2
  <2>. QED BY <2>3 DEF Rank
<1>3. Work.op = "Launch" => Outstanding = {}
  <2>1. \A j \in QueueItems : j.op # "Launch"
    BY DEF QueueItems, TimerItems, InboxItems, CompletionItems
  <2>2. Elements(queue) \subseteq QueueItems
    BY DEF AMInv, AMTypes, Elements
  <2>3. Work.op = "Launch" => Work \in Elements(todo)
    BY <1>1, <2>1, <2>2, RestFacts
  <2>. QED BY <2>3 DEF LaunchInv
<1>4. ASSUME NEW t, NEW dst, NEW then, NEW delayed, EdgeStepShape(t, dst, then, delayed)
      PROVE  /\ LaunchInv'
             /\ \A u \in Locators : taskStatus[u].state = "CONTAINER_ALLOCATED"
                                        /\ taskStatus'[u].state = "CONTAINER_LAUNCHED" => Outstanding = {}
  <2>1. EdgeShape(t, dst, then, delayed)
    BY <1>4 DEF EdgeStepShape
  <2>2. /\ t \in Locators /\ taskStatus'[t].state = dst
        /\ \A u \in Locators : u # t => taskStatus'[u] = taskStatus[u]
    BY <2>1, EdgeFacts
  <2>3. Elements(todo') = then \cup Elements(Rest) /\ Elements(todo)' = Elements(todo')
    BY <2>1 DEF EdgeShape, Goes, Elements
  <2>4. \A i \in Elements(todo') : i.op = "Launch" => Work.op = "Launch"
    BY <1>2, <1>4, <2>3 DEF EdgeStepShape
  <2>5. Work.op = "Launch" => Outstanding' = {}
    <3>1. Outstanding = { u \in Locators : taskStatus[u].state \in OUTSTANDING_STATES }
      BY OutstandingIs DEF AMInv, IInv
    <3>2. Outstanding' = { u \in Locators : taskStatus'[u].state \in OUTSTANDING_STATES }
      BY DEF AMInv, IInv, Outstanding, TasksIn, IndexesExact, StateIndexExact, OUTSTANDING_STATES,
             TaskStates
    <3>3. Work.op = "Launch" => dst = "CONTAINER_LAUNCHED"
      BY <1>4 DEF EdgeStepShape
    <3>. QED BY <1>3, <2>2, <3>1, <3>2, <3>3 DEF OUTSTANDING_STATES
  <2>6. LaunchInv'
    BY <2>3, <2>4, <2>5 DEF LaunchInv
  <2>7. ASSUME NEW u \in Locators, taskStatus[u].state = "CONTAINER_ALLOCATED",
               taskStatus'[u].state = "CONTAINER_LAUNCHED"
        PROVE  Outstanding = {}
    <3>1. u = t /\ dst = "CONTAINER_LAUNCHED"
      BY <2>2, <2>7
    <3>2. Work.op = "Launch"
      BY <1>4, <3>1 DEF EdgeStepShape
    <3>. QED BY <1>3, <3>2
  <2>. QED BY <2>6, <2>7, Zenon
<1>5. ASSUME UNCHANGED extVars, NEW then, Elements(todo') = then \cup Elements(Rest),
             \A j \in then : j.op = "Launch" => Outstanding = {}
      PROVE  LaunchInv'
  <2>1. Outstanding' = Outstanding
    BY <1>5 DEF Outstanding, TasksIn, extVars
  <2>2. Elements(todo)' = then \cup Elements(Rest)
    BY <1>5 DEF Elements
  <2>. QED BY <1>2, <1>5, <2>1, <2>2 DEF LaunchInv
<1>6. ASSUME UNCHANGED extVars, NEW u \in Locators, taskStatus[u].state = "CONTAINER_ALLOCATED",
             taskStatus'[u].state = "CONTAINER_LAUNCHED"
      PROVE  FALSE
  <2>1. taskStateLocators' = taskStateLocators
    BY <1>6 DEF extVars
  <2>2. u \in taskStateLocators["CONTAINER_ALLOCATED"]
    BY <1>6 DEF AMInv, IInv, IndexesExact, StateIndexExact, TaskStates
  <2>3. u \notin taskStateLocators'["CONTAINER_ALLOCATED"]
    BY <1>6 DEF AMInv, IInv, IndexesExact, StateIndexExact, TaskStates
  <2>. QED BY <2>1, <2>2, <2>3
<1>7. ASSUME NEW then, NEW delayed, QuietStepShape(then, delayed)
      PROVE  LaunchInv' /\ UNCHANGED extVars
  <2>1. UNCHANGED extVars /\ Elements(todo') = then \cup Elements(Rest)
    BY <1>7 DEF QuietStepShape, QuietShape, CountShape, SetLostCounts, smVars, Goes
  <2>2. \A j \in then : j.op = "Launch" => Outstanding = {}
    BY <1>7 DEF QuietStepShape
  <2>. QED BY <2>1, <2>2, <1>5
<1>8. ASSUME NEW t, FailStepShape(t) PROVE LaunchInv' /\ UNCHANGED extVars
  <2>1. UNCHANGED extVars /\ Elements(todo') = Each("Withdraw", { t }) \cup Elements(Rest)
    BY <1>8 DEF FailStepShape, FailToAssociate, Goes
  <2>2. \A j \in Each("Withdraw", { t }) : j.op = "Launch" => Outstanding = {}
    BY DEF Each
  <2>. QED BY <2>1, <2>2, <1>5
<1>9. ASSUME NumbersStepShape
      PROVE  /\ LaunchInv'
             /\ \A u \in Locators : taskStatus[u].state = "CONTAINER_ALLOCATED"
                                        /\ taskStatus'[u].state = "CONTAINER_LAUNCHED" => Outstanding = {}
  <2>1. Elements(todo') = { Plain("AllWaiting") } \cup {} /\ Elements(todo)' = Elements(todo')
    BY <1>9 DEF NumbersStepShape, Goes, Elements
  <2>2. LaunchInv'
    BY <2>1 DEF LaunchInv, Plain
  <2>3. PICK gone, new : taskStatus' = [ u \in Locators |->
             IF u \in gone THEN NoTask ELSE IF u \in new THEN NewTask ELSE taskStatus[u] ]
    BY <1>9 DEF NumbersStepShape, UpdateTaskNumbers
  <2>. QED BY <2>2, <2>3 DEF NoTask, NewTask
<1>10. ASSUME LaunchInv' /\ UNCHANGED extVars
       PROVE  /\ LaunchInv'
              /\ \A t \in Locators : taskStatus[t].state = "CONTAINER_ALLOCATED"
                                         /\ taskStatus'[t].state = "CONTAINER_LAUNCHED" => Outstanding = {}
  BY <1>6, <1>10
<1>. QED BY <1>1, <1>4, <1>7, <1>8, <1>9, <1>10, Zenon DEF WorkerShape

\* All or nothing: under gang allocation a container is launched only when no task
\* is outstanding, however long ago the launch was decided.
THEOREM AMLaunchesWholeGangs == Spec => GangLaunch
<1>. DEFINE Whole == \A t \in Locators :
                         Gang /\ taskStatus[t].state = "CONTAINER_ALLOCATED"
                                  /\ taskStatus'[t].state = "CONTAINER_LAUNCHED" => Outstanding = {}
<1>1. Init => LaunchInv
  <2>1. Init => todo = << >>
    BY DEF Init
  <2>. QED BY <2>1, ElementsOne DEF LaunchInv
<1>2. AMInv /\ LaunchInv /\ [Next]_vars => LaunchInv' /\ Whole
  <2>. SUFFICES ASSUME AMInv, LaunchInv, [Next]_vars, Gang PROVE LaunchInv' /\ Whole
    BY DEF LaunchInv
  <2>1. AMInv'
    BY NextKeepsAMInv
  <2>2. CASE WorkerStep
    BY <2>1, <2>2, WorkerLaunches
  <2>3. CASE OutsideShape
    <3>1. UNCHANGED << taskStatus, todo >> /\ Outstanding' = Outstanding
      BY <2>3 DEF OutsideShape, memVars, extVars, Outstanding, TasksIn
    <3>2. Elements(todo)' = Elements(todo)
      BY <3>1 DEF Elements
    <3>. QED BY <3>1, <3>2 DEF LaunchInv
  <2>4. CASE CrashAndRestart
    <3>1. todo' = << >> /\ Elements(todo)' = Elements(todo')
      BY <2>1, <2>4, RestartIs DEF Elements
    <3>2. \A t \in Locators : taskStatus'[t].state # "CONTAINER_LAUNCHED"
      BY <2>1, <2>4, RestartIs
    <3>. QED BY <3>1, <3>2, ElementsOne DEF LaunchInv
  <2>. QED BY <2>2, <2>3, <2>4, OutsideIs
<1>3. AMInv /\ LaunchInv /\ [Next]_vars => [Whole]_vars
  BY <1>2
<1>. QED BY <1>1, <1>2, <1>3, AMInvariance, PTL DEF Spec, GangLaunch

-----------------------------------------------------------------------------
(* Where the containers of live tasks are *)

\* What an edge does to the container of its task and to the hosts.
LEMMA EdgeContainer ==
    ASSUME AMInv, NEW t, NEW dst, NEW then, NEW delayed, EdgeShape(t, dst, then, delayed)
    PROVE  /\ UNCHANGED zkVars
           /\ dst \in LIVE_STATES \ { "CONTAINER_ALLOCATED" } =>
                 /\ taskStatus[t].state \in LIVE_STATES
                 /\ taskStatus'[t].container = taskStatus[t].container
                 /\ liveHosts' = liveHosts
           /\ dst = "CONTAINER_ALLOCATED" =>
                 liveHosts' = liveHosts \cup { HostOf[taskStatus'[t].container] }
           /\ dst \notin LIVE_STATES =>
                 liveHosts' = IF taskStatus[t].state \in LIVE_STATES
                              THEN liveHosts \ { HostOf[taskStatus[t].container] } ELSE liveHosts
<1>1. PICK event \in Events : LegalEdge(t, dst, event) /\ TransitionTaskState(t, dst, event)
  BY DEF EdgeShape
<1>2. t \in Locators /\ taskStatus[t].state # dst
  BY EdgeFacts
<1>3. PICK src, s : src = taskStatus[t].state /\ s = taskStatus[t]
  OBVIOUS
<1>4. /\ taskStatus' = [ taskStatus EXCEPT ![t] = Transitioned(taskStatus[t], dst, event) ]
      /\ TransitionLiveness(t, src, dst, event) /\ UNCHANGED zkVars
  BY <1>1, <1>2, <1>3 DEF TransitionTaskState
<1>5. taskStatus'[t] = Transitioned(s, dst, event)
  BY <1>2, <1>3, <1>4 DEF AMInv, IInv, SMTypeOK
<1>6. ASSUME dst \in LIVE_STATES \ { "CONTAINER_ALLOCATED" }
      PROVE  src \in LIVE_STATES /\ taskStatus'[t].container = s.container /\ liveHosts' = liveHosts
  <2>1. src \in LIVE_STATES /\ dst \in LIVE_STATES
    BY <1>1, <1>3, <1>6 DEF LegalEdge, LIVE_STATES
  <2>2. taskStatus'[t].container = s.container
    BY <1>3, <1>5, <2>1 DEF Transitioned, ASSOCIATED_STATES
  <2>. QED BY <1>4, <2>1, <2>2 DEF TransitionLiveness
<1>7. ASSUME dst = "CONTAINER_ALLOCATED"
      PROVE  liveHosts' = liveHosts \cup { HostOf[taskStatus'[t].container] }
  <2>1. src = "CONTAINER_REQUESTED"
    BY <1>1, <1>3, <1>7 DEF LegalEdge, LIVE_STATES
  <2>2. taskStatus'[t].container = event.container
    BY <1>3, <1>5, <1>7, <2>1 DEF Transitioned, ASSOCIATED_STATES, LIVE_STATES, FINAL_STATES
  <2>. QED BY <1>4, <1>7, <2>1, <2>2 DEF TransitionLiveness, LIVE_STATES
<1>8. ASSUME dst \notin LIVE_STATES
      PROVE  liveHosts' = IF src \in LIVE_STATES THEN liveHosts \ { HostOf[s.container] } ELSE liveHosts
  BY <1>3, <1>4, <1>8 DEF TransitionLiveness, ForgetLive
<1>. QED BY <1>3, <1>4, <1>6, <1>7, <1>8

\* The thread writes nothing to ZooKeeper.
LEMMA WorkerWritesNothing == ASSUME AMInv, WorkerShape PROVE UNCHANGED zkVars
<1>1. ASSUME NEW t, NEW dst, NEW then, NEW delayed, EdgeStepShape(t, dst, then, delayed)
      PROVE  UNCHANGED zkVars
  BY <1>1, EdgeContainer DEF EdgeStepShape
<1>2. ASSUME NEW then, NEW delayed, QuietStepShape(then, delayed) PROVE UNCHANGED zkVars
  BY <1>2 DEF QuietStepShape, QuietShape, CountShape, SetLostCounts, smVars
<1>3. ASSUME NEW t, FailStepShape(t) PROVE UNCHANGED zkVars
  BY <1>3 DEF FailStepShape, FailToAssociate
<1>4. ASSUME NumbersStepShape PROVE UNCHANGED zkVars
  BY <1>4 DEF NumbersStepShape, UpdateTaskNumbers
<1>. QED BY <1>1, <1>2, <1>3, <1>4 DEF WorkerShape

\* Outside the thread and but for restarts the statuses are only ever pushed.
LEMMA OutsideWrites ==
    ASSUME [Next]_vars
    PROVE  \/ WorkerStep \/ CrashAndRestart
           \/ UNCHANGED smVars
           \/ \E rs : PushStatus(rs)
<1>1. Push \/ StopPush => \E rs : PushStatus(rs)
  BY DEF Push, StopPush
<1>2. (\E d \in timers : Fire(d)) \/ (\E c \in Containers : Deliver(c)) => UNCHANGED smVars
  BY DEF Fire, Deliver
<1>3. PullNumbers \/ AskMigrate \/ PullMigrate \/ Unregister => UNCHANGED smVars
  BY DEF PullNumbers, AskMigrate, PullMigrate, Unregister
<1>4. Grant \/ Release \/ StartOnNode \/ Exit \/ Expire \/ UNCHANGED vars => UNCHANGED smVars
  BY DEF Grant, Release, StartOnNode, Exit, Expire, vars
<1>. QED BY <1>1, <1>2, <1>3, <1>4 DEF Next

\* The containers of live tasks after steps that move none, ...
LEMMA QuietContainers ==
    ASSUME AMInv, NEW then, NEW delayed, QuietStepShape(then, delayed)
    PROVE  /\ \A t \in Locators : /\ taskStatus'[t].state = taskStatus[t].state
                                  /\ taskStatus'[t].container = taskStatus[t].container
           /\ liveHosts' = liveHosts
<1>1. CASE UNCHANGED smVars
  BY <1>1 DEF smVars, memVars, extVars
<1>2. ASSUME NEW count, SetLostCounts(count)
      PROVE  /\ \A t \in Locators : /\ taskStatus'[t].state = taskStatus[t].state
                                    /\ taskStatus'[t].container = taskStatus[t].container
             /\ liveHosts' = liveHosts
  <2>1. \A t \in Locators : taskStatus[t] \in TaskStatuses
    BY DEF AMInv, IInv, SMTypeOK
  <2>. QED BY <1>2, <2>1 DEF SetLostCounts, extVars, TaskStatuses
<1>. QED BY <1>1, <1>2 DEF QuietStepShape, QuietShape, CountShape

\* ... and after tasks were removed and added.
LEMMA NumbersContainers ==
    ASSUME AMInv, NumbersStepShape
    PROVE  \E gone \in SUBSET Locators :
              /\ \A t \in Locators : taskStatus'[t].state \in LIVE_STATES =>
                    t \notin gone /\ taskStatus'[t] = taskStatus[t]
              /\ liveHosts' = liveHosts \ { HostOf[c] : c \in { d \in Containers : liveLocators[d] \in gone } }
<1>1. PICK gone, new : /\ gone = Removed(Work.numbers) /\ new = Added(Work.numbers)
                       /\ taskStatus' = [ u \in Locators |->
                              IF u \in gone THEN NoTask ELSE IF u \in new THEN NewTask ELSE taskStatus[u] ]
                       /\ ForgetLive({ c \in Containers : liveLocators[c] \in gone })
  BY DEF NumbersStepShape, UpdateTaskNumbers
<1>2. gone \in SUBSET Locators
  BY <1>1 DEF Removed
<1>3. \A t \in Locators : taskStatus'[t].state \in LIVE_STATES =>
         t \notin gone /\ taskStatus'[t] = taskStatus[t]
  BY <1>1 DEF NoTask, NewTask, LIVE_STATES
<1>4. liveHosts' = liveHosts \ { HostOf[c] : c \in { d \in Containers : liveLocators[d] \in gone } }
  BY <1>1 DEF ForgetLive
<1>. QED BY <1>2, <1>3, <1>4

-----------------------------------------------------------------------------
(* The same ports for the tasks of a role *)

\* Live tasks of one role have the same ports, in statuses status.
PortsSame(status) ==
    \A t, u \in Locators :
        t[1] = u[1] /\ status[t].state \in LIVE_STATES /\ status[u].state \in LIVE_STATES =>
            PortsOf[status[t].container] = PortsOf[status[u].container]

\* ... in memory and, for the next attempt, on ZooKeeper.
SameInv == SamePort => PortsSame(taskStatus) /\ PortsSame(zkStatus)

\* Statuses whose live tasks were live before, in the same containers.
LEMMA FewerPorts ==
    ASSUME NEW old, NEW new, PortsSame(old),
           \A t \in Locators : new[t].state \in LIVE_STATES =>
               old[t].state \in LIVE_STATES /\ new[t].container = old[t].container
    PROVE  PortsSame(new)
BY DEF PortsSame

\* The thread tests the ports of what it associates.
LEMMA WorkerPorts == ASSUME AMInv, AMInv', SameInv, WorkerStep PROVE SameInv'
<1>. SUFFICES ASSUME SamePort PROVE PortsSame(taskStatus') /\ PortsSame(zkStatus')
  BY DEF SameInv, PortsSame
<1>1. WorkerShape /\ UNCHANGED zkStatus /\ PortsSame(taskStatus)
  BY WorkerShapes, WorkerWritesNothing DEF zkVars, SameInv
<1>2. PortsSame(zkStatus')
  BY <1>1 DEF SameInv
<1>3. ASSUME NEW t, NEW dst, NEW then, NEW delayed, EdgeStepShape(t, dst, then, delayed)
      PROVE  PortsSame(taskStatus')
  <2>1. EdgeShape(t, dst, then, delayed)
    BY <1>3 DEF EdgeStepShape
  <2>2. /\ t \in Locators /\ taskStatus'[t].state = dst
        /\ \A u \in Locators : u # t => taskStatus'[u] = taskStatus[u]
    BY <2>1, EdgeFacts
  <2>3. CASE dst # "CONTAINER_ALLOCATED"
    <3>1. \A u \in Locators : taskStatus'[u].state \in LIVE_STATES =>
             taskStatus[u].state \in LIVE_STATES /\ taskStatus'[u].container = taskStatus[u].container
      BY <2>1, <2>2, <2>3, EdgeContainer
    <3>. QED BY <1>1, <3>1, FewerPorts
  <2>4. CASE dst = "CONTAINER_ALLOCATED"
    <3>1. PICK c \in Containers : /\ TestContainer(c, t[1]) /\ taskStatus'[t].container = c
                                  /\ taskStatus[t].state = "CONTAINER_REQUESTED"
      BY <1>3, <2>4 DEF EdgeStepShape
    <3>2. PICK live : /\ live = { u \in TasksIn(LIVE_STATES) : u[1] = t[1] }
                      /\ live # {} => \E u \in live : PortsOf[c] = PortsOf[taskStatus[u].container]
      BY <3>1 DEF TestContainer, TestContainerPorts
    <3>3. live = { u \in Locators : taskStatus[u].state \in LIVE_STATES /\ u[1] = t[1] }
      BY <3>2 DEF TasksIn, AMInv, IInv, IndexesExact, StateIndexExact, LIVE_STATES, TaskStates
    <3>4. ASSUME NEW u \in Locators, u # t, u[1] = t[1], taskStatus[u].state \in LIVE_STATES
          PROVE  PortsOf[c] = PortsOf[taskStatus[u].container]
      <4>1. PICK v \in live : PortsOf[c] = PortsOf[taskStatus[v].container]
        BY <3>2, <3>3, <3>4
      <4>2. PortsOf[taskStatus[v].container] = PortsOf[taskStatus[u].container]
        BY <1>1, <3>3, <3>4, <4>1 DEF PortsSame
      <4>. QED BY <4>1, <4>2
    <3>. QED BY <1>1, <2>2, <3>1, <3>4 DEF PortsSame
  <2>. QED BY <2>3, <2>4
<1>4. ASSUME NEW then, NEW delayed, QuietStepShape(then, delayed) PROVE PortsSame(taskStatus')
  <2>1. \A u \in Locators : taskStatus'[u].state \in LIVE_STATES =>
           taskStatus[u].state \in LIVE_STATES /\ taskStatus'[u].container = taskStatus[u].container
    BY <1>4, QuietContainers
  <2>. QED BY <1>1, <2>1, FewerPorts
<1>5. ASSUME NEW t, FailStepShape(t) PROVE PortsSame(taskStatus')
  BY <1>1, <1>5 DEF FailStepShape, FailToAssociate, memVars
<1>6. ASSUME NumbersStepShape PROVE PortsSame(taskStatus')
  <2>1. \A u \in Locators : taskStatus'[u].state \in LIVE_STATES => taskStatus'[u] = taskStatus[u]
    BY <1>6, NumbersContainers
  <2>. QED BY <1>1, <2>1, FewerPorts
<1>. QED BY <1>1, <1>2, <1>3, <1>4, <1>5, <1>6 DEF WorkerShape

\* Whole roles are written, so the statuses on ZooKeeper of one role were in
\* memory together.
LEMMA WrittenPorts ==
    ASSUME PortsSame(taskStatus), PortsSame(zkStatus), NEW rs, WriteStatuses(rs)
    PROVE  PortsSame(zkStatus')
<1>1. \A t \in Locators : zkStatus'[t] = IF t[1] \in rs THEN taskStatus[t] ELSE zkStatus[t]
  BY DEF WriteStatuses
<1>. QED BY <1>1 DEF PortsSame

\* The same of the roles a recovery finds, and those it deletes have no live tasks.
LEMMA RecoveredPorts ==
    ASSUME PortsSame(taskStatus), PortsSame(zkStatus), NEW rs, NEW lost, RecoverStatuses(rs, lost)
    PROVE  PortsSame(zkStatus')
<1>1. \A t \in Locators :
         zkStatus'[t] = IF t[1] \in lost THEN NoTask
                        ELSE IF t[1] \in rs THEN taskStatus[t] ELSE zkStatus[t]
  BY DEF RecoverStatuses
<1>2. NoTask.state \notin LIVE_STATES
  BY DEF NoTask, LIVE_STATES
<1>. QED BY <1>1, <1>2 DEF PortsSame

\* Every step keeps the ports the same.
LEMMA NextPorts == AMInv /\ SameInv /\ [Next]_vars => SameInv'
<1>. SUFFICES ASSUME AMInv, SameInv, [Next]_vars PROVE SameInv'
  OBVIOUS
<1>1. AMInv'
  BY NextKeepsAMInv
<1>2. CASE UNCHANGED smVars
  BY <1>2 DEF SameInv, PortsSame, smVars, memVars, zkVars
<1>3. ASSUME SamePort, NEW rs, PushStatus(rs) PROVE PortsSame(taskStatus') /\ PortsSame(zkStatus')
  BY <1>3, WrittenPorts DEF SameInv, PushStatus, memVars
<1>4. ASSUME SamePort, NEW rs \in SUBSET ChangedRoles, NEW lost, Recover(rs, lost)
      PROVE  PortsSame(taskStatus') /\ PortsSame(zkStatus')
  <2>1. PortsSame(zkStatus')
    BY <1>4, RecoveredPorts DEF SameInv, Recover
  <2>2. \A t \in Locators : taskStatus'[t].state \in LIVE_STATES =>
           zkStatus'[t].state \in LIVE_STATES /\ taskStatus'[t].container = zkStatus'[t].container
    <3>1. \A t \in Locators : taskStatus'[t] = Revised(zkStatus'[t]) /\ zkStatus'[t] \in TaskStatuses
      BY <1>1, <1>4 DEF Recover, AMInv, IInv, SMTypeOK
    <3>. QED BY <3>1 DEF Revised, LIVE_STATES, TaskStatuses, TaskStates
  <2>3. PICK old : old = zkStatus'
    OBVIOUS
  <2>. QED BY <2>1, <2>2, FewerPorts
<1>5. SameInv' <=> (SamePort => PortsSame(taskStatus') /\ PortsSame(zkStatus'))
  BY DEF SameInv, PortsSame
<1>. QED BY <1>1, <1>2, <1>3, <1>4, <1>5, WorkerPorts, OutsideWrites DEF CrashAndRestart

\* samePortAllocation keeps its promise: all live tasks of a role have the same
\* ports, whatever the RM grants, and whatever attempt recovers which pushes.
THEOREM AMKeepsPortsSame == Spec => []SamePortsEnsured
<1>1. Init => SameInv
  <2>1. Init => /\ \A t \in Locators : taskStatus[t] = NoTask
                /\ \A t \in Locators : zkStatus[t] = NoTask
    BY DEF Init, SMInit
  <2>2. NoTask.state \notin LIVE_STATES
    BY DEF NoTask, LIVE_STATES
  <2>. QED BY <2>1, <2>2 DEF SameInv, PortsSame
<1>2. AMInv /\ SameInv /\ [Next]_vars => SameInv'
  BY NextPorts
<1>3. AMInv /\ SameInv => SamePortsEnsured
  <2>. SUFFICES ASSUME AMInv, SameInv, SamePort, NEW c \in LiveAssociatedContainers,
                       NEW d \in LiveAssociatedContainers, liveLocators[c][1] = liveLocators[d][1]
                PROVE  PortsOf[c] = PortsOf[d]
    BY DEF SamePortsEnsured
  <2>1. /\ c \in Containers /\ d \in Containers
        /\ liveLocators[c] \in Locators /\ liveLocators[d] \in Locators
    BY DEF LiveAssociatedContainers, IsLiveAssociated, AMInv, IInv, SMTypeOK
  <2>2. /\ taskStatus[liveLocators[c]].state \in LIVE_STATES /\ taskStatus[liveLocators[c]].container = c
        /\ taskStatus[liveLocators[d]].state \in LIVE_STATES /\ taskStatus[liveLocators[d]].container = d
    BY <2>1, LiveTask
  <2>. QED BY <2>1, <2>2 DEF SameInv, PortsSame
<1>. QED BY <1>1, <1>2, <1>3, AMInvariance, PTL DEF Spec

-----------------------------------------------------------------------------
(* Different hosts for different tasks *)

\* Live tasks are on different hosts, all of which are known.
HostsApart ==
    /\ \A t \in Locators : taskStatus[t].state \in LIVE_STATES =>
           HostOf[taskStatus[t].container] \in liveHosts
    /\ \A t, u \in Locators :
           t # u /\ taskStatus[t].state \in LIVE_STATES /\ taskStatus[u].state \in LIVE_STATES =>
               HostOf[taskStatus[t].container] # HostOf[taskStatus[u].container]

\* Until the first restart: another attempt may find a task live in ZooKeeper whose
\* host the attempt before had given to another one since.
ApartInv == AntiAffinity /\ crashes = 0 => HostsApart

\* The thread leaves to others what they pull, what they count and what they are
\* told.
LEMMA WorkerLeaves == WorkerStep => UNCHANGED quietVars
<1>1. DoAllWaiting \/ DoRequest \/ DoAgain \/ DoTimeout \/ DoWithdraw => UNCHANGED quietVars
  BY DEF DoAllWaiting, DoRequest, DoAgain, DoTimeout, DoWithdraw, quietVars
<1>2. DoAllocate => UNCHANGED quietVars
  BY DEF DoAllocate, quietVars
<1>3. DoLaunch \/ DoLaunchAll \/ DoGangTimeout \/ DoStarted \/ DoStartFailed => UNCHANGED quietVars
  BY DEF DoLaunch, DoLaunchAll, DoGangTimeout, DoStarted, DoStartFailed, quietVars
<1>4. DoComplete \/ DoRetryAll \/ DoRetry \/ DoNumbers => UNCHANGED quietVars
  BY DEF DoComplete, DoRetryAll, DoRetry, DoNumbers, quietVars
<1>5. DoResyncFails \/ DoResync \/ DoSeen \/ DoMissing \/ DoQueueResync => UNCHANGED quietVars
  BY DEF DoResyncFails, DoResync, DoSeen, DoMissing, DoQueueResync, quietVars
<1>. QED BY <1>1, <1>2, <1>3, <1>4, <1>5 DEF WorkerStep

\* Only a restart is counted as one.
LEMMA CrashesStay ==
    ASSUME [Next]_vars
    PROVE  \/ crashes' = crashes
           \/ CrashAndRestart /\ crashes' = crashes + 1
<1>1. WorkerStep => crashes' = crashes
  BY WorkerLeaves DEF quietVars, cntVars
<1>2. (\E d \in timers : Fire(d)) \/ (\E c \in Containers : Deliver(c)) => crashes' = crashes
  BY DEF Fire, Deliver, cntVars
<1>3. PullNumbers \/ AskMigrate \/ PullMigrate \/ Push \/ StopPush \/ Unregister => crashes' = crashes
  BY DEF PullNumbers, AskMigrate, PullMigrate, Push, StopPush, Unregister, cntVars
<1>4. Grant \/ Release \/ StartOnNode \/ Exit \/ Expire \/ UNCHANGED vars => crashes' = crashes
  BY DEF Grant, Release, StartOnNode, Exit, Expire, vars, cntVars
<1>5. CrashAndRestart => crashes' = crashes + 1
  BY DEF CrashAndRestart
<1>. QED BY <1>1, <1>2, <1>3, <1>4, <1>5 DEF Next

\* A step that neither makes a task live nor moves one keeps them apart, if it
\* forgets the hosts of tasks that are live no more only.
LEMMA FewerHosts ==
    ASSUME HostsApart, NEW gone \in SUBSET Locators,
           \A t \in Locators : taskStatus'[t].state \in LIVE_STATES =>
               /\ t \notin gone /\ taskStatus[t].state \in LIVE_STATES
               /\ taskStatus'[t].container = taskStatus[t].container,
           \A h : h \in liveHosts /\ h \notin liveHosts' =>
               \E u \in gone : taskStatus[u].state \in LIVE_STATES /\ h = HostOf[taskStatus[u].container]
    PROVE  HostsApart'
<1>1. ASSUME NEW t \in Locators, taskStatus'[t].state \in LIVE_STATES
      PROVE  HostOf[taskStatus'[t].container] \in liveHosts'
  <2>1. /\ taskStatus[t].state \in LIVE_STATES
        /\ taskStatus'[t].container = taskStatus[t].container
        /\ HostOf[taskStatus[t].container] \in liveHosts
    BY <1>1 DEF HostsApart
  <2>2. ASSUME NEW u \in gone, taskStatus[u].state \in LIVE_STATES
        PROVE  HostOf[taskStatus[t].container] # HostOf[taskStatus[u].container]
    BY <1>1, <2>1, <2>2 DEF HostsApart
  <2>. QED BY <2>1, <2>2
<1>2. ASSUME NEW t \in Locators, NEW u \in Locators, t # u,
             taskStatus'[t].state \in LIVE_STATES, taskStatus'[u].state \in LIVE_STATES
      PROVE  HostOf[taskStatus'[t].container] # HostOf[taskStatus'[u].container]
  BY <1>2 DEF HostsApart
<1>. QED BY <1>1, <1>2 DEF HostsApart

\* The thread tests the host of what it associates.
LEMMA WorkerHosts == ASSUME AMInv, HostsApart, AntiAffinity, WorkerStep PROVE HostsApart'
<1>1. WorkerShape
  BY WorkerShapes
<1>2. ASSUME NEW t, NEW dst, NEW then, NEW delayed, EdgeStepShape(t, dst, then, delayed)
      PROVE  HostsApart'
  <2>1. EdgeShape(t, dst, then, delayed)
    BY <1>2 DEF EdgeStepShape
  <2>2. /\ t \in Locators /\ taskStatus'[t].state = dst
        /\ \A u \in Locators : u # t => taskStatus'[u] = taskStatus[u]
    BY <2>1, EdgeFacts
  <2>3. CASE dst \in LIVE_STATES \ { "CONTAINER_ALLOCATED" }
    <3>1. /\ taskStatus[t].state \in LIVE_STATES /\ liveHosts' = liveHosts
          /\ taskStatus'[t].container = taskStatus[t].container
      BY <2>1, <2>3, EdgeContainer
    <3>. QED BY <2>2, <3>1 DEF HostsApart
  <2>4. CASE dst = "CONTAINER_ALLOCATED"
    <3>1. PICK c \in Containers : /\ TestContainer(c, t[1]) /\ taskStatus'[t].container = c
                                  /\ taskStatus[t].state = "CONTAINER_REQUESTED"
      BY <1>2, <2>4 DEF EdgeStepShape
    <3>2. HostOf[c] \notin liveHosts
      BY <3>1 DEF TestContainer, TestContainerNode, IsHostLiveAssociated
    <3>3. liveHosts' = liveHosts \cup { HostOf[c] }
      BY <2>1, <2>4, <3>1, EdgeContainer
    <3>. QED BY <2>2, <3>1, <3>2, <3>3 DEF HostsApart
  <2>5. CASE dst \notin LIVE_STATES
    <3>1. liveHosts' = IF taskStatus[t].state \in LIVE_STATES
                       THEN liveHosts \ { HostOf[taskStatus[t].container] } ELSE liveHosts
      BY <2>1, <2>5, EdgeContainer
    <3>2. \A u \in Locators : taskStatus'[u].state \in LIVE_STATES =>
             /\ u \notin { t } /\ taskStatus[u].state \in LIVE_STATES
             /\ taskStatus'[u].container = taskStatus[u].container
      BY <2>2, <2>5
    <3>3. \A h : h \in liveHosts /\ h \notin liveHosts' =>
             \E u \in { t } : taskStatus[u].state \in LIVE_STATES /\ h = HostOf[taskStatus[u].container]
      BY <3>1
    <3>4. { t } \in SUBSET Locators
      BY <2>2
    <3>. QED BY <3>2, <3>3, <3>4, FewerHosts
  <2>. QED BY <2>3, <2>4, <2>5
<1>3. ASSUME NEW then, NEW delayed, QuietStepShape(then, delayed) PROVE HostsApart'
  <2>1. /\ \A t \in Locators : /\ taskStatus'[t].state = taskStatus[t].state
                               /\ taskStatus'[t].container = taskStatus[t].container
        /\ liveHosts' = liveHosts
    BY <1>3, QuietContainers
  <2>. QED BY <2>1 DEF HostsApart
<1>4. ASSUME NEW t, FailStepShape(t) PROVE HostsApart'
  BY <1>4 DEF FailStepShape, FailToAssociate, memVars, extVars, HostsApart
<1>5. ASSUME NumbersStepShape PROVE HostsApart'
  <2>1. PICK gone \in SUBSET Locators :
           /\ \A t \in Locators : taskStatus'[t].state \in LIVE_STATES =>
                 t \notin gone /\ taskStatus'[t] = taskStatus[t]
           /\ liveHosts' = liveHosts \ { HostOf[c] : c \in { d \in Containers : liveLocators[d] \in gone } }
    BY <1>5, NumbersContainers
  <2>2. ASSUME NEW h, h \in liveHosts, h \notin liveHosts'
        PROVE  \E u \in gone : taskStatus[u].state \in LIVE_STATES /\ h = HostOf[taskStatus[u].container]
    <3>1. PICK c \in Containers : liveLocators[c] \in gone /\ h = HostOf[c]
      BY <2>1, <2>2
    <3>. QED BY <2>1, <3>1, LiveTask
  <2>3. \A t \in Locators : taskStatus'[t].state \in LIVE_STATES =>
           /\ t \notin gone /\ taskStatus[t].state \in LIVE_STATES
           /\ taskStatus'[t].container = taskStatus[t].container
    BY <2>1
  <2>. QED BY <2>2, <2>3, FewerHosts
<1>. QED BY <1>1, <1>2, <1>3, <1>4, <1>5 DEF WorkerShape

\* Every step but a restart keeps the live tasks apart.
LEMMA NextApart == AMInv /\ ApartInv /\ [Next]_vars => ApartInv'
<1>. SUFFICES ASSUME AMInv, ApartInv, [Next]_vars, AntiAffinity, crashes' = 0 PROVE HostsApart'
  BY DEF ApartInv
<1>1. crashes \in Nat
  BY DEF AMInv, AMTypes
<1>2. crashes = 0 /\ ~CrashAndRestart
  BY <1>1, CrashesStay DEF CrashAndRestart
<1>3. HostsApart
  BY <1>2 DEF ApartInv
<1>4. CASE UNCHANGED smVars
  BY <1>3, <1>4 DEF HostsApart, smVars, memVars, extVars
<1>5. ASSUME NEW rs, PushStatus(rs) PROVE HostsApart'
  BY <1>3, <1>5 DEF HostsApart, PushStatus, memVars, extVars
<1>. QED BY <1>2, <1>3, <1>4, <1>5, WorkerHosts, OutsideWrites

\* antiaffinityAllocation keeps its promise as long as the AM is not restarted: the
\* containers of different live tasks are on different hosts.
THEOREM AMKeepsTasksApart == Spec => [](crashes = 0 => AntiAffinityEnsured)
<1>1. Init => ApartInv
  <2>1. Init => \A t \in Locators : taskStatus[t] = NoTask
    BY DEF Init, SMInit
  <2>2. NoTask.state \notin LIVE_STATES
    BY DEF NoTask, LIVE_STATES
  <2>. QED BY <2>1, <2>2 DEF ApartInv, HostsApart
<1>2. AMInv /\ ApartInv /\ [Next]_vars => ApartInv'
  BY NextApart
<1>3. AMInv /\ ApartInv => (crashes = 0 => AntiAffinityEnsured)
  <2>. SUFFICES ASSUME AMInv, ApartInv, crashes = 0, AntiAffinity,
                       NEW c \in LiveAssociatedContainers, NEW d \in LiveAssociatedContainers, c # d
                PROVE  HostOf[c] # HostOf[d]
    BY DEF AntiAffinityEnsured
  <2>1. /\ c \in Containers /\ d \in Containers
        /\ liveLocators[c] \in Locators /\ liveLocators[d] \in Locators
    BY DEF LiveAssociatedContainers, IsLiveAssociated, AMInv, IInv, SMTypeOK
  <2>2. /\ taskStatus[liveLocators[c]].state \in LIVE_STATES /\ taskStatus[liveLocators[c]].container = c
        /\ taskStatus[liveLocators[d]].state \in LIVE_STATES /\ taskStatus[liveLocators[d]].container = d
    BY <2>1, LiveTask
  <2>. QED BY <2>1, <2>2 DEF ApartInv, HostsApart
<1>. QED BY <1>1, <1>2, <1>3, AMInvariance, PTL DEF Spec

-----------------------------------------------------------------------------
(* Completed tasks stay completed *)

\* As long as no user has changed the task numbers, or asked for a migration: a
\* task seen as completed on ZooKeeper is so in memory, and the AM, whatever update
\* it still has queued, only ever adds tasks.
CompletedInv ==
    userOps = 0 =>
        /\ \A t \in Locators : zkStatus[t].state = "TASK_COMPLETED" => taskStatus[t] = zkStatus[t]
        /\ \A i \in Elements(queue) : i.op = "Numbers" => i.numbers = numbers
        /\ \A r \in Roles : taskNumber[r] <= numbers[r] /\ zkNumber[r] <= numbers[r]

\* What is queued when no user does anything: no other task numbers.
LEMMA NumbersQueued ==
    ASSUME AMInv, AMInv', [Next]_vars, userOps' = 0
    PROVE  /\ userOps = 0 /\ numbers' = numbers
           /\ \A i \in Elements(queue') : i.op = "Numbers" =>
                 i \in Elements(queue) \/ i = NumbersTo(numbers)
<1>. DEFINE Few == \A i \in Elements(queue') : i.op = "Numbers" =>
                      i \in Elements(queue) \/ i = NumbersTo(numbers)
<1>1. /\ queue \in Seq(QueueItems) /\ timers \subseteq QueueItems /\ inbox \subseteq QueueItems
      /\ userOps \in Nat
      /\ \A d \in timers \cup inbox : d.op # "Numbers"
  BY DEF AMInv, AMTypes, QueueItems, TimerItems, InboxItems, CompletionItems
<1>2. queue' = queue => Few
  BY DEF Elements
<1>3. ASSUME WorkerStep PROVE UNCHANGED << userOps, numbers >> /\ Few
  <2>1. UNCHANGED << userOps, numbers >>
    BY <1>3, WorkerLeaves DEF quietVars, cntVars
  <2>2. WorkerShape
    BY <1>3, WorkerShapes
  <2>. DEFINE Other == \E then, submitted : Goes(then, submitted) /\ \A i \in submitted : i.op # "Numbers"
  <2>3. Other
    <3>1. \A then, delayed : CountShape(then, delayed) \/ QuietShape(then, delayed) => Goes(then, {})
      BY DEF CountShape, QuietShape
    <3>2. \A i \in { Plain("LaunchAll") } : i.op # "Numbers"
      BY DEF Plain
    <3>3. ASSUME NEW t, NEW dst, NEW then, NEW delayed, EdgeStepShape(t, dst, then, delayed) PROVE Other
      <4>1. PICK submitted : submitted = IF Gang /\ Disappears(FALSE) THEN { Plain("LaunchAll") } ELSE {}
        OBVIOUS
      <4>2. Goes(then, submitted)
        BY <3>3, <4>1 DEF EdgeStepShape, EdgeShape
      <4>3. \A i \in submitted : i.op # "Numbers"
        BY <3>2, <4>1
      <4>. QED BY <4>2, <4>3
    <3>4. ASSUME NEW then, NEW delayed, QuietStepShape(then, delayed) PROVE Other
      BY <3>1, <3>4 DEF QuietStepShape
    <3>5. ASSUME NEW t, FailStepShape(t) PROVE Other
      BY <3>5 DEF FailStepShape
    <3>6. ASSUME NumbersStepShape PROVE Other
      <4>1. Goes({ Plain("AllWaiting") },
                 IF Gang /\ Disappears(~triggered) THEN { Plain("LaunchAll") } ELSE {})
        BY <3>6 DEF NumbersStepShape
      <4>. QED BY <3>2, <4>1
    <3>. QED BY <2>2, <3>3, <3>4, <3>5, <3>6 DEF WorkerShape
  <2>. QED BY <2>1, <2>3 DEF Goes
<1>4. ASSUME NEW d \in timers, Fire(d) PROVE UNCHANGED << userOps, numbers >> /\ Few
  <2>1. queue' = Append(queue, d) /\ UNCHANGED << userOps, numbers >>
    BY <1>4 DEF Fire, cntVars
  <2>2. Elements(queue') = Elements(queue) \cup { d }
    BY <1>1, <2>1, ElementsAppend
  <2>. QED BY <1>1, <2>1, <2>2
<1>5. ASSUME NEW c \in Containers, Deliver(c) PROVE UNCHANGED << userOps, numbers >> /\ Few
  <2>1. PICK n \in inbox : queue' = Append(queue, n) /\ UNCHANGED << userOps, numbers >>
    BY <1>5 DEF Deliver, cntVars
  <2>2. Elements(queue') = Elements(queue) \cup { n }
    BY <1>1, <2>1, ElementsAppend
  <2>. QED BY <1>1, <2>1, <2>2
<1>6. PullNumbers \/ AskMigrate => userOps' # 0
  BY <1>1 DEF PullNumbers, AskMigrate
<1>7. ASSUME PullMigrate PROVE UNCHANGED << userOps, numbers >> /\ Few
  <2>1. PICK new \in [ 1 .. Cardinality(migrate \ notified) -> migrate \ notified ] :
           queue' = queue \o [ i \in DOMAIN new |->
               Completion(new[i], "TRANSIENT_NORMAL", TRUE, "migrate") ]
    BY <1>7 DEF PullMigrate
  <2>2. PICK k \in Nat : k = Cardinality(migrate \ notified)
    BY FS_Difference, FS_CardinalityType DEF AMInv, AMTypes
  <2>3. PICK more, S : /\ more = [ i \in 1 .. k |-> Completion(new[i], "TRANSIENT_NORMAL", TRUE, "migrate") ]
                       /\ S = { Completion(new[i], "TRANSIENT_NORMAL", TRUE, "migrate") : i \in 1 .. k }
    OBVIOUS
  <2>4. more \in Seq(S)
    <3>1. more \in [ 1 .. k -> S ]
      BY <2>3
    <3>. QED BY <3>1, Indexed
  <2>5. queue' = queue \o more
    BY <2>1, <2>2, <2>3
  <2>6. Elements(queue \o more) = Elements(queue) \cup Elements(more)
    BY <1>1, <2>4, ElementsBoth
  <2>7. Elements(queue') = Elements(queue) \cup Elements(more)
    BY <2>5, <2>6, Zenon
  <2>8. \A i \in Elements(more) : i.op # "Numbers"
    BY <2>3 DEF Elements, Completion
  <2>. QED BY <1>7, <2>7, <2>8 DEF PullMigrate, cntVars
<1>8. Push \/ StopPush \/ Unregister => UNCHANGED << userOps, numbers, queue >>
  BY DEF Push, StopPush, Unregister, amVars, cntVars
<1>9. Grant \/ Release \/ StartOnNode \/ Exit \/ Expire \/ UNCHANGED vars => UNCHANGED << userOps, numbers, queue >>
  BY DEF Grant, Release, StartOnNode, Exit, Expire, vars, amVars, cntVars
<1>10. ASSUME CrashAndRestart PROVE UNCHANGED << userOps, numbers >> /\ Few
  <2>1. \A i \in Elements(queue') :
            \/ i \in { Plain("AllWaiting"), Plain("RetryAll"), NumbersTo(numbers) }
            \/ i \in inbox /\ i.op = "Complete"
    BY <1>10, RestartIs
  <2>2. Plain("AllWaiting").op # "Numbers" /\ Plain("RetryAll").op # "Numbers"
    BY DEF Plain
  <2>. QED BY <1>10, <2>1, <2>2 DEF CrashAndRestart
<1>. QED BY <1>2, <1>3, <1>4, <1>5, <1>6, <1>7, <1>8, <1>9, <1>10 DEF Next

\* The thread leaves completed tasks alone, and removes none.
LEMMA WorkerCompleted ==
    ASSUME AMInv, CompletedInv, userOps = 0, WorkerStep
    PROVE  /\ \A t \in Locators : taskStatus[t].state = "TASK_COMPLETED" => taskStatus'[t] = taskStatus[t]
           /\ \A r \in Roles : taskNumber'[r] <= numbers[r]
<1>. DEFINE Kept == \A t \in Locators : taskStatus[t].state = "TASK_COMPLETED" => taskStatus'[t] = taskStatus[t]
            Fewer == \A r \in Roles : taskNumber'[r] <= numbers[r]
<1>1. WorkerShape
  BY WorkerShapes
<1>2. taskNumber' = taskNumber => Fewer
  BY DEF CompletedInv
<1>3. ASSUME NEW t, NEW dst, NEW then, NEW delayed, EdgeStepShape(t, dst, then, delayed) PROVE Kept /\ Fewer
  <2>1. PICK event \in Events : LegalEdge(t, dst, event) /\ TransitionTaskState(t, dst, event)
    BY <1>3 DEF EdgeStepShape, EdgeShape
  <2>2. /\ t \in Locators /\ taskStatus[t].state # dst
        /\ \A u \in Locators : u # t => taskStatus'[u] = taskStatus[u]
    BY <1>3, EdgeFacts DEF EdgeStepShape
  <2>3. taskStatus[t].state # "TASK_COMPLETED"
    BY <2>1 DEF LegalEdge, LIVE_STATES
  <2>4. taskNumber' = taskNumber
    BY <2>1, <2>2 DEF TransitionTaskState
  <2>. QED BY <1>2, <2>2, <2>3, <2>4
<1>4. ASSUME NEW then, NEW delayed, QuietStepShape(then, delayed) PROVE Kept /\ Fewer
  <2>1. QuietShape(then, delayed) => UNCHANGED smVars
    BY DEF QuietShape
  <2>2. CountShape(then, delayed) => /\ UNCHANGED taskNumber
                                     /\ \A t \in Locators : taskStatus[t].state \notin LIVE_STATES =>
                                           taskStatus'[t] = taskStatus[t]
    BY DEF CountShape, SetLostCounts
  <2>. QED BY <1>2, <1>4, <2>1, <2>2 DEF QuietStepShape, smVars, memVars, LIVE_STATES
<1>5. ASSUME NEW t, FailStepShape(t) PROVE Kept /\ Fewer
  BY <1>2, <1>5 DEF FailStepShape, FailToAssociate, memVars
<1>6. ASSUME NumbersStepShape PROVE Kept /\ Fewer
  <2>1. Work \in Elements(queue)
    <3>1. todo = << >> /\ HasWork /\ queue \in Seq(QueueItems)
      BY <1>1, <1>6 DEF NumbersStepShape, WorkerShape, AMInv, AMTypes
    <3>2. Work = Head(queue) /\ queue # << >>
      BY <3>1 DEF HasWork, Work
    <3>. QED BY <3>1, <3>2 DEF Elements
  <2>2. Work.numbers = numbers
    BY <1>6, <2>1 DEF NumbersStepShape, CompletedInv
  <2>3. PICK gone, new : /\ gone = Removed(numbers) /\ new = Added(numbers) /\ taskNumber' = numbers
                         /\ taskStatus' = [ u \in Locators |->
                                IF u \in gone THEN NoTask ELSE IF u \in new THEN NewTask ELSE taskStatus[u] ]
    BY <1>6, <2>2 DEF NumbersStepShape, UpdateTaskNumbers
  <2>4. /\ numbers \in [ Roles -> 0 .. MaxTasks ] /\ taskNumber \in [ Roles -> 0 .. MaxTasks ]
        /\ \A t \in Locators : t[1] \in Roles /\ t[2] \in Nat
    BY ApplicationMasterAssumption, ConstantsAssumption DEF AMInv, AMTypes, IInv, SMTypeOK, Locators
  <2>5. ASSUME NEW t \in gone PROVE FALSE
    <3>1. t \in Locators /\ numbers[t[1]] <= t[2] /\ t[2] < taskNumber[t[1]]
      BY <2>3 DEF Removed
    <3>2. taskNumber[t[1]] <= numbers[t[1]]
      BY <2>4, <3>1 DEF CompletedInv
    <3>. QED BY <2>4, <3>1, <3>2
  <2>6. ASSUME NEW t \in new PROVE taskStatus[t].state = "ABSENT"
    <3>1. t \in Locators /\ taskNumber[t[1]] <= t[2]
      BY <2>3 DEF Added
    <3>2. taskStatus[t].state # "ABSENT" <=> t[2] < taskNumber[t[1]]
      BY <3>1 DEF AMInv, IInv, StatusesWellFormed, WellFormed
    <3>. QED BY <2>4, <3>1, <3>2
  <2>. QED BY <2>3, <2>4, <2>5, <2>6
<1>. QED BY <1>1, <1>3, <1>4, <1>5, <1>6 DEF WorkerShape

\* A write keeps what has completed, and shrinks no role below what it was.
LEMMA WrittenCompleted ==
    ASSUME CompletedInv, userOps = 0, NEW rs, WriteStatuses(rs)
    PROVE  /\ \A t \in Locators : zkStatus[t].state = "TASK_COMPLETED" => zkStatus'[t] = zkStatus[t]
           /\ \A t \in Locators : zkStatus'[t].state = "TASK_COMPLETED" => taskStatus[t] = zkStatus'[t]
           /\ \A r \in Roles : zkNumber'[r] <= numbers[r]
<1>1. \A t \in Locators : zkStatus'[t] = IF t[1] \in rs THEN taskStatus[t] ELSE zkStatus[t]
  BY DEF WriteStatuses
<1>2. \A r \in Roles : zkNumber'[r] = IF r \in rs THEN taskNumber[r] ELSE zkNumber[r]
  BY DEF WriteStatuses
<1>. QED BY <1>1, <1>2 DEF CompletedInv

\* The same of what a recovery finds, but for the roles it deletes.
LEMMA RecoveredCompleted ==
    ASSUME AMInv, CompletedInv, userOps = 0, NEW rs, NEW lost, RecoverStatuses(rs, lost)
    PROVE  /\ \A t \in Locators : zkStatus[t].state = "TASK_COMPLETED" =>
                 zkStatus'[t] = zkStatus[t] \/ (t[1] \in lost /\ zkNumber'[t[1]] = 0)
           /\ \A t \in Locators : zkStatus'[t].state = "TASK_COMPLETED" => taskStatus[t] = zkStatus'[t]
           /\ \A r \in Roles : zkNumber'[r] <= numbers[r]
<1>1. \A t \in Locators :
         zkStatus'[t] = IF t[1] \in lost THEN NoTask
                        ELSE IF t[1] \in rs THEN taskStatus[t] ELSE zkStatus[t]
  BY DEF RecoverStatuses
<1>2. \A r \in Roles :
         zkNumber'[r] = IF r \in lost THEN 0
                        ELSE IF r \in rs THEN taskNumber[r] ELSE zkNumber[r]
  BY DEF RecoverStatuses
<1>3. NoTask.state # "TASK_COMPLETED" /\ \A t \in Locators : t[1] \in Roles
  BY DEF NoTask, Locators
<1>4. \A r \in Roles : 0 <= numbers[r]
  BY ApplicationMasterAssumption, ConstantsAssumption DEF AMInv, AMTypes
<1>5. \A r \in Roles : zkNumber'[r] <= numbers[r]
  BY <1>2, <1>4 DEF CompletedInv
<1>6. \A t \in Locators : zkStatus[t].state = "TASK_COMPLETED" => taskStatus[t] = zkStatus[t]
  BY DEF CompletedInv
<1>7. ASSUME NEW t \in Locators, zkStatus[t].state = "TASK_COMPLETED"
      PROVE  zkStatus'[t] = zkStatus[t] \/ (t[1] \in lost /\ zkNumber'[t[1]] = 0)
  <2>1. t[1] \in lost => zkNumber'[t[1]] = 0
    BY <1>2, <1>3
  <2>2. t[1] \notin lost => zkStatus'[t] = IF t[1] \in rs THEN taskStatus[t] ELSE zkStatus[t]
    BY <1>1
  <2>3. taskStatus[t] = zkStatus[t]
    BY <1>6, <1>7
  <2>. QED BY <2>1, <2>2, <2>3
<1>8. ASSUME NEW t \in Locators, zkStatus'[t].state = "TASK_COMPLETED"
      PROVE  taskStatus[t] = zkStatus'[t]
  <2>1. t[1] \notin lost
    BY <1>1, <1>3, <1>8
  <2>2. zkStatus'[t] = IF t[1] \in rs THEN taskStatus[t] ELSE zkStatus[t]
    BY <1>1, <2>1
  <2>3. CASE t[1] \in rs
    BY <2>2, <2>3
  <2>4. CASE t[1] \notin rs
    <3>1. zkStatus'[t] = zkStatus[t]
      BY <2>2, <2>4
    <3>. QED BY <1>6, <1>8, <3>1
  <2>. QED BY <2>3, <2>4
<1>. QED BY <1>5, <1>7, <1>8

\* Every step keeps completed tasks completed, but for the roles a recovery deletes.
LEMMA NextCompleted ==
    ASSUME AMInv, CompletedInv, [Next]_vars
    PROVE  /\ CompletedInv'
           /\ \A t \in Locators : zkStatus[t].state = "TASK_COMPLETED" /\ userOps = 0 =>
                 zkStatus'[t] = zkStatus[t] \/ Reinitialized(t[1])
<1>. DEFINE Kept == \A t \in Locators : zkStatus[t].state = "TASK_COMPLETED" /\ userOps = 0 =>
                       zkStatus'[t] = zkStatus[t] \/ Reinitialized(t[1])
            Known == \A t \in Locators : zkStatus'[t].state = "TASK_COMPLETED" => taskStatus'[t] = zkStatus'[t]
            Fewer == \A r \in Roles : taskNumber'[r] <= numbers[r] /\ zkNumber'[r] <= numbers[r]
<1>1. AMInv'
  BY NextKeepsAMInv
<1>2. Kept /\ (userOps = 0 => Known /\ Fewer)
  <2>. SUFFICES ASSUME userOps = 0 PROVE Kept /\ Known /\ Fewer
    OBVIOUS
  <2>1. CASE UNCHANGED smVars
    BY <2>1 DEF CompletedInv, smVars, memVars, zkVars
  <2>2. ASSUME NEW rs, PushStatus(rs) PROVE Kept /\ Known /\ Fewer
    <3>1. WriteStatuses(rs) /\ UNCHANGED memVars
      BY <2>2 DEF PushStatus
    <3>. QED BY <3>1, WrittenCompleted DEF memVars, CompletedInv
  <2>3. ASSUME CrashAndRestart PROVE Kept /\ Known /\ Fewer
    <3>1. PICK rs, lost : Recover(rs, lost) /\ lost \in Unreadable
      BY <2>3 DEF CrashAndRestart
    <3>2. /\ RecoverStatuses(rs, lost) /\ taskNumber' = zkNumber'
          /\ \A t \in Locators : taskStatus'[t] = Revised(zkStatus'[t])
      BY <3>1 DEF Recover
    <3>3. \A t \in Locators : zkStatus'[t].state = "TASK_COMPLETED" => taskStatus'[t] = zkStatus'[t]
      BY <3>2 DEF Revised
    <3>4. \A r \in lost : "reinitialize" \in Faults
      BY <3>1 DEF Unreadable
    <3>5. crashes' # crashes
      BY <2>3 DEF CrashAndRestart, AMInv, AMTypes
    <3>6. \A t \in Locators : t[1] \in lost /\ zkNumber'[t[1]] = 0 => Reinitialized(t[1])
      BY <3>4, <3>5 DEF Reinitialized
    <3>. QED BY <3>2, <3>3, <3>6, RecoveredCompleted
  <2>4. ASSUME WorkerStep PROVE Kept /\ Known /\ Fewer
    <3>1. UNCHANGED zkVars
      BY <2>4, WorkerShapes, WorkerWritesNothing
    <3>. QED BY <2>4, <3>1, WorkerCompleted DEF CompletedInv, zkVars
  <2>. QED BY <2>1, <2>2, <2>3, <2>4, OutsideWrites
<1>3. ASSUME userOps' = 0 PROVE CompletedInv'
  <2>1. /\ userOps = 0 /\ numbers' = numbers
        /\ \A i \in Elements(queue') : i.op = "Numbers" => i \in Elements(queue) \/ i = NumbersTo(numbers)
    BY <1>1, <1>3, NumbersQueued
  <2>2. \A i \in Elements(queue') : i.op = "Numbers" => i.numbers = numbers'
    BY <2>1 DEF NumbersTo, CompletedInv
  <2>3. Elements(queue)' = Elements(queue')
    BY DEF Elements
  <2>. QED BY <1>2, <2>1, <2>2, <2>3 DEF CompletedInv
<1>. QED BY <1>2, <1>3 DEF CompletedInv

\* A task that has been seen as TASK_COMPLETED on ZooKeeper stays so through every
\* push and restart, as long as no user changes the task numbers, unless a recovery
\* that cannot read the statuses deletes those of its whole role.
THEOREM AMKeepsCompleted == Spec => CompletionPersists
<1>1. Init => CompletedInv
  <2>. SUFFICES ASSUME Init PROVE CompletedInv
    OBVIOUS
  <2>1. /\ \A t \in Locators : zkStatus[t] = NoTask
        /\ \A r \in Roles : taskNumber[r] = 0 /\ zkNumber[r] = 0
        /\ numbers \in Numbers /\ queue = StartupQueue(numbers)
    BY DEF Init, SMInit
  <2>2. NoTask.state # "TASK_COMPLETED"
    BY DEF NoTask
  <2>3. \A r \in Roles : numbers[r] \in Nat
    BY <2>1, ApplicationMasterAssumption, ConstantsAssumption
  <2>4. \A i \in Elements(queue) : i.op = "Numbers" => i.numbers = numbers
    BY <2>1 DEF Elements, StartupQueue, Plain, NumbersTo
  <2>. QED BY <2>1, <2>2, <2>3, <2>4 DEF CompletedInv
<1>2. AMInv /\ CompletedInv /\ [Next]_vars => CompletedInv'
  BY NextCompleted
<1>3. AMInv /\ CompletedInv /\ [Next]_vars =>
        [ \A t \in Locators : zkStatus[t].state = "TASK_COMPLETED" /\ userOps = 0 =>
              zkStatus'[t] = zkStatus[t] \/ Reinitialized(t[1]) ]_vars
  BY NextCompleted
<1>. QED BY <1>1, <1>2, <1>3, AMInvariance, PTL DEF Spec, CompletionPersists

-----------------------------------------------------------------------------
(* Who has a container once it was granted *)

\* A container of which the AM has been told, so that no grant will ever give it to
\* a task again.
Taken(c) == container[c] # "free" /\ ~GrantPending(c)

\* The running resync is still to look at container c.
ToSee(c)  == \E i \in Elements(todo) : i.op = "Seen" /\ c \in i.all
Rearms    == \E i \in Elements(todo) : i.op = "QueueResync"
ResyncsAt(j) == queue[j].op = "Resync"

\* A grant that a resync queued at j does not find handled before it.
GrantBehind(c, j) ==
    \/ \E n \in inbox : GrantIn(n, c)
    \/ \E k \in 1 .. Len(queue) : j < k /\ GrantIn(queue[k], c)

\* There is one resync at a time: armed, queued or running.
OneResync ==
    /\ \A i \in Elements(todo) : i.op = "Seen" => Rearms
    /\ Rearms => Plain("Resync") \notin timers /\ \A j \in 1 .. Len(queue) : ~ResyncsAt(j)
    /\ Plain("Resync") \in timers => \A j \in 1 .. Len(queue) : ~ResyncsAt(j)
    /\ \A j, k \in 1 .. Len(queue) : ResyncsAt(j) /\ ResyncsAt(k) => j = k

\* No resync counts a container as exceeding too often before its grant is handled.
CountsInv ==
    /\ OneResync
    /\ \A c \in Containers :
          /\ container[c] = "free" => exceed[c] = 0 /\ ~ToSee(c)
          /\ ToSee(c) /\ GrantPending(c) => exceed[c] < MaxExceed
          /\ \A j \in 1 .. Len(queue) :
                ResyncsAt(j) /\ GrantBehind(c, j) => exceed[c] < MaxExceed

\* What is to be released, or is completed and released, was granted before: it is
\* not granted once more to a task that would find it taken away.
TakenInv ==
    /\ phase = "running" => \A c \in releasing : Taken(c) /\ liveLocators[c] = None
    /\ \A i \in Elements(todo) \cup Elements(queue) :
          i.op = "Complete" /\ i.release = TRUE => Taken(i.container)
    /\ \A n \in inbox : n.op = "Complete" => n.release = FALSE
    /\ \A c \in migrate : Taken(c)

-----------------------------------------------------------------------------
(* What the thread does to its queue and its parts *)

\* The thread takes the first of the queue, or nothing, and may add a LaunchAll.
LEMMA QueueSteps ==
    ASSUME AMInv, WorkerStep
    PROVE  /\ HasWork
           /\ \E s \in { 0, 1 } :
                 /\ s = 1 <=> todo = << >>
                 /\ \A i \in 1 .. Len(queue') :
                       \/ queue'[i] = Plain("LaunchAll")
                       \/ i + s \in 1 .. Len(queue) /\ queue'[i] = queue[i + s]
<1>. DEFINE Goal == HasWork /\ \E then : \E submitted \in { << >>, << Plain("LaunchAll") >> } :
                        Proceed(then, submitted)
<1>1. \A then, recover, delayed : ProceedWithCallbacks(then, recover, delayed) =>
          \E submitted \in { << >>, << Plain("LaunchAll") >> } : Proceed(then, submitted)
  BY DEF ProceedWithCallbacks
<1>2. \A t, dst, event, then, delayed : Transit(t, dst, event, then, delayed) =>
          \E submitted \in { << >>, << Plain("LaunchAll") >> } : Proceed(then, submitted)
  BY <1>1 DEF Transit
<1>3. Ignore => \E then : \E submitted \in { << >>, << Plain("LaunchAll") >> } : Proceed(then, submitted)
  BY DEF Ignore
<1>4. DoAllWaiting => Goal
  BY DEF DoAllWaiting, Doing
<1>5. DoRequest => Goal
  BY <1>2, Zenon DEF DoRequest, Doing
<1>6. DoAgain => Goal
  BY DEF DoAgain, Doing
<1>7. DoTimeout => Goal
  BY <1>2, <1>3, Zenon DEF DoTimeout, Doing
<1>8. DoAllocate => Goal
  BY <1>2, <1>3, Zenon DEF DoAllocate, Doing
<1>9. DoWithdraw => Goal
  BY <1>2, Zenon DEF DoWithdraw, Doing
<1>10. DoLaunch => Goal
  BY <1>2, Zenon DEF DoLaunch, Doing
<1>11. DoLaunchAll => Goal
  BY DEF DoLaunchAll, Doing
<1>12. DoGangTimeout => Goal
  BY <1>3, Zenon DEF DoGangTimeout, Doing
<1>13. DoStarted => Goal
  BY <1>2, <1>3, Zenon DEF DoStarted, Doing
<1>14. DoStartFailed => Goal
  BY DEF DoStartFailed, Doing
<1>15. DoComplete => Goal
  BY <1>2, <1>3, Zenon DEF DoComplete, Doing
<1>16. DoRetryAll => Goal
  BY DEF DoRetryAll, Doing
<1>17. DoRetry => Goal
  BY <1>2, Zenon DEF DoRetry, Doing
<1>18. DoNumbers => Goal
  BY <1>1, Zenon DEF DoNumbers, Doing
<1>19. DoResyncFails => Goal
  BY DEF DoResyncFails, Doing
<1>20. DoResync => Goal
  BY DEF DoResync, Doing
<1>21. DoSeen => Goal
  BY Zenon DEF DoSeen, Doing
<1>22. DoMissing => Goal
  BY Zenon DEF DoMissing, Doing
<1>23. DoQueueResync => Goal
  BY DEF DoQueueResync, Doing
<1>24. Goal
  BY <1>4, <1>5, <1>6, <1>7, <1>8, <1>9, <1>10, <1>11, <1>12, <1>13, <1>14, <1>15, <1>16,
     <1>17, <1>18, <1>19, <1>20, <1>21, <1>22, <1>23, Zenon DEF WorkerStep
<1>25. PICK then : \E submitted \in { << >>, << Plain("LaunchAll") >> } : Proceed(then, submitted)
  BY <1>24
<1>26. PICK submitted \in { << >>, << Plain("LaunchAll") >> } : Proceed(then, submitted)
  BY <1>25
<1>. QED BY <1>24, <1>26, QueueAfter DEF AMInv

\* The parts of a resync, and those that complete a container.
SpecialPart(j) == j.op \in { "Seen", "QueueResync", "Complete" }

\* What remains to do after a step: the other parts, no part of a resync, and
\* completions of live containers only.
OtherGoes ==
    /\ \A j \in Elements(todo') :
          \/ j \in Elements(Rest)
          \/ ~SpecialPart(j)
          \/ /\ j.op = "Complete" /\ j.container \in Containers
             /\ liveLocators[j.container] # None
    /\ Elements(Rest) \subseteq Elements(todo')
    /\ \A d \in timers' : d.op = "Resync" => d \in timers

PlainParts(then) == \A j \in then : ~SpecialPart(j)
NoResync(delayed) == \A d \in delayed : d.op # "Resync"

\* How the four kinds of steps of the thread get there.
LEMMA OtherShapes ==
    /\ \A t, dst, then, delayed :
           EdgeShape(t, dst, then, delayed) /\ PlainParts(then) /\ NoResync(delayed) => OtherGoes
    /\ \A then, delayed :
           (QuietShape(then, delayed) \/ CountShape(then, delayed))
               /\ PlainParts(then) /\ NoResync(delayed) => OtherGoes
    /\ \A then : Goes(then, {}) /\ timers' = Armed(timers) /\ PlainParts(then) => OtherGoes
<1>1. \A then, submitted : Goes(then, submitted) => Elements(todo') = then \cup Elements(Rest)
  BY DEF Goes
<1>2. \A S : Armed(S) \subseteq S
  BY DEF Armed
<1>3. \A then : Elements(todo') = then \cup Elements(Rest) /\ PlainParts(then)
         /\ (\A d \in timers' : d.op = "Resync" => d \in timers) => OtherGoes
  BY DEF OtherGoes, PlainParts
<1>4. ASSUME NEW t, NEW dst, NEW then, NEW delayed,
             EdgeShape(t, dst, then, delayed), PlainParts(then), NoResync(delayed)
      PROVE  OtherGoes
  <2>1. Elements(todo') = then \cup Elements(Rest)
    BY <1>1, <1>4 DEF EdgeShape
  <2>2. PICK late : late \in { {}, { GangTimeout(round) } } /\ timers' = Armed(timers \cup delayed \cup late)
    BY <1>4 DEF EdgeShape
  <2>3. \A d \in late : d.op # "Resync"
    BY <2>2 DEF GangTimeout
  <2>4. \A d \in timers' : d \in timers \cup delayed \cup late
    BY <1>2, <2>2
  <2>5. \A d \in timers' : d.op = "Resync" => d \in timers
    BY <1>4, <2>3, <2>4 DEF NoResync
  <2>. QED BY <1>3, <1>4, <2>1, <2>5
<1>5. ASSUME NEW then, NEW delayed, QuietShape(then, delayed) \/ CountShape(then, delayed),
             PlainParts(then), NoResync(delayed)
      PROVE  OtherGoes
  <2>1. Elements(todo') = then \cup Elements(Rest)
    BY <1>1, <1>5 DEF QuietShape, CountShape
  <2>2. \A d \in timers' : d \in timers \cup delayed
    BY <1>2, <1>5 DEF QuietShape, CountShape
  <2>3. \A d \in timers' : d.op = "Resync" => d \in timers
    BY <1>5, <2>2 DEF NoResync
  <2>. QED BY <1>3, <1>5, <2>1, <2>3
<1>6. ASSUME NEW then, Goes(then, {}), timers' = Armed(timers), PlainParts(then) PROVE OtherGoes
  <2>1. Elements(todo') = then \cup Elements(Rest)
    BY <1>1, <1>6
  <2>2. \A d \in timers' : d \in timers
    BY <1>2, <1>6
  <2>. QED BY <1>3, <1>6, <2>1, <2>2
<1>. QED BY <1>4, <1>5, <1>6

\* Which parts and timers those are.
LEMMA PlainPartsAre ==
    /\ PlainParts({}) /\ NoResync({})
    /\ \A s : /\ PlainParts(Each("Request", s)) /\ PlainParts(Each("Retry", s))
              /\ PlainParts(Each("Launch", s)) /\ PlainParts(Each("Withdraw", s))
              /\ PlainParts(Each("Missing", s))
    /\ \A a, b : PlainParts(a) /\ PlainParts(b) => PlainParts(a \cup b)
    /\ PlainParts({ Plain("AllWaiting") })
    /\ \A p, t : NoResync({ TimeoutOf(p, t) })
    /\ \A t : NoResync({ AgainFor(t) })
<1>1. PlainParts({}) /\ NoResync({})
  BY DEF PlainParts, NoResync
<1>2. ASSUME NEW s
      PROVE  /\ PlainParts(Each("Request", s)) /\ PlainParts(Each("Retry", s))
             /\ PlainParts(Each("Launch", s)) /\ PlainParts(Each("Withdraw", s))
             /\ PlainParts(Each("Missing", s))
  BY DEF PlainParts, Each, SpecialPart
<1>3. ASSUME NEW a, NEW b, PlainParts(a), PlainParts(b) PROVE PlainParts(a \cup b)
  BY <1>3 DEF PlainParts
<1>4. PlainParts({ Plain("AllWaiting") })
  BY DEF PlainParts, Plain, SpecialPart
<1>5. ASSUME NEW p, NEW t PROVE NoResync({ TimeoutOf(p, t) })
  BY DEF NoResync, TimeoutOf
<1>6. ASSUME NEW t PROVE NoResync({ AgainFor(t) })
  BY DEF NoResync, AgainFor
<1>. QED BY <1>1, <1>2, <1>3, <1>4, <1>5, <1>6, Zenon

\* So does every step but those of a resync.
LEMMA OtherWork ==
    ASSUME AMInv, WorkerStep, Work.op \notin { "Resync", "Seen", "QueueResync" }
    PROVE  OtherGoes
<1>1. CASE DoAllWaiting
  BY <1>1, AllWaitingIs, PlainPartsAre, OtherShapes, Zenon
<1>2. CASE DoRequest
  <2>1. PICK t \in Work.all :
           \/ EdgeShape(t, "CONTAINER_REQUESTED", Each("Request", Work.all \ { t }),
                        { TimeoutOf(nextPriority, t) })
           \/ QuietShape(Each("Request", Work.all \ { t }), { AgainFor(t) })
    BY <1>2, RequestIs
  <2>. QED BY <2>1, PlainPartsAre, OtherShapes, Zenon
<1>3. CASE DoAgain
  <2>1. QuietShape(Each("Request", { Work.task }), {}) \/ QuietShape({}, {})
    BY <1>3, AgainIs
  <2>. QED BY <2>1, PlainPartsAre, OtherShapes, Zenon
<1>4. CASE DoTimeout
  <2>1. QuietShape({}, {}) \/ EdgeShape(Work.task, "TASK_WAITING", Each("Request", { Work.task }), {})
    BY <1>4, TimeoutIs
  <2>. QED BY <2>1, PlainPartsAre, OtherShapes, Zenon
<1>5. CASE DoWithdraw
  <2>1. PICK t : EdgeShape(t, "TASK_WAITING", Each("Request", { t }), {})
    BY <1>5, WithdrawIs
  <2>. QED BY <2>1, PlainPartsAre, OtherShapes, Zenon
<1>6. CASE DoLaunch
  <2>1. PICK t : EdgeShape(t, "CONTAINER_LAUNCHED", Each("Launch", Work.all \ { t }), {})
    BY <1>6, LaunchIs
  <2>. QED BY <2>1, PlainPartsAre, OtherShapes, Zenon
<1>7. CASE DoLaunchAll
  <2>1. \/ QuietShape({}, {})
        \/ QuietShape(Each("Launch", taskStateLocators["CONTAINER_ALLOCATED"]), {})
    BY <1>7, LaunchAllIs
  <2>. QED BY <2>1, PlainPartsAre, OtherShapes, Zenon
<1>8. CASE DoGangTimeout
  BY <1>8, GangTimeoutIs, PlainPartsAre, OtherShapes, Zenon
<1>9. CASE DoStarted
  <2>1. QuietShape({}, {}) \/ \E t : EdgeShape(t, "CONTAINER_RUNNING", {}, {})
    BY <1>9, StartedIs
  <2>. QED BY <2>1, PlainPartsAre, OtherShapes, Zenon
<1>10. CASE DoStartFailed
  <2>1. PICK c \in Containers : c = Work.container
    BY <1>10, StartFailedIs
  <2>2. CASE liveLocators[c] = None
    <3>1. QuietShape({}, {})
      BY <1>10, <2>1, <2>2, StartFailedIs
    <3>. QED BY <3>1, PlainPartsAre, OtherShapes, Zenon
  <2>3. CASE liveLocators[c] # None
    <3>1. QuietShape({ Completion(c, "TRANSIENT_NORMAL", TRUE, "start") }, {})
      BY <1>10, <2>1, <2>3, StartFailedIs
    <3>2. /\ Elements(todo') = { Completion(c, "TRANSIENT_NORMAL", TRUE, "start") } \cup Elements(Rest)
          /\ \A d \in timers' : d \in timers
      BY <3>1 DEF QuietShape, Goes, Armed
    <3>3. Completion(c, "TRANSIENT_NORMAL", TRUE, "start").op = "Complete"
          /\ Completion(c, "TRANSIENT_NORMAL", TRUE, "start").container = c
      BY DEF Completion
    <3>. QED BY <2>3, <3>2, <3>3 DEF OtherGoes
  <2>. QED BY <2>2, <2>3
<1>11. CASE DoComplete
  <2>1. QuietShape({}, {}) \/ \E t : EdgeShape(t, "CONTAINER_COMPLETED", Each("Retry", { t }), {})
    BY <1>11, CompleteIs
  <2>. QED BY <2>1, PlainPartsAre, OtherShapes, Zenon
<1>12. CASE DoRetryAll
  BY <1>12, RetryAllIs, PlainPartsAre, OtherShapes, Zenon
<1>13. CASE DoRetry
  <2>1. PICK t : \/ EdgeShape(t, "TASK_WAITING", Each("Request", { t }) \cup Each("Retry", Work.all \ { t }), {})
                 \/ EdgeShape(t, "TASK_COMPLETED", Each("Retry", Work.all \ { t }), {})
    BY <1>13, RetryIs
  <2>. QED BY <2>1, PlainPartsAre, OtherShapes, Zenon
<1>14. CASE DoNumbers
  <2>1. PICK submitted, late :
           /\ Goes({ Plain("AllWaiting") }, submitted)
           /\ late \in { {}, { GangTimeout(round) } } /\ timers' = Armed(timers \cup {} \cup late)
    BY <1>14, NumbersIs
  <2>2. Elements(todo') = { Plain("AllWaiting") } \cup Elements(Rest)
    BY <2>1 DEF Goes
  <2>3. \A d \in timers' : d.op = "Resync" => d \in timers
    BY <2>1 DEF Armed, GangTimeout
  <2>. QED BY <2>2, <2>3, PlainPartsAre DEF OtherGoes, PlainParts
<1>15. CASE DoAllocate
  <2>1. PICK t : \/ QuietShape({}, {})
                 \/ EdgeShape(t, "TASK_WAITING", Each("Request", { t }), {})
                 \/ EdgeShape(t, "CONTAINER_ALLOCATED", IF Gang THEN {} ELSE Each("Launch", { t }), {})
                 \/ Goes(Each("Withdraw", { t }), {}) /\ timers' = Armed(timers)
    BY <1>15, AllocateIs
  <2>2. PlainParts(IF Gang THEN {} ELSE Each("Launch", { t }))
    <3>1. CASE Gang
      BY <3>1, PlainPartsAre
    <3>2. CASE ~Gang
      BY <3>2, PlainPartsAre
    <3>. QED BY <3>1, <3>2
  <2>. QED BY <2>1, <2>2, PlainPartsAre, OtherShapes, Zenon
<1>16. CASE DoMissing
  <2>1. PICK c \in Work.all :
           \/ CountShape({ Completion(c, "TRANSIENT_NORMAL", TRUE, "lost") }
                             \cup Each("Missing", Work.all \ { c }), {})
           \/ CountShape(Each("Missing", Work.all \ { c }), {})
    BY <1>16, MissingIs
  <2>2. HasWork /\ Work.op = "Missing" /\ Work.all \subseteq Containers
    BY <1>16, MissingIs
  <2>3. liveLocators[c] # None
    BY <2>2, WorkFacts DEF AMInv, Valid
  <2>4. CASE CountShape({ Completion(c, "TRANSIENT_NORMAL", TRUE, "lost") }
                            \cup Each("Missing", Work.all \ { c }), {})
    <3>1. /\ Elements(todo') = { Completion(c, "TRANSIENT_NORMAL", TRUE, "lost") }
                                   \cup Each("Missing", Work.all \ { c }) \cup Elements(Rest)
          /\ timers' = timers
      BY <2>4 DEF CountShape, Goes
    <3>2. Completion(c, "TRANSIENT_NORMAL", TRUE, "lost").op = "Complete"
          /\ Completion(c, "TRANSIENT_NORMAL", TRUE, "lost").container = c
      BY DEF Completion
    <3>3. PlainParts(Each("Missing", Work.all \ { c }))
      BY PlainPartsAre
    <3>. QED BY <2>2, <2>3, <3>1, <3>2, <3>3 DEF OtherGoes, PlainParts
  <2>5. CASE CountShape(Each("Missing", Work.all \ { c }), {})
    BY <2>5, PlainPartsAre, OtherShapes, Zenon
  <2>. QED BY <2>1, <2>4, <2>5
<1>17. ~DoResyncFails /\ ~DoResync /\ ~DoSeen /\ ~DoQueueResync
  BY DEF DoResyncFails, DoResync, DoSeen, DoQueueResync, Doing
<1>. QED BY <1>1, <1>2, <1>3, <1>4, <1>5, <1>6, <1>7, <1>8, <1>9, <1>10, <1>11, <1>12, <1>13,
         <1>14, <1>15, <1>16, <1>17 DEF WorkerStep

\* What the thread sends, counts and is done with.
LEMMA WorkerSends ==
    ASSUME AMInv, WorkerStep
    PROVE  /\ migrate' \subseteq migrate
           /\ \/ releasing' = releasing
              \/ DoAllocate /\ releasing' = releasing \cup { Work.container }
              \/ DoComplete /\ Work.release = TRUE /\ releasing' = releasing \cup { Work.container }
              \/ DoNumbers /\ releasing' = releasing \cup ContainersOf(Removed(Work.numbers))
           /\ Work.op # "Seen" => \A c \in Containers : exceed'[c] \in { exceed[c], 0 }
<1>1. CASE DoAllWaiting \/ DoRequest \/ DoAgain \/ DoTimeout \/ DoWithdraw \/ DoLaunch \/ DoLaunchAll
  BY <1>1 DEF DoAllWaiting, DoRequest, DoAgain, DoTimeout, DoWithdraw, DoLaunch, DoLaunchAll
<1>2. CASE DoGangTimeout \/ DoStarted \/ DoStartFailed \/ DoRetryAll \/ DoRetry
  BY <1>2 DEF DoGangTimeout, DoStarted, DoStartFailed, DoRetryAll, DoRetry
<1>3. CASE DoResyncFails \/ DoResync \/ DoMissing \/ DoQueueResync
  BY <1>3 DEF DoResyncFails, DoResync, DoMissing, DoQueueResync
<1>4. CASE DoSeen
  BY <1>4 DEF DoSeen, Doing
<1>5. CASE DoNumbers
  BY <1>5, NumbersIs
<1>6. CASE DoComplete
  <2>1. /\ Work.release \in BOOLEAN /\ UNCHANGED exceed
        /\ releasing' = IF Work.release THEN releasing \cup { Work.container } ELSE releasing
        /\ migrate' = IF Work.why = "migrate" THEN migrate \ { Work.container } ELSE migrate
    BY <1>6, CompleteIs, WorkFacts DEF AMInv, CompletionItems
  <2>. QED BY <1>6, <2>1
<1>7. CASE DoAllocate
  <2>1. /\ UNCHANGED migrate
        /\ exceed' = exceed \/ exceed' = [ exceed EXCEPT ![Work.container] = 0 ]
        /\ releasing' = releasing \/ releasing' = releasing \cup { Work.container }
    BY <1>7, AllocateIs
  <2>. QED BY <1>7, <2>1 DEF AMInv, AMTypes
<1>. QED BY <1>1, <1>2, <1>3, <1>4, <1>5, <1>6, <1>7 DEF WorkerStep

-----------------------------------------------------------------------------
(* What the other steps do to the queue, the messages and the containers *)

\* Nothing is told of a grant, no resync is queued, no container is granted.
OutsideQuiet ==
    /\ UNCHANGED << todo, exceed, timers, liveLocators >>
    /\ \A c \in Containers : container'[c] = "free" <=> container[c] = "free"
    /\ \A n \in inbox' : \/ n \in inbox
                         \/ n.op # "Allocate" /\ (n.op = "Complete" => n.release = FALSE)
    /\ \A i \in 1 .. Len(queue') :
          \/ i \in 1 .. Len(queue) /\ queue'[i] = queue[i]
          \/ /\ queue'[i].op \notin { "Resync", "Allocate" }
             /\ queue'[i].op = "Complete" => queue'[i].container \in migrate
    /\ releasing' \subseteq releasing \/ phase' # "running"
    /\ phase' = "running" => phase = "running"
    /\ \A c \in migrate' : c \in migrate \/ \E t \in Locators : zkStatus[t].container = c

\* The places of a sequence that grows by one.
LEMMA AppendedAt ==
    ASSUME NEW S, NEW w \in Seq(S), NEW e \in S, NEW q, q = Append(w, e)
    PROVE  /\ Len(w) \in Nat
           /\ \A i \in 1 .. Len(q) :
                 \/ i \in 1 .. Len(w) /\ q[i] = w[i]
                 \/ i = Len(w) + 1 /\ q[i] = e
OBVIOUS

\* Which steps are of that kind.
LEMMA OutsideKinds ==
    ASSUME AMInv, [Next]_vars
    PROVE  \/ WorkerStep \/ CrashAndRestart \/ OutsideQuiet
           \/ \E d \in timers : Fire(d)
           \/ \E c \in Containers : Deliver(c)
           \/ Grant
<1>1. queue \in Seq(QueueItems) /\ container \in [ Containers -> { "free", "granted", "running", "done" } ]
  BY DEF AMInv, AMTypes
<1>2. ASSUME PullNumbers PROVE OutsideQuiet
  <2>1. PICK n \in Numbers : queue' = Append(queue, NumbersTo(n))
    BY <1>2 DEF PullNumbers
  <2>2. UNCHANGED << todo, exceed, timers, liveLocators, container, inbox, releasing, phase, migrate >>
    BY <1>2 DEF PullNumbers, smVars, extVars, envVars
  <2>3. PICK e : e = NumbersTo(n) /\ e \in QueueItems /\ e.op = "Numbers"
    <3>1. [ op |-> "Numbers", numbers |-> n ] \in QueueItems
      BY DEF QueueItems
    <3>. QED BY <3>1 DEF NumbersTo
  <2>4. \A i \in 1 .. Len(queue') : (i \in 1 .. Len(queue) /\ queue'[i] = queue[i]) \/ queue'[i] = e
    BY <1>1, <2>1, <2>3, AppendedAt
  <2>. QED BY <2>2, <2>3, <2>4 DEF OutsideQuiet
<1>3. ASSUME AskMigrate PROVE OutsideQuiet
  <2>1. UNCHANGED << todo, exceed, timers, liveLocators, container, inbox, releasing, phase, queue >>
    BY <1>3 DEF AskMigrate, smVars, extVars, envVars
  <2>2. PICK t \in Locators : migrate' = migrate \cup { zkStatus[t].container }
    BY <1>3 DEF AskMigrate
  <2>. QED BY <2>1, <2>2 DEF OutsideQuiet
<1>4. ASSUME PullMigrate PROVE OutsideQuiet
  <2>1. UNCHANGED << todo, exceed, timers, liveLocators, container, inbox, releasing, phase, migrate >>
    BY <1>4 DEF PullMigrate, smVars, extVars, envVars
  <2>2. PICK new \in [ 1 .. Cardinality(migrate \ notified) -> migrate \ notified ] :
           queue' = queue \o [ i \in DOMAIN new |->
               Completion(new[i], "TRANSIENT_NORMAL", TRUE, "migrate") ]
    BY <1>4 DEF PullMigrate
  <2>3. PICK k \in Nat : k = Cardinality(migrate \ notified)
    BY FS_Difference, FS_CardinalityType DEF AMInv, AMTypes
  <2>4. PICK more : more = [ i \in 1 .. k |-> Completion(new[i], "TRANSIENT_NORMAL", TRUE, "migrate") ]
    OBVIOUS
  <2>5. \A i \in 1 .. k : new[i] \in migrate /\ new[i] \in Containers
    BY <2>2, <2>3 DEF AMInv, AMTypes
  <2>6. \A i \in 1 .. k : /\ more[i] \in QueueItems /\ more[i].op = "Complete"
                          /\ more[i].container \in migrate
    BY <2>4, <2>5 DEF Completion, CompletionItems, InboxItems, QueueItems, ExitTypes
  <2>7. more \in Seq(QueueItems) /\ Len(more) = k
    <3>1. more \in [ 1 .. k -> QueueItems ]
      BY <2>4, <2>6
    <3>. QED BY <3>1, Indexed
  <2>8. queue' = queue \o more
    BY <2>2, <2>3, <2>4
  <2>9. PICK q \in Seq(QueueItems) : q = queue \o more
    BY <1>1, <2>7, Joined
  <2>10. \A i \in 1 .. Len(q) :
            \/ i \in 1 .. Len(queue) /\ q[i] = queue[i]
            \/ i - Len(queue) \in 1 .. Len(more) /\ q[i] = more[i - Len(queue)]
    BY <1>1, <2>7, <2>9, Joined
  <2>11. \A i \in 1 .. Len(queue') :
            \/ i \in 1 .. Len(queue) /\ queue'[i] = queue[i]
            \/ queue'[i].op = "Complete" /\ queue'[i].container \in migrate
    BY <2>6, <2>7, <2>8, <2>9, <2>10
  <2>. QED BY <2>1, <2>11 DEF OutsideQuiet
<1>5. ASSUME Push \/ StopPush PROVE OutsideQuiet
  <2>1. \E rs : PushStatus(rs)
    BY <1>5 DEF Push, StopPush
  <2>2. UNCHANGED << todo, exceed, timers, container, inbox, queue, migrate >>
    BY <1>5 DEF Push, StopPush, amVars, envVars
  <2>3. (releasing' = releasing /\ phase' = phase) \/ phase' # "running"
    BY <1>5 DEF Push, StopPush, amVars, envVars
  <2>4. liveLocators' = liveLocators
    BY <2>1 DEF PushStatus, extVars
  <2>. QED BY <2>2, <2>3, <2>4 DEF OutsideQuiet
<1>6. ASSUME Unregister PROVE OutsideQuiet
  <2>1. UNCHANGED << todo, exceed, timers, liveLocators, queue, migrate >> /\ phase' # "running" /\ inbox' = {}
    BY <1>6 DEF Unregister, smVars, extVars
  <2>2. \A c \in Containers : container'[c] = "free" <=> container[c] = "free"
    BY <1>6 DEF Unregister
  <2>. QED BY <2>1, <2>2 DEF OutsideQuiet
<1>7. ASSUME NEW c \in Containers, NEW exit, container[c] # "free", Ends(c, exit),
             UNCHANGED << smVars, amVars >>, releasing' \subseteq releasing
      PROVE  OutsideQuiet
  <2>1. container' = [ container EXCEPT ![c] = "done" ]
        /\ inbox' = inbox \cup { Completion(c, exit, FALSE, "completed") }
    BY <1>7 DEF Ends, SetContainer, Tell
  <2>2. Completion(c, exit, FALSE, "completed").op = "Complete"
        /\ Completion(c, exit, FALSE, "completed").release = FALSE
    BY DEF Completion
  <2>. QED BY <1>1, <1>7, <2>1, <2>2 DEF OutsideQuiet, smVars, extVars, amVars
<1>8. ASSUME Release PROVE OutsideQuiet
  <2>1. PICK c \in releasing : /\ releasing' = releasing \ { c }
                               /\ IF c \in AliveContainers THEN Ends(c, "TRANSIENT_NORMAL")
                                  ELSE UNCHANGED << container, inbox >>
    BY <1>8 DEF Release
  <2>2. UNCHANGED << smVars, amVars >>
    BY <1>8 DEF Release
  <2>3. CASE c \in AliveContainers
    BY <1>7, <2>1, <2>2, <2>3 DEF AliveContainers
  <2>4. CASE c \notin AliveContainers
    BY <2>1, <2>2, <2>4 DEF OutsideQuiet, smVars, extVars, amVars
  <2>. QED BY <2>3, <2>4
<1>9. ASSUME Exit \/ Expire PROVE OutsideQuiet
  <2>1. PICK c \in Containers : container[c] # "free" /\ \E exit : Ends(c, exit)
    BY <1>9 DEF Exit, Expire
  <2>2. UNCHANGED << smVars, amVars, releasing >>
    BY <1>9 DEF Exit, Expire
  <2>. QED BY <1>7, <2>1, <2>2
<1>10. ASSUME StartOnNode PROVE OutsideQuiet
  <2>1. PICK c \in starting :
           \/ /\ container[c] = "granted" /\ SetContainer(c, "running")
              /\ Tell(OnContainer("Started", c))
           \/ Tell(OnContainer("StartFailed", c)) /\ UNCHANGED container
    BY <1>10 DEF StartOnNode
  <2>2. UNCHANGED << smVars, amVars, releasing >>
    BY <1>10 DEF StartOnNode
  <2>3. OnContainer("Started", c).op = "Started" /\ OnContainer("StartFailed", c).op = "StartFailed"
    BY DEF OnContainer
  <2>4. \A d \in Containers : container'[d] = "free" <=> container[d] = "free"
    BY <1>1, <2>1 DEF SetContainer
  <2>5. \A n \in inbox' : n \in inbox \/ n.op \in { "Started", "StartFailed" }
    BY <2>1, <2>3 DEF Tell
  <2>. QED BY <2>2, <2>4, <2>5 DEF OutsideQuiet, smVars, extVars, amVars
<1>11. ASSUME UNCHANGED vars PROVE OutsideQuiet
  BY <1>11 DEF OutsideQuiet, vars, smVars, extVars, amVars, envVars
<1>. QED BY <1>2, <1>3, <1>4, <1>5, <1>6, <1>8, <1>9, <1>10, <1>11 DEF Next

-----------------------------------------------------------------------------
(* Resyncs and grants *)

\* What a step does to grants that are not handled yet.
GrantsFall == \A c \in Containers : GrantPending(c)' => GrantPending(c)

\* The thread only handles grants.
LEMMA WorkerGrants ==
    ASSUME AMInv, WorkerStep
    PROVE  GrantsFall /\ container' = container /\ inbox' = inbox
<1>1. container' = container /\ inbox' = inbox
  BY WorkerLeaves DEF quietVars
<1>2. \A i \in 1 .. Len(queue') :
         queue'[i] = Plain("LaunchAll") \/ \E k \in 1 .. Len(queue) : queue'[i] = queue[k]
  BY QueueSteps
<1>. QED BY <1>1, <1>2 DEF GrantsFall, GrantPending, GrantIn, Plain

\* So do the others, but for what the RM grants.
LEMMA OutsideGrants == ASSUME OutsideQuiet PROVE GrantsFall
<1>. SUFFICES ASSUME NEW c \in Containers, GrantPending(c)' PROVE GrantPending(c)
  BY DEF GrantsFall
<1>1. ASSUME NEW n \in inbox', GrantIn(n, c) PROVE n \in inbox
  BY <1>1 DEF OutsideQuiet, GrantIn
<1>2. ASSUME NEW i \in 1 .. Len(queue'), GrantIn(queue'[i], c)
      PROVE  i \in 1 .. Len(queue) /\ queue'[i] = queue[i]
  BY <1>2 DEF OutsideQuiet, GrantIn
<1>. QED BY <1>1, <1>2 DEF GrantPending

\* Where nothing is told of a grant, no resync is queued and no container granted.
LEMMA OutsideCounts == ASSUME AMInv, CountsInv, OutsideQuiet PROVE CountsInv'
<1>1. /\ UNCHANGED << todo, exceed, timers >>
      /\ \A c \in Containers : container'[c] = "free" <=> container[c] = "free"
      /\ \A j \in 1 .. Len(queue') : queue'[j].op \in { "Resync", "Allocate" } =>
            j \in 1 .. Len(queue) /\ queue'[j] = queue[j]
      /\ \A n \in inbox' : n.op = "Allocate" => n \in inbox
  BY DEF OutsideQuiet
<1>2. GrantsFall
  BY OutsideGrants
<1>3. /\ \A c \in Containers : ToSee(c)' <=> ToSee(c)
      /\ Rearms' <=> Rearms
  BY <1>1 DEF ToSee, Rearms, Elements
<1>4. \A j \in 1 .. Len(queue') : ResyncsAt(j)' => j \in 1 .. Len(queue) /\ ResyncsAt(j)
  BY <1>1 DEF ResyncsAt
<1>5. \A c \in Containers, j \in 1 .. Len(queue) : GrantBehind(c, j)' => GrantBehind(c, j)
  BY <1>1 DEF GrantBehind, GrantIn
<1>6. OneResync'
  BY <1>1, <1>3, <1>4 DEF CountsInv, OneResync, Elements
<1>. QED BY <1>1, <1>2, <1>3, <1>4, <1>5, <1>6 DEF CountsInv, GrantsFall

\* What a step of the thread does to resyncs in the queue, s places further on.
LEMMA QueuedResyncs ==
    ASSUME AMInv, WorkerStep
    PROVE  \E s \in { 0, 1 } :
              /\ s = 1 <=> todo = << >>
              /\ \A j \in 1 .. Len(queue') : ResyncsAt(j)' => j + s \in 1 .. Len(queue) /\ ResyncsAt(j + s)
              /\ \A c \in Containers, j \in 1 .. Len(queue') :
                    GrantBehind(c, j)' => GrantBehind(c, j + s)
              /\ s = 1 => \A c \in Containers : GrantPending(c)' => GrantBehind(c, 1)
<1>1. PICK s \in { 0, 1 } :
         /\ s = 1 <=> todo = << >>
         /\ \A i \in 1 .. Len(queue') :
               \/ queue'[i] = Plain("LaunchAll")
               \/ i + s \in 1 .. Len(queue) /\ queue'[i] = queue[i + s]
  BY QueueSteps
<1>2. inbox' = inbox
  BY WorkerGrants
<1>3. \A i \in 1 .. Len(queue') : queue'[i].op \in { "Resync", "Allocate" } =>
         i + s \in 1 .. Len(queue) /\ queue'[i] = queue[i + s]
  BY <1>1 DEF Plain
<1>4. \A j \in 1 .. Len(queue') : ResyncsAt(j)' => j + s \in 1 .. Len(queue) /\ ResyncsAt(j + s)
  BY <1>3 DEF ResyncsAt
<1>5. ASSUME NEW c \in Containers, NEW j \in 1 .. Len(queue'), GrantBehind(c, j)'
      PROVE  GrantBehind(c, j + s)
  <2>1. CASE \E n \in inbox' : GrantIn(n, c)
    BY <1>2, <2>1 DEF GrantBehind
  <2>2. CASE \E k \in 1 .. Len(queue') : j < k /\ GrantIn(queue'[k], c)
    <3>1. PICK k \in 1 .. Len(queue') : j < k /\ GrantIn(queue'[k], c)
      BY <2>2
    <3>2. k + s \in 1 .. Len(queue) /\ GrantIn(queue[k + s], c) /\ j + s < k + s
      BY <1>3, <3>1 DEF GrantIn
    <3>. QED BY <3>2 DEF GrantBehind
  <2>. QED BY <1>5, <2>1, <2>2 DEF GrantBehind
<1>6. ASSUME s = 1, NEW c \in Containers, GrantPending(c)' PROVE GrantBehind(c, 1)
  <2>1. CASE \E n \in inbox' : GrantIn(n, c)
    BY <1>2, <2>1 DEF GrantBehind
  <2>2. CASE \E k \in 1 .. Len(queue') : GrantIn(queue'[k], c)
    <3>1. PICK k \in 1 .. Len(queue') : GrantIn(queue'[k], c)
      BY <2>2
    <3>2. k + 1 \in 1 .. Len(queue) /\ GrantIn(queue[k + 1], c) /\ 1 < k + 1
      BY <1>3, <1>6, <3>1 DEF GrantIn
    <3>. QED BY <3>2 DEF GrantBehind
  <2>. QED BY <1>6, <2>1, <2>2 DEF GrantPending
<1>. QED BY <1>1, <1>4, <1>5, <1>6

\* Steps that are none of a resync.
LEMMA OtherCounts ==
    ASSUME AMInv, CountsInv, WorkerStep, Work.op \notin { "Resync", "Seen", "QueueResync" }
    PROVE  CountsInv'
<1>1. /\ \A j \in Elements(todo') : j.op \in { "Seen", "QueueResync" } => j \in Elements(Rest)
      /\ Elements(Rest) \subseteq Elements(todo')
      /\ \A d \in timers' : d.op = "Resync" => d \in timers
  BY OtherWork DEF OtherGoes, SpecialPart
<1>2. GrantsFall /\ container' = container
  BY WorkerGrants
<1>3. \A c \in Containers : exceed'[c] \in { exceed[c], 0 } /\ exceed[c] \in Nat
  <2>1. \A c \in Containers : exceed'[c] \in { exceed[c], 0 }
    BY WorkerSends
  <2>2. \A c \in Containers : exceed[c] \in Nat
    BY DEF AMInv, AMTypes
  <2>. QED BY <2>1, <2>2
<1>4. PICK s \in { 0, 1 } :
         /\ \A j \in 1 .. Len(queue') : ResyncsAt(j)' => j + s \in 1 .. Len(queue) /\ ResyncsAt(j + s)
         /\ \A c \in Containers, j \in 1 .. Len(queue') :
               GrantBehind(c, j)' => GrantBehind(c, j + s)
  BY QueuedResyncs
<1>5. /\ Elements(Rest) \subseteq Elements(todo)
      /\ \A i \in Elements(todo) : i = Work \/ i \in Elements(Rest)
  BY QueueSteps, RestFacts
<1>6. \A c \in Containers : ToSee(c)' => ToSee(c)
  <2>1. \A c \in Containers : ToSee(c)' <=> \E i \in Elements(todo') : i.op = "Seen" /\ c \in i.all
    BY DEF ToSee, Elements
  <2>. QED BY <1>1, <1>5, <2>1 DEF ToSee
<1>7. Rearms' <=> Rearms
  <2>1. Rearms' <=> \E i \in Elements(todo') : i.op = "QueueResync"
    BY DEF Rearms, Elements
  <2>. QED BY <1>1, <1>5, <2>1 DEF Rearms
<1>8. OneResync'
  <2>1. \A i \in Elements(todo') : i.op = "Seen" => Rearms
    BY <1>1, <1>5 DEF CountsInv, OneResync
  <2>2. Plain("Resync") \in timers' => Plain("Resync") \in timers
    BY <1>1 DEF Plain
  <2>3. \A j, k \in 1 .. Len(queue') : ResyncsAt(j)' /\ ResyncsAt(k)' => j = k
    <3>1. ASSUME NEW j \in 1 .. Len(queue'), NEW k \in 1 .. Len(queue'), ResyncsAt(j)', ResyncsAt(k)'
          PROVE  j = k
      <4>1. j + s = k + s
        BY <1>4, <3>1 DEF CountsInv, OneResync
      <4>. QED BY <4>1
    <3>. QED BY <3>1
  <2>4. \A i \in Elements(todo)' : i.op = "Seen" => Rearms'
    BY <1>7, <2>1 DEF Elements
  <2>. QED BY <1>4, <1>7, <2>2, <2>3, <2>4 DEF CountsInv, OneResync
<1>9. MaxExceed \in Nat \ { 0 }
  BY ApplicationMasterAssumption
<1>10. ASSUME NEW c \in Containers
       PROVE  /\ container'[c] = "free" => exceed'[c] = 0 /\ ~ToSee(c)'
              /\ ToSee(c)' /\ GrantPending(c)' => exceed'[c] < MaxExceed
  BY <1>2, <1>3, <1>6, <1>9 DEF CountsInv, GrantsFall
<1>11. ASSUME NEW c \in Containers, NEW j \in 1 .. Len(queue'), ResyncsAt(j)', GrantBehind(c, j)'
       PROVE  exceed'[c] < MaxExceed
  <2>1. exceed[c] < MaxExceed
    BY <1>4, <1>11 DEF CountsInv
  <2>. QED BY <1>3, <1>9, <2>1
<1>. QED BY <1>8, <1>10, <1>11 DEF CountsInv

\* A resync begins when every grant it could see has been handled, or has not been
\* counted too often, or it cannot be made.
LEMMA ResyncCounts == ASSUME AMInv, CountsInv, DoResync \/ DoResyncFails PROVE CountsInv'
<1>1. WorkerStep /\ HasWork /\ Work.op = "Resync" /\ exceed' = exceed
  BY ResyncIs, ResyncFailsIs DEF WorkerStep
<1>2. /\ todo = << >> /\ queue # << >> /\ Work = queue[1] /\ 1 \in 1 .. Len(queue) /\ ResyncsAt(1)
      /\ Elements(Rest) = {}
  <2>1. todo = << >> /\ queue # << >> /\ Work = queue[1] /\ 1 \in 1 .. Len(queue)
    BY <1>1, WorkFacts DEF AMInv
  <2>. QED BY <1>1, <2>1, RestFacts DEF ResyncsAt
<1>3. GrantsFall /\ container' = container
  BY <1>1, WorkerGrants
<1>4. PICK s \in { 0, 1 } :
         /\ s = 1
         /\ \A j \in 1 .. Len(queue') : ResyncsAt(j)' => j + s \in 1 .. Len(queue) /\ ResyncsAt(j + s)
         /\ s = 1 => \A c \in Containers : GrantPending(c)' => GrantBehind(c, 1)
  BY <1>1, <1>2, QueuedResyncs
<1>5. /\ \A j \in 1 .. Len(queue) : ResyncsAt(j) => j = 1
      /\ Plain("Resync") \notin timers
      /\ \A c \in Containers : GrantBehind(c, 1) => exceed[c] < MaxExceed
  BY <1>2 DEF CountsInv, OneResync
<1>6. \A j \in 1 .. Len(queue') : ~ResyncsAt(j)'
  <2>. SUFFICES ASSUME NEW j \in 1 .. Len(queue'), ResyncsAt(j)' PROVE FALSE
    OBVIOUS
  <2>1. j + 1 = 1
    BY <1>4, <1>5
  <2>. QED BY <2>1
<1>7. \A c \in Containers : ToSee(c)' <=> \E i \in Elements(todo') : i.op = "Seen" /\ c \in i.all
  BY DEF ToSee, Elements
<1>8. Rearms' <=> \E i \in Elements(todo') : i.op = "QueueResync"
  BY DEF Rearms, Elements
<1>9. Elements(todo)' = Elements(todo')
  BY DEF Elements
<1>10. CASE DoResync
  <2>1. PICK seen \in SUBSET AliveContainers :
           QuietShape(Each("Seen", seen)
                          \cup Each("Missing", LiveAssociatedContainers \ seen)
                          \cup { Plain("QueueResync") }, {})
    BY <1>10, ResyncIs
  <2>2. /\ Elements(todo') = Each("Seen", seen) \cup Each("Missing", LiveAssociatedContainers \ seen)
                                 \cup { Plain("QueueResync") }
        /\ timers' \subseteq timers
    BY <1>2, <2>1 DEF QuietShape, Goes, Armed
  <2>3. Rearms'
    <3>1. Plain("QueueResync").op = "QueueResync" /\ Plain("QueueResync") \in Elements(todo')
      BY <2>2 DEF Plain
    <3>. QED BY <1>8, <3>1
  <2>4. ASSUME NEW c \in Containers, ToSee(c)' PROVE c \in seen
    <3>1. PICK i \in Elements(todo') : i.op = "Seen" /\ c \in i.all
      BY <1>7, <2>4
    <3>2. i \in Each("Seen", seen) \/ i.op # "Seen"
      BY <2>2 DEF Each, Plain
    <3>. QED BY <3>1, <3>2 DEF Each
  <2>5. \A c \in seen : container[c] # "free"
    BY DEF AliveContainers
  <2>6. OneResync'
    BY <1>5, <1>6, <2>2, <2>3 DEF OneResync
  <2>7. ASSUME NEW c \in Containers
        PROVE  /\ container'[c] = "free" => exceed'[c] = 0 /\ ~ToSee(c)'
               /\ ToSee(c)' /\ GrantPending(c)' => exceed'[c] < MaxExceed
    BY <1>1, <1>3, <1>4, <1>5, <2>4, <2>5 DEF CountsInv
  <2>. QED BY <1>6, <2>6, <2>7 DEF CountsInv
<1>11. CASE DoResyncFails
  <2>1. Elements(todo') = {} /\ timers' = timers \cup { Plain("Resync") }
    <3>1. CountShape({}, { Plain("Resync") })
      BY <1>11, ResyncFailsIs
    <3>. QED BY <1>2, <3>1 DEF CountShape, Goes
  <2>2. OneResync'
    BY <1>6, <1>8, <1>9, <2>1 DEF OneResync
  <2>. QED BY <1>1, <1>3, <1>6, <1>7, <2>1, <2>2 DEF CountsInv
<1>. QED BY <1>10, <1>11

\* A container the resync sees is counted once.
LEMMA SeenCounts == ASSUME AMInv, CountsInv, DoSeen PROVE CountsInv'
<1>1. /\ WorkerStep /\ HasWork /\ Work.op = "Seen" /\ Work.all \subseteq Containers
  BY SeenIs DEF WorkerStep
<1>2. /\ todo # << >> /\ Work \in Elements(todo)
      /\ Elements(Rest) \subseteq Elements(todo)
      /\ \A i \in Elements(todo) : i = Work \/ i \in Elements(Rest)
      /\ \A i \in Elements(Rest) : i.op # "Seen"
  <2>1. todo # << >>
    <3>1. todo = << >> => Work \in QueueItems
      BY <1>1, RestFacts, WorkFacts DEF AMInv, AMTypes
    <3>2. \A i \in QueueItems : i.op # "Seen"
      BY DEF QueueItems, TimerItems, InboxItems, CompletionItems
    <3>. QED BY <1>1, <3>1, <3>2
  <2>2. \A i \in Elements(Rest) : Before(Work, i)
    BY <1>1, RestFacts
  <2>3. \A i \in Elements(Rest) : i.op # "Seen"
    BY <1>1, <2>2 DEF Before, Rank
  <2>. QED BY <1>1, <2>1, <2>3, RestFacts
<1>3. \E c \in Work.all : \E then :
         /\ (exceed' = exceed \/ exceed' = [ exceed EXCEPT ![c] = 0 ] \/ exceed' = [ exceed EXCEPT ![c] = exceed[c] + 1 ])
         /\ Elements(todo') = then \cup Elements(Rest) /\ timers' \subseteq timers
         /\ \A i \in then : i.op = "Complete" \/ i \in Each("Seen", Work.all \ { c })
  <2>1. PICK c \in Work.all :
           \/ exceed' = exceed /\ CountShape(Each("Seen", Work.all \ { c }), {})
           \/ exceed' = [ exceed EXCEPT ![c] = 0 ]
              /\ QuietShape({ Completion(c, "NON_TRANSIENT", TRUE, "exceed") }
                                \cup Each("Seen", Work.all \ { c }), {})
           \/ exceed' = [ exceed EXCEPT ![c] = exceed[c] + 1 ]
              /\ QuietShape(Each("Seen", Work.all \ { c }), {})
    BY SeenIs
  <2>2. \A then : QuietShape(then, {}) \/ CountShape(then, {}) =>
           Elements(todo') = then \cup Elements(Rest) /\ timers' \subseteq timers
    BY DEF QuietShape, CountShape, Goes, Armed
  <2>3. Completion(c, "NON_TRANSIENT", TRUE, "exceed").op = "Complete"
    BY DEF Completion
  <2>4. CASE CountShape(Each("Seen", Work.all \ { c }), {}) \/ QuietShape(Each("Seen", Work.all \ { c }), {})
    <3>1. Elements(todo') = Each("Seen", Work.all \ { c }) \cup Elements(Rest) /\ timers' \subseteq timers
      BY <2>2, <2>4, Zenon
    <3>. QED BY <2>1, <3>1
  <2>5. CASE exceed' = [ exceed EXCEPT ![c] = 0 ]
             /\ QuietShape({ Completion(c, "NON_TRANSIENT", TRUE, "exceed") }
                               \cup Each("Seen", Work.all \ { c }), {})
    <3>1. PICK then : then = { Completion(c, "NON_TRANSIENT", TRUE, "exceed") }
                                 \cup Each("Seen", Work.all \ { c })
      OBVIOUS
    <3>2. Elements(todo') = then \cup Elements(Rest) /\ timers' \subseteq timers
      BY <2>2, <2>5, <3>1, Zenon
    <3>3. \A i \in then : i.op = "Complete" \/ i \in Each("Seen", Work.all \ { c })
      BY <2>3, <3>1
    <3>. QED BY <2>5, <3>2, <3>3
  <2>. QED BY <2>1, <2>4, <2>5
<1>3a. PICK c \in Work.all : \E then :
         /\ (exceed' = exceed \/ exceed' = [ exceed EXCEPT ![c] = 0 ] \/ exceed' = [ exceed EXCEPT ![c] = exceed[c] + 1 ])
         /\ Elements(todo') = then \cup Elements(Rest) /\ timers' \subseteq timers
         /\ \A i \in then : i.op = "Complete" \/ i \in Each("Seen", Work.all \ { c })
  BY <1>3
<1>3b. PICK then :
         /\ (exceed' = exceed \/ exceed' = [ exceed EXCEPT ![c] = 0 ] \/ exceed' = [ exceed EXCEPT ![c] = exceed[c] + 1 ])
         /\ Elements(todo') = then \cup Elements(Rest) /\ timers' \subseteq timers
         /\ \A i \in then : i.op = "Complete" \/ i \in Each("Seen", Work.all \ { c })
  BY <1>3a
<1>4. GrantsFall /\ container' = container
  BY <1>1, WorkerGrants
<1>5. /\ ToSee(c) /\ Rearms /\ Plain("Resync") \notin timers
      /\ \A j \in 1 .. Len(queue) : ~ResyncsAt(j)
      /\ container[c] # "free"
  <2>1. ToSee(c)
    BY <1>1, <1>2, <1>3b DEF ToSee
  <2>2. Rearms
    BY <1>1, <1>2 DEF CountsInv, OneResync
  <2>. QED BY <1>1, <1>3b, <2>1, <2>2 DEF CountsInv, OneResync
<1>6. \A j \in 1 .. Len(queue') : ~ResyncsAt(j)'
  <2>1. PICK s \in { 0, 1 } :
           \A j \in 1 .. Len(queue') : ResyncsAt(j)' => j + s \in 1 .. Len(queue) /\ ResyncsAt(j + s)
    BY <1>1, QueuedResyncs
  <2>. QED BY <1>5, <2>1
<1>7. ASSUME NEW d \in Containers, ToSee(d)' PROVE d # c /\ ToSee(d)
  <2>1. ToSee(d)' <=> \E i \in Elements(todo') : i.op = "Seen" /\ d \in i.all
    BY DEF ToSee, Elements
  <2>2. PICK i \in Elements(todo') : i.op = "Seen" /\ d \in i.all
    BY <1>7, <2>1
  <2>3. i \in Each("Seen", Work.all \ { c })
    BY <1>2, <1>3b, <2>2
  <2>4. d \in Work.all \ { c }
    BY <2>2, <2>3 DEF Each
  <2>. QED BY <1>1, <1>2, <2>4 DEF ToSee
<1>8. Rearms'
  <2>1. Rearms' <=> \E i \in Elements(todo') : i.op = "QueueResync"
    BY DEF Rearms, Elements
  <2>2. PICK i \in Elements(todo) : i.op = "QueueResync"
    BY <1>5 DEF Rearms
  <2>. QED BY <1>1, <1>2, <1>3b, <2>1, <2>2
<1>9. OneResync'
  BY <1>3b, <1>5, <1>6, <1>8 DEF OneResync
<1>10. \A d \in Containers : d # c => exceed'[d] = exceed[d]
  BY <1>3b DEF AMInv, AMTypes
<1>11. ASSUME NEW d \in Containers
       PROVE  /\ container'[d] = "free" => exceed'[d] = 0 /\ ~ToSee(d)'
              /\ ToSee(d)' /\ GrantPending(d)' => exceed'[d] < MaxExceed
  BY <1>4, <1>5, <1>7, <1>10 DEF CountsInv, GrantsFall
<1>. QED BY <1>6, <1>9, <1>11 DEF CountsInv

\* The end of a resync arms the next.
LEMMA QueueResyncCounts == ASSUME AMInv, CountsInv, DoQueueResync PROVE CountsInv'
<1>1. /\ WorkerStep /\ HasWork /\ Work.op = "QueueResync" /\ exceed' = exceed
      /\ QuietShape({}, { Plain("Resync") })
  BY QueueResyncIs DEF WorkerStep
<1>2. todo # << >> /\ Work \in Elements(todo) /\ \A i \in Elements(Rest) : i.op \notin { "Seen", "QueueResync" }
  <2>1. todo # << >>
    <3>1. todo = << >> => Work \in QueueItems
      BY <1>1, WorkFacts DEF AMInv, AMTypes
    <3>2. \A i \in QueueItems : i.op # "QueueResync"
      BY DEF QueueItems, TimerItems, InboxItems, CompletionItems
    <3>. QED BY <1>1, <3>1, <3>2
  <2>2. \A i \in Elements(Rest) : Before(Work, i)
    BY <1>1, RestFacts
  <2>. QED BY <1>1, <2>1, <2>2, RestFacts DEF Before, Rank
<1>3. Rearms /\ \A j \in 1 .. Len(queue) : ~ResyncsAt(j)
  BY <1>1, <1>2 DEF Rearms, CountsInv, OneResync
<1>4. \A j \in 1 .. Len(queue') : ~ResyncsAt(j)'
  <2>1. PICK s \in { 0, 1 } :
           \A j \in 1 .. Len(queue') : ResyncsAt(j)' => j + s \in 1 .. Len(queue) /\ ResyncsAt(j + s)
    BY <1>1, QueuedResyncs
  <2>. QED BY <1>3, <2>1
<1>5. Elements(todo') = Elements(Rest)
  BY <1>1 DEF QuietShape, Goes
<1>6. ~Rearms' /\ \A c \in Containers : ~ToSee(c)'
  BY <1>2, <1>5 DEF Rearms, ToSee, Elements
<1>7. \A i \in Elements(todo)' : i.op # "Seen"
  BY <1>2, <1>5 DEF Elements
<1>8. OneResync'
  BY <1>4, <1>6, <1>7 DEF OneResync
<1>9. container' = container
  BY <1>1, WorkerGrants
<1>. QED BY <1>1, <1>4, <1>6, <1>8, <1>9 DEF CountsInv

\* A delayed task that has come is queued: a resync comes when a heartbeat has been.
LEMMA FireCounts == ASSUME AMInv, CountsInv, NEW d \in timers, Fire(d) PROVE CountsInv'
<1>1. /\ queue' = Append(queue, d) /\ timers' = timers \ { d } /\ d \in TimerItems
      /\ UNCHANGED << todo, exceed, container, inbox >>
      /\ d = Plain("Resync") => HeartbeatInTime
  BY DEF Fire, envVars, AMInv, AMTypes
<1>2. /\ d.op # "Allocate"
      /\ d.op = "Resync" => d = Plain("Resync")
  BY <1>1 DEF TimerItems, Plain
<1>3. /\ Len(queue) \in Nat
      /\ \A j \in 1 .. Len(queue') :
            \/ j \in 1 .. Len(queue) /\ queue'[j] = queue[j]
            \/ j = Len(queue) + 1 /\ queue'[j] = d
  <2>1. queue \in Seq(QueueItems) /\ d \in QueueItems
    BY <1>1 DEF AMInv, AMTypes, QueueItems
  <2>. QED BY <1>1, <2>1, AppendedAt
<1>4. GrantsFall
  BY <1>1, <1>2, <1>3 DEF GrantsFall, GrantPending, GrantIn
<1>5. /\ \A c \in Containers : ToSee(c)' <=> ToSee(c)
      /\ Rearms' <=> Rearms
  BY <1>1 DEF ToSee, Rearms, Elements
<1>6. \A j \in 1 .. Len(queue') : ResyncsAt(j)' =>
         \/ j \in 1 .. Len(queue) /\ ResyncsAt(j)
         \/ j = Len(queue) + 1 /\ d = Plain("Resync")
  BY <1>2, <1>3 DEF ResyncsAt
<1>7. OneResync'
  <2>1. \A i \in Elements(todo)' : i.op = "Seen" => Rearms'
    BY <1>1, <1>5 DEF CountsInv, OneResync, Elements
  <2>2. Rearms' => Plain("Resync") \notin timers' /\ \A j \in 1 .. Len(queue') : ~ResyncsAt(j)'
    BY <1>1, <1>5, <1>6 DEF CountsInv, OneResync
  <2>3. Plain("Resync") \in timers' => \A j \in 1 .. Len(queue') : ~ResyncsAt(j)'
    BY <1>1, <1>6 DEF CountsInv, OneResync
  <2>4. \A j, k \in 1 .. Len(queue') : ResyncsAt(j)' /\ ResyncsAt(k)' => j = k
    BY <1>1, <1>6 DEF CountsInv, OneResync
  <2>. QED BY <2>1, <2>2, <2>3, <2>4 DEF OneResync
<1>8. ASSUME NEW c \in Containers, NEW j \in 1 .. Len(queue'), ResyncsAt(j)', GrantBehind(c, j)'
      PROVE  exceed'[c] < MaxExceed
  <2>1. CASE j \in 1 .. Len(queue) /\ ResyncsAt(j)
    <3>1. GrantBehind(c, j)
      BY <1>1, <1>2, <1>3, <1>8 DEF GrantBehind, GrantIn
    <3>. QED BY <1>1, <2>1, <3>1 DEF CountsInv
  <2>2. CASE j = Len(queue) + 1 /\ d = Plain("Resync")
    <3>1. PICK n \in inbox : GrantIn(n, c)
      BY <1>1, <1>3, <1>8, <2>2 DEF GrantBehind
    <3>. QED BY <1>1, <2>2, <3>1 DEF HeartbeatInTime, GrantIn
  <2>. QED BY <1>6, <1>8, <2>1, <2>2
<1>9. ASSUME NEW c \in Containers
      PROVE  /\ container'[c] = "free" => exceed'[c] = 0 /\ ~ToSee(c)'
             /\ ToSee(c)' /\ GrantPending(c)' => exceed'[c] < MaxExceed
  BY <1>1, <1>4, <1>5 DEF CountsInv, GrantsFall
<1>. QED BY <1>7, <1>8, <1>9 DEF CountsInv

\* A callback is queued behind the resync it may come too late for.
LEMMA DeliverCounts == ASSUME AMInv, CountsInv, NEW b \in Containers, Deliver(b) PROVE CountsInv'
<1>1. PICK n \in inbox : inbox' = inbox \ { n } /\ queue' = Append(queue, n)
  BY DEF Deliver
<1>2. UNCHANGED << todo, timers, exceed, container >> /\ n \in InboxItems
  BY DEF Deliver, AMInv, AMTypes
<1>3. n.op # "Resync"
  BY <1>2 DEF InboxItems, CompletionItems
<1>4. /\ Len(queue) \in Nat
      /\ \A j \in 1 .. Len(queue') :
            \/ j \in 1 .. Len(queue) /\ queue'[j] = queue[j]
            \/ j = Len(queue) + 1 /\ queue'[j] = n
  <2>1. queue \in Seq(QueueItems) /\ n \in QueueItems
    BY <1>2 DEF AMInv, AMTypes, QueueItems
  <2>. QED BY <1>1, <2>1, AppendedAt
<1>5. GrantsFall
  BY <1>1, <1>4 DEF GrantsFall, GrantPending
<1>6. /\ \A c \in Containers : ToSee(c)' <=> ToSee(c)
      /\ Rearms' <=> Rearms
  BY <1>2 DEF ToSee, Rearms, Elements
<1>7. \A j \in 1 .. Len(queue') : ResyncsAt(j)' => j \in 1 .. Len(queue) /\ ResyncsAt(j)
  BY <1>3, <1>4 DEF ResyncsAt
<1>8. \A c \in Containers, j \in 1 .. Len(queue) : GrantBehind(c, j)' => GrantBehind(c, j)
  BY <1>1, <1>4 DEF GrantBehind
<1>9. OneResync'
  BY <1>2, <1>6, <1>7 DEF CountsInv, OneResync, Elements
<1>. QED BY <1>2, <1>5, <1>6, <1>7, <1>8, <1>9 DEF CountsInv, GrantsFall

\* A container that is granted has not been counted.
LEMMA GrantCounts == ASSUME AMInv, CountsInv, Grant PROVE CountsInv'
<1>1. UNCHANGED << todo, timers, exceed, queue >>
  BY DEF Grant, amVars
<1>2. PICK p \in asks, b \in Containers :
         /\ container[b] = "free" /\ container' = [ container EXCEPT ![b] = "granted" ]
         /\ inbox' = inbox \cup { Allocation(b, p) }
  BY DEF Grant, SetContainer, Tell
<1>3. /\ exceed[b] = 0 /\ ~ToSee(b)
      /\ MaxExceed \in Nat \ { 0 }
      /\ container \in [ Containers -> { "free", "granted", "running", "done" } ]
  BY <1>2, ApplicationMasterAssumption DEF CountsInv, AMInv, AMTypes
<1>4. \A c : GrantIn(Allocation(b, p), c) => c = b
  BY DEF GrantIn, Allocation
<1>5. \A c \in Containers : c # b /\ GrantPending(c)' => GrantPending(c)
  BY <1>1, <1>2, <1>4 DEF GrantPending
<1>6. \A c \in Containers, j \in 1 .. Len(queue) : c # b /\ GrantBehind(c, j)' => GrantBehind(c, j)
  BY <1>1, <1>2, <1>4 DEF GrantBehind
<1>7. /\ \A c \in Containers : ToSee(c)' <=> ToSee(c)
      /\ Rearms' <=> Rearms
      /\ \A j : ResyncsAt(j)' <=> ResyncsAt(j)
  BY <1>1 DEF ToSee, Rearms, Elements, ResyncsAt
<1>8. OneResync'
  BY <1>1, <1>7 DEF CountsInv, OneResync, Elements
<1>9. ASSUME NEW c \in Containers
      PROVE  /\ container'[c] = "free" => exceed'[c] = 0 /\ ~ToSee(c)'
             /\ ToSee(c)' /\ GrantPending(c)' => exceed'[c] < MaxExceed
             /\ \A j \in 1 .. Len(queue') :
                   ResyncsAt(j)' /\ GrantBehind(c, j)' => exceed'[c] < MaxExceed
  <2>1. CASE c = b
    BY <1>1, <1>2, <1>3, <1>7, <2>1
  <2>2. CASE c # b
    BY <1>1, <1>2, <1>3, <1>5, <1>6, <1>7, <2>2 DEF CountsInv
  <2>. QED BY <2>1, <2>2
<1>. QED BY <1>8, <1>9 DEF CountsInv

\* Another attempt begins to count anew.
LEMMA CrashCounts == ASSUME AMInv, AMInv', CrashAndRestart PROVE CountsInv'
<1>1. /\ todo' = << >> /\ timers' = { Plain("Resync") }
      /\ \A i \in Elements(queue') :
            \/ i \in { Plain("AllWaiting"), Plain("RetryAll"), NumbersTo(numbers) }
            \/ i \in inbox /\ i.op = "Complete"
      /\ exceed' = [ c \in Containers |-> 0 ]
  BY RestartIs DEF CrashAndRestart
<1>2. \A i \in Elements(queue') : i.op # "Resync"
  BY <1>1 DEF Plain, NumbersTo
<1>3. \A j \in 1 .. Len(queue') : ~ResyncsAt(j)'
  <2>1. queue' \in Seq(QueueItems)
    BY DEF AMInv, AMTypes
  <2>2. \A j \in 1 .. Len(queue') : queue'[j] \in Elements(queue')
    BY <2>1 DEF Elements
  <2>. QED BY <1>2, <2>2 DEF ResyncsAt
<1>4. Elements(todo') = {}
  BY <1>1, ElementsOne
<1>5. ~Rearms' /\ \A c \in Containers : ~ToSee(c)'
  BY <1>4 DEF Rearms, ToSee, Elements
<1>6. OneResync'
  BY <1>3, <1>4, <1>5 DEF OneResync, Elements
<1>. QED BY <1>1, <1>3, <1>5, <1>6 DEF CountsInv

\* At first nothing is granted or counted.
LEMMA InitCounts == ASSUME Init PROVE CountsInv
<1>1. /\ todo = << >> /\ timers = { Plain("Resync") }
      /\ queue = << Plain("AllWaiting"), Plain("RetryAll"), NumbersTo(numbers) >>
      /\ exceed = [ c \in Containers |-> 0 ]
  BY DEF Init, StartupQueue
<1>2. \A j \in 1 .. Len(queue) : ~ResyncsAt(j)
  BY <1>1 DEF ResyncsAt, Plain, NumbersTo
<1>3. ~Rearms /\ \A c \in Containers : ~ToSee(c)
  BY <1>1 DEF Rearms, ToSee, Elements
<1>4. OneResync
  BY <1>1, <1>2, <1>3 DEF OneResync, Elements
<1>. QED BY <1>1, <1>2, <1>3, <1>4 DEF CountsInv

\* Every step keeps the counts.
LEMMA NextCounts == ASSUME AMInv, AMInv', CountsInv, [Next]_vars PROVE CountsInv'
<1>1. CASE WorkerStep
  <2>1. CASE Work.op \notin { "Resync", "Seen", "QueueResync" }
    BY <1>1, <2>1, OtherCounts
  <2>2. CASE Work.op \in { "Resync", "Seen", "QueueResync" }
    <3>1. DoResync \/ DoResyncFails \/ DoSeen \/ DoQueueResync
      BY <1>1, <2>2 DEF WorkerStep, DoAllWaiting, DoRequest, DoAgain, DoTimeout, DoAllocate,
         DoWithdraw, DoLaunch, DoLaunchAll, DoGangTimeout, DoStarted, DoStartFailed, DoComplete,
         DoRetryAll, DoRetry, DoNumbers, DoMissing, Doing
    <3>. QED BY <3>1, ResyncCounts, SeenCounts, QueueResyncCounts
  <2>. QED BY <2>1, <2>2
<1>. QED BY <1>1, OutsideKinds, OutsideCounts, FireCounts, DeliverCounts, GrantCounts, CrashCounts

-----------------------------------------------------------------------------
(* Containers the AM has been told of *)

\* A container a task has, in memory or on ZooKeeper, is one of them.
LEMMA AssociatedTaken ==
    ASSUME AMInv, NEW c \in Containers, NEW t \in Locators,
           taskStatus[t].container = c \/ zkStatus[t].container = c
    PROVE  Taken(c)
BY DEF AMInv, GrantsSound, Unassociated, Taken

\* So is the container of a live task.
LEMMA LiveTaken ==
    ASSUME AMInv, NEW c \in Containers, liveLocators[c] # None
    PROVE  Taken(c) /\ liveLocators[c] \in Locators
<1>1. liveLocators[c] \in Locators
  BY DEF AMInv, IInv, SMTypeOK
<1>. QED BY <1>1, LiveTask, AssociatedTaken

\* A container stays one of them.
LEMMA TakenStays ==
    ASSUME AMInv, AMInv', [Next]_vars, NEW c \in Containers, Taken(c)
    PROVE  Taken(c)'
<1>1. CASE WorkerStep
  BY <1>1, WorkerGrants DEF Taken, GrantsFall
<1>2. CASE OutsideQuiet
  BY <1>2, OutsideGrants DEF OutsideQuiet, Taken, GrantsFall
<1>3. ASSUME NEW d \in timers, Fire(d) PROVE Taken(c)'
  <2>1. /\ queue' = Append(queue, d) /\ d \in TimerItems /\ UNCHANGED << container, inbox >>
    BY <1>3 DEF Fire, envVars, AMInv, AMTypes
  <2>2. d.op # "Allocate"
    BY <2>1 DEF TimerItems
  <2>3. \A j \in 1 .. Len(queue') :
           \/ j \in 1 .. Len(queue) /\ queue'[j] = queue[j]
           \/ queue'[j] = d
    <3>1. queue \in Seq(QueueItems) /\ d \in QueueItems
      BY <2>1 DEF AMInv, AMTypes, QueueItems
    <3>. QED BY <2>1, <3>1, AppendedAt
  <2>. QED BY <2>1, <2>2, <2>3 DEF Taken, GrantPending, GrantIn
<1>4. ASSUME NEW b \in Containers, Deliver(b) PROVE Taken(c)'
  <2>1. PICK n \in inbox : inbox' = inbox \ { n } /\ queue' = Append(queue, n)
    BY <1>4 DEF Deliver
  <2>2. container' = container
    BY <1>4 DEF Deliver
  <2>3. \A j \in 1 .. Len(queue') :
           \/ j \in 1 .. Len(queue) /\ queue'[j] = queue[j]
           \/ queue'[j] = n
    <3>1. queue \in Seq(QueueItems) /\ n \in QueueItems
      BY DEF AMInv, AMTypes, QueueItems
    <3>. QED BY <2>1, <3>1, AppendedAt
  <2>. QED BY <2>1, <2>2, <2>3 DEF Taken, GrantPending
<1>5. ASSUME Grant PROVE Taken(c)'
  <2>1. queue' = queue
    BY <1>5 DEF Grant, amVars
  <2>2. PICK p \in asks, b \in Containers :
           /\ container[b] = "free" /\ container' = [ container EXCEPT ![b] = "granted" ]
           /\ inbox' = inbox \cup { Allocation(b, p) }
    BY <1>5 DEF Grant, SetContainer, Tell
  <2>3. b # c
    BY <2>2 DEF Taken
  <2>4. ~GrantIn(Allocation(b, p), c)
    BY <2>3 DEF GrantIn, Allocation
  <2>5. container'[c] = container[c]
    BY <2>2, <2>3 DEF AMInv, AMTypes
  <2>. QED BY <2>1, <2>2, <2>4, <2>5 DEF Taken, GrantPending
<1>6. ASSUME CrashAndRestart PROVE Taken(c)'
  <2>1. \A i \in Elements(queue') :
            \/ i \in { Plain("AllWaiting"), Plain("RetryAll"), NumbersTo(numbers) }
            \/ i \in inbox /\ i.op = "Complete"
    BY <1>6, RestartIs
  <2>2. \A i \in Elements(queue') : ~GrantIn(i, c)
    BY <2>1 DEF Plain, NumbersTo, GrantIn
  <2>3. \A j \in 1 .. Len(queue') : queue'[j] \in Elements(queue')
    <3>1. queue' \in Seq(QueueItems)
      BY DEF AMInv, AMTypes
    <3>. QED BY <3>1 DEF Elements
  <2>4. inbox' \subseteq Notices
    BY <1>6 DEF CrashAndRestart
  <2>5. container'[c] # "free"
    BY <1>6 DEF CrashAndRestart, Taken
  <2>. QED BY <2>2, <2>3, <2>4, <2>5 DEF Taken, GrantPending, Notices, GrantIn
<1>. QED BY <1>1, <1>2, <1>3, <1>4, <1>5, <1>6, OutsideKinds

\* A step of a task that is not allocated a container associates none.
LEMMA EdgeLive ==
    ASSUME AMInv, AMInv', NEW t, NEW dst, NEW then, NEW delayed, EdgeShape(t, dst, then, delayed),
           dst # "CONTAINER_ALLOCATED", NEW c \in Containers, liveLocators'[c] # None
    PROVE  liveLocators[c] # None /\ (dst \notin LIVE_STATES => liveLocators[c] # t)
<1>1. /\ t \in Locators /\ dst \in TaskStates /\ taskStatus'[t].state = dst
      /\ \A u \in Locators : u # t => taskStatus'[u] = taskStatus[u]
  BY EdgeFacts DEF EdgeShape
<1>2. liveLocators'[c] \in Locators
  BY DEF AMInv, IInv, SMTypeOK
<1>3. PICK u \in Locators : u = liveLocators'[c]
  BY <1>2
<1>4. taskStatus'[u].state \in LIVE_STATES /\ taskStatus'[u].container = c
  BY <1>3 DEF AMInv, IInv, IndexesExact, LiveIndexExact
<1>5. None \notin Locators
  BY NoneAssumption
<1>6. CASE u = t
  <2>1. taskStatus[t].state \in LIVE_STATES /\ taskStatus[t].container = c
    <3>1. dst \in LIVE_STATES \ { "CONTAINER_ALLOCATED" }
      BY <1>1, <1>4, <1>6
    <3>2. /\ taskStatus[t].state \in LIVE_STATES
          /\ taskStatus'[t].container = taskStatus[t].container
      BY <3>1, EdgeContainer
    <3>. QED BY <1>4, <1>6, <3>2
  <2>2. liveLocators[c] = t
    BY <1>1, <2>1 DEF AMInv, IInv, IndexesExact, LiveIndexExact
  <2>. QED BY <1>1, <1>4, <1>5, <1>6, <2>2
<1>7. CASE u # t
  <2>1. liveLocators[c] = u
    BY <1>1, <1>4, <1>7 DEF AMInv, IInv, IndexesExact, LiveIndexExact
  <2>. QED BY <1>5, <1>7, <2>1
<1>. QED BY <1>6, <1>7

\* A part that leaves the tasks alone associates none, and so does one that fails.
LEMMA QuietLive ==
    ASSUME AMInv, NEW then, NEW delayed,
           QuietStepShape(then, delayed) \/ QuietShape(then, delayed) \/ CountShape(then, delayed)
    PROVE  liveLocators' = liveLocators
BY DEF QuietStepShape, QuietShape, CountShape, SetLostCounts, smVars, extVars

\* Only a grant that is handled brings the AM a container it did not have.
LEMMA WorkerAssociates ==
    ASSUME AMInv, AMInv', WorkerStep, NEW c \in Containers, Taken(c), liveLocators[c] = None
    PROVE  liveLocators'[c] = None
<1>. SUFFICES ASSUME liveLocators'[c] # None PROVE FALSE
  OBVIOUS
<1>1. WorkerShape
  BY WorkerShapes
<1>2. ASSUME NEW t, NEW dst, NEW then, NEW delayed, EdgeStepShape(t, dst, then, delayed)
      PROVE  FALSE
  <2>1. EdgeShape(t, dst, then, delayed)
    BY <1>2 DEF EdgeStepShape
  <2>2. CASE dst # "CONTAINER_ALLOCATED"
    BY <2>1, <2>2, EdgeLive
  <2>3. CASE dst = "CONTAINER_ALLOCATED"
    <3>1. /\ Work.op = "Allocate" /\ taskStatus'[t].container = Work.container
          /\ HasWork
      BY <1>1, <1>2, <2>3 DEF EdgeStepShape, WorkerShape
    <3>2. /\ todo = << >> /\ Work = queue[1] /\ 1 \in 1 .. Len(queue)
      BY <3>1, WorkFacts DEF AMInv
    <3>3. Work.container # c
      BY <3>1, <3>2 DEF Taken, GrantPending, GrantIn
    <3>4. /\ t \in Locators /\ \A u \in Locators : u # t => taskStatus'[u] = taskStatus[u]
      BY <2>1, EdgeFacts
    <3>5. liveLocators'[c] \in Locators
      BY DEF AMInv, IInv, SMTypeOK
    <3>6. PICK u \in Locators : u = liveLocators'[c]
      BY <3>5
    <3>7. taskStatus'[u].state \in LIVE_STATES /\ taskStatus'[u].container = c
      BY <3>6 DEF AMInv, IInv, IndexesExact, LiveIndexExact
    <3>8. u # t
      BY <3>1, <3>3, <3>7
    <3>9. liveLocators[c] = u
      BY <3>4, <3>7, <3>8 DEF AMInv, IInv, IndexesExact, LiveIndexExact
    <3>. QED BY <3>9, NoneAssumption
  <2>. QED BY <2>2, <2>3
<1>3. ASSUME NEW then, NEW delayed, QuietStepShape(then, delayed) PROVE FALSE
  BY <1>3, QuietLive
<1>4. ASSUME NEW t, FailStepShape(t) PROVE FALSE
  BY <1>4 DEF FailStepShape, FailToAssociate, extVars
<1>5. ASSUME NumbersStepShape PROVE FALSE
  <2>1. PICK gone \in SUBSET Locators :
           ForgetLive({ d \in Containers : liveLocators[d] \in gone })
    BY <1>5 DEF NumbersStepShape, UpdateTaskNumbers, Removed
  <2>. QED BY <2>1 DEF ForgetLive
<1>. QED BY <1>1, <1>2, <1>3, <1>4, <1>5 DEF WorkerShape

\* What the thread sends to be released, it had been told of and has no more.
LEMMA WorkerReleases ==
    ASSUME AMInv, AMInv', [Next]_vars, TakenInv, WorkerStep, phase = "running",
           NEW c \in Containers, c \in releasing'
    PROVE  Taken(c)' /\ liveLocators'[c] = None
<1>1. CASE c \in releasing
  <2>1. Taken(c) /\ liveLocators[c] = None
    BY <1>1 DEF TakenInv
  <2>. QED BY <2>1, TakenStays, WorkerAssociates
<1>2. CASE DoAllocate /\ releasing' = releasing \cup { Work.container } /\ c \notin releasing
  <2>1. /\ c = Work.container /\ todo = << >> /\ HasWork /\ GrantIn(Work, c)
    BY <1>2, AllocateIs
  <2>2. queue # << >> /\ Work = queue[1] /\ 1 \in 1 .. Len(queue) /\ Len(queue) \in Nat
    <3>1. queue # << >> /\ Work = queue[1] /\ 1 \in 1 .. Len(queue)
      BY <2>1, WorkFacts DEF AMInv
    <3>. QED BY <3>1 DEF AMInv, AMTypes
  <2>3. GrantPending(c)
    BY <2>1, <2>2 DEF GrantPending
  <2>4. Unassociated(c) /\ container[c] # "free"
    BY <2>3 DEF AMInv, GrantsSound
  <2>5. ~GrantPending(c)'
    <3>1. GrantPending(c)' => GrantBehind(c, 1)
      BY <2>1, QueuedResyncs
    <3>2. ~GrantBehind(c, 1)
      BY <2>1, <2>2 DEF AMInv, GrantsSound, GrantBehind
    <3>. QED BY <3>1, <3>2
  <2>6. container'[c] = container[c]
    BY WorkerGrants
  <2>7. liveLocators[c] = None
    <3>1. liveLocators[c] \in Locators => ~Unassociated(c)
      BY LiveTask DEF Unassociated
    <3>2. liveLocators[c] \in Locators \cup { None }
      BY DEF AMInv, IInv, SMTypeOK
    <3>. QED BY <2>4, <3>1, <3>2
  <2>8. PICK t : t = priorityLocators[Work.priority]
    OBVIOUS
  <2>9. \/ QuietShape({}, {})
        \/ EdgeShape(t, "TASK_WAITING", Each("Request", { t }), {})
        \/ FailToAssociate(t)
    <3>1. releasing' # releasing
      BY <1>2, <2>1
    <3>. QED BY <1>2, <2>8, <3>1, AllocateIs
  <2>10. liveLocators'[c] = None
    <3>1. CASE QuietShape({}, {})
      BY <2>7, <3>1, QuietLive
    <3>2. CASE EdgeShape(t, "TASK_WAITING", Each("Request", { t }), {})
      BY <2>7, <3>2, EdgeLive
    <3>3. CASE FailToAssociate(t)
      BY <2>7, <3>3 DEF FailToAssociate, extVars
    <3>. QED BY <2>9, <3>1, <3>2, <3>3
  <2>. QED BY <2>4, <2>5, <2>6, <2>10 DEF Taken
<1>3. CASE DoComplete /\ Work.release = TRUE /\ c = Work.container
  <2>1. HasWork /\ Work.op = "Complete" /\ (Work \in Elements(todo) \/ Work \in Elements(queue))
    BY <1>3, CompleteIs, RestFacts
  <2>2. Taken(c)
    BY <1>3, <2>1 DEF TakenInv
  <2>3. Taken(c)'
    BY <2>2, TakenStays
  <2>4. CASE liveLocators[c] = None
    BY <2>2, <2>3, <2>4, WorkerAssociates
  <2>5. CASE liveLocators[c] # None
    <3>1. PICK t \in Locators : /\ t = liveLocators[c]
                                /\ EdgeShape(t, "CONTAINER_COMPLETED", Each("Retry", { t }), {})
      BY <1>3, <2>5, CompleteIs
    <3>2. liveLocators'[c] # None => liveLocators[c] # t
      BY <3>1, EdgeLive DEF LIVE_STATES
    <3>. QED BY <2>3, <3>1, <3>2
  <2>. QED BY <2>4, <2>5
<1>4. CASE /\ DoNumbers /\ releasing' = releasing \cup ContainersOf(Removed(Work.numbers))
           /\ c \notin releasing
  <2>1. liveLocators[c] \in Removed(Work.numbers)
    BY <1>4 DEF ContainersOf
  <2>2. UpdateTaskNumbers(Work.numbers)
    BY <1>4, NumbersIs
  <2>3. PICK gone : gone = Removed(Work.numbers)
    OBVIOUS
  <2>4. ForgetLive({ d \in Containers : liveLocators[d] \in gone })
    BY <2>2, <2>3 DEF UpdateTaskNumbers
  <2>5. liveLocators'[c] = None
    BY <2>1, <2>3, <2>4 DEF ForgetLive
  <2>6. liveLocators[c] # None
    BY <2>1, NoneAssumption DEF Removed
  <2>. QED BY <2>5, <2>6, LiveTaken, TakenStays
<1>. QED BY <1>1, <1>2, <1>3, <1>4, WorkerSends

\* What the thread is left to complete and release, the AM had been told of.
LEMMA WorkerCompletes ==
    ASSUME AMInv, AMInv', [Next]_vars, CountsInv, TakenInv, WorkerStep,
           NEW i \in Elements(todo') \cup Elements(queue'), i.op = "Complete", i.release = TRUE
    PROVE  i.container \in Containers /\ Taken(i.container)
<1>1. HasWork
  BY QueueSteps
<1>2. ASSUME i \in Elements(todo) \cup Elements(queue)
      PROVE  i.container \in Containers /\ Taken(i.container)
  <2>1. Taken(i.container)
    BY <1>2 DEF TakenInv
  <2>2. i \in TodoItems \cup QueueItems
    <3>1. \A j \in Elements(todo) : j \in TodoItems
      BY <1>1, RestFacts
    <3>2. \A j \in Elements(queue) : j \in QueueItems
      BY DEF AMInv, AMTypes, Elements
    <3>. QED BY <1>2, <3>1, <3>2
  <2>3. i.container \in Containers
    BY <2>2 DEF TodoItems, QueueItems, TimerItems, InboxItems, CompletionItems
  <2>. QED BY <2>1, <2>3
<1>3. CASE i \in Elements(queue')
  <2>1. PICK s \in { 0, 1 } : \A j \in 1 .. Len(queue') :
           \/ queue'[j] = Plain("LaunchAll")
           \/ j + s \in 1 .. Len(queue) /\ queue'[j] = queue[j + s]
    BY QueueSteps
  <2>2. /\ \A q \in Elements(queue') : \E j \in 1 .. Len(queue') : q = queue'[j]
        /\ \A j \in 1 .. Len(queue) : queue[j] \in Elements(queue)
    BY DEF AMInv, AMTypes, Elements
  <2>3. i = Plain("LaunchAll") \/ i \in Elements(queue)
    BY <1>3, <2>1, <2>2
  <2>. QED BY <1>2, <2>3 DEF Plain
<1>4. CASE i \in Elements(todo') /\ Work.op \notin { "Resync", "Seen", "QueueResync" }
  <2>1. \/ i \in Elements(Rest)
        \/ i.container \in Containers /\ liveLocators[i.container] # None
    BY <1>4, OtherWork DEF OtherGoes, SpecialPart
  <2>2. Elements(Rest) \subseteq Elements(todo)
    BY <1>1, RestFacts
  <2>. QED BY <1>2, <2>1, <2>2, LiveTaken
<1>5. CASE i \in Elements(todo') /\ Work.op \in { "Resync", "QueueResync" }
  <2>1. DoResync \/ DoResyncFails \/ DoQueueResync
    BY <1>5 DEF WorkerStep, DoAllWaiting, DoRequest, DoAgain, DoTimeout, DoAllocate,
       DoWithdraw, DoLaunch, DoLaunchAll, DoGangTimeout, DoStarted, DoStartFailed, DoComplete,
       DoRetryAll, DoRetry, DoNumbers, DoSeen, DoMissing, Doing
  <2>2. \E then, delayed : /\ QuietShape(then, delayed) \/ CountShape(then, delayed)
                           /\ \A j \in then : j.op # "Complete"
    <3>1. CASE DoResync
      <4>1. PICK seen : QuietShape(Each("Seen", seen)
                                      \cup Each("Missing", LiveAssociatedContainers \ seen)
                                      \cup { Plain("QueueResync") }, {})
        BY <3>1, ResyncIs
      <4>2. PICK then : then = Each("Seen", seen) \cup Each("Missing", LiveAssociatedContainers \ seen)
                                  \cup { Plain("QueueResync") }
        OBVIOUS
      <4>3. \A j \in then : j.op # "Complete"
        BY <4>2 DEF Each, Plain
      <4>. QED BY <4>1, <4>2, <4>3
    <3>2. CASE DoResyncFails \/ DoQueueResync
      BY <3>2, ResyncFailsIs, QueueResyncIs
    <3>. QED BY <2>1, <3>1, <3>2
  <2>3. PICK then : /\ \E delayed : QuietShape(then, delayed) \/ CountShape(then, delayed)
                    /\ \A j \in then : j.op # "Complete"
    BY <2>2
  <2>4. Elements(todo') = then \cup Elements(Rest)
    BY <2>3 DEF QuietShape, CountShape, Goes
  <2>5. Elements(Rest) \subseteq Elements(todo)
    BY <1>1, RestFacts
  <2>. QED BY <1>2, <1>5, <2>3, <2>4, <2>5
<1>6. CASE i \in Elements(todo') /\ Work.op = "Seen"
  <2>1. DoSeen
    BY <1>6 DEF WorkerStep, DoAllWaiting, DoRequest, DoAgain, DoTimeout, DoAllocate,
       DoWithdraw, DoLaunch, DoLaunchAll, DoGangTimeout, DoStarted, DoStartFailed, DoComplete,
       DoRetryAll, DoRetry, DoNumbers, DoMissing, DoResync, DoResyncFails, DoQueueResync, Doing
  <2>2. PICK c \in Work.all :
           \/ CountShape(Each("Seen", Work.all \ { c }), {})
           \/ /\ exceed[c] + 1 > MaxExceed
              /\ QuietShape({ Completion(c, "NON_TRANSIENT", TRUE, "exceed") }
                                \cup Each("Seen", Work.all \ { c }), {})
           \/ QuietShape(Each("Seen", Work.all \ { c }), {})
    BY <2>1, SeenIs
  <2>3. PICK rest : rest = Each("Seen", Work.all \ { c })
    OBVIOUS
  <2>3a. \A j \in rest : j.op # "Complete"
    BY <2>3 DEF Each
  <2>4. \A then : QuietShape(then, {}) \/ CountShape(then, {}) =>
           Elements(todo') = then \cup Elements(Rest)
    BY DEF QuietShape, CountShape, Goes
  <2>5. Elements(Rest) \subseteq Elements(todo)
    BY <1>1, RestFacts
  <2>6. c \in Containers
    BY <2>1, SeenIs
  <2>7. CASE CountShape(rest, {}) \/ QuietShape(rest, {})
    <3>1. Elements(todo') = rest \cup Elements(Rest)
      BY <2>4, <2>7, Zenon
    <3>. QED BY <1>2, <1>6, <2>3a, <2>5, <3>1
  <2>8. CASE /\ exceed[c] + 1 > MaxExceed
             /\ QuietShape({ Completion(c, "NON_TRANSIENT", TRUE, "exceed") } \cup rest, {})
    <3>1. PICK then : then = { Completion(c, "NON_TRANSIENT", TRUE, "exceed") } \cup rest
      OBVIOUS
    <3>2. Elements(todo') = then \cup Elements(Rest)
      BY <2>4, <2>8, <3>1, Zenon
    <3>3. i \in Elements(todo) \/ i.container = c
      <4>1. Completion(c, "NON_TRANSIENT", TRUE, "exceed").container = c
        BY DEF Completion
      <4>2. i \in then \/ i \in Elements(todo)
        BY <1>6, <2>5, <3>2
      <4>3. i \notin rest
        BY <2>3a
      <4>. QED BY <3>1, <4>1, <4>2, <4>3
    <3>4. Taken(c)
      <4>1. ToSee(c)
        <5>1. Work \in Elements(todo)
          <6>1. todo = << >> => Work \in QueueItems
            BY <1>1, WorkFacts DEF AMInv, AMTypes
          <6>2. \A q \in QueueItems : q.op # "Seen"
            BY DEF QueueItems, TimerItems, InboxItems, CompletionItems
          <6>. QED BY <1>1, <1>6, <6>1, <6>2, RestFacts
        <5>. QED BY <1>6, <5>1 DEF ToSee
      <4>2. /\ container[c] # "free"
            /\ GrantPending(c) => exceed[c] < MaxExceed
        BY <2>6, <4>1 DEF CountsInv
      <4>3. exceed[c] \in Nat /\ MaxExceed \in Nat
        BY <2>6, ApplicationMasterAssumption DEF AMInv, AMTypes
      <4>. QED BY <2>8, <4>2, <4>3 DEF Taken
    <3>. QED BY <1>2, <2>6, <3>3, <3>4
  <2>. QED BY <2>2, <2>3, <2>7, <2>8, Zenon
<1>. QED BY <1>3, <1>4, <1>5, <1>6

\* What is migrated a task had on ZooKeeper.
LEMMA MigrateTaken ==
    ASSUME AMInv, AMInv', TakenInv, [Next]_vars, NEW c \in migrate'
    PROVE  Taken(c)'
<1>1. c \in Containers
  BY DEF AMInv, AMTypes
<1>2. c \in migrate \/ \E t \in Locators : zkStatus[t].container = c
  <2>1. CASE WorkerStep
    BY <2>1, WorkerSends
  <2>2. CASE OutsideQuiet
    BY <2>2 DEF OutsideQuiet
  <2>3. CASE CrashAndRestart \/ Grant \/ (\E d \in timers : Fire(d)) \/ (\E b \in Containers : Deliver(b))
    BY <2>3 DEF CrashAndRestart, Grant, amVars, Fire, Deliver
  <2>. QED BY <2>1, <2>2, <2>3, OutsideKinds
<1>3. c \in migrate => Taken(c)
  BY DEF TakenInv
<1>. QED BY <1>1, <1>2, <1>3, AssociatedTaken, TakenStays

\* What is queued outside the thread is released only if the AM was told of it.
LEMMA OutsideCompletes ==
    ASSUME AMInv, AMInv', TakenInv, [Next]_vars, ~WorkerStep,
           NEW i \in Elements(todo') \cup Elements(queue'), i.op = "Complete", i.release = TRUE
    PROVE  i.container \in Containers /\ Taken(i.container)
<1>1. /\ \A q \in Elements(queue') : \E j \in 1 .. Len(queue') : q = queue'[j]
      /\ \A j \in 1 .. Len(queue) : queue[j] \in Elements(queue)
      /\ \A q \in Elements(queue) : q \in QueueItems
      /\ \A q \in Elements(todo) : q \in TodoItems
  BY DEF AMInv, AMTypes, TodoSound, SoundTodo, Elements
<1>2. i \in Elements(todo) \cup Elements(queue) => i.container \in Containers /\ Taken(i.container)
  <2>1. ASSUME i \in Elements(todo) \cup Elements(queue) PROVE i.container \in Containers
    BY <1>1, <2>1 DEF TodoItems, QueueItems, TimerItems, InboxItems, CompletionItems
  <2>. QED BY <2>1 DEF TakenInv
<1>3. CASE OutsideQuiet
  <2>1. CASE i \in Elements(todo')
    BY <1>2, <1>3, <2>1 DEF OutsideQuiet
  <2>2. CASE i \in Elements(queue')
    <3>1. PICK j \in 1 .. Len(queue') : i = queue'[j]
      BY <1>1, <2>2
    <3>2. i \in Elements(queue) \/ i.container \in migrate
      BY <1>1, <1>3, <3>1 DEF OutsideQuiet
    <3>3. i.container \in migrate => i.container \in Containers /\ Taken(i.container)
      BY DEF AMInv, AMTypes, TakenInv
    <3>. QED BY <1>2, <3>2, <3>3
  <2>. QED BY <2>1, <2>2
<1>4. ASSUME NEW d, d \in QueueItems, queue' = Append(queue, d), todo' = todo,
             d.op = "Complete" => d.release = FALSE
      PROVE  i \in Elements(todo) \cup Elements(queue)
  <2>1. CASE i \in Elements(todo')
    BY <1>4, <2>1
  <2>2. CASE i \in Elements(queue')
    <3>1. PICK j \in 1 .. Len(queue') : i = queue'[j]
      BY <1>1, <2>2
    <3>2. queue'[j] = d \/ (j \in 1 .. Len(queue) /\ queue'[j] = queue[j])
      <4>1. queue \in Seq(QueueItems)
        BY DEF AMInv, AMTypes
      <4>. QED BY <1>4, <4>1, AppendedAt
    <3>. QED BY <1>1, <1>4, <3>1, <3>2
  <2>. QED BY <2>1, <2>2
<1>5. CASE \E d \in timers : Fire(d)
  <2>1. PICK d \in timers : Fire(d)
    BY <1>5
  <2>2. d \in TimerItems /\ queue' = Append(queue, d) /\ todo' = todo
    BY <2>1 DEF Fire, AMInv, AMTypes
  <2>3. d \in QueueItems /\ d.op # "Complete"
    BY <2>2 DEF QueueItems, TimerItems
  <2>. QED BY <1>2, <1>4, <2>2, <2>3
<1>6. CASE \E b \in Containers : Deliver(b)
  <2>1. PICK n \in inbox : queue' = Append(queue, n) /\ todo' = todo
    BY <1>6 DEF Deliver
  <2>2. n \in QueueItems /\ (n.op = "Complete" => n.release = FALSE)
    BY DEF QueueItems, AMInv, AMTypes, TakenInv
  <2>. QED BY <1>2, <1>4, <2>1, <2>2
<1>7. CASE Grant
  BY <1>2, <1>7 DEF Grant, amVars
<1>8. CASE CrashAndRestart
  <2>1. /\ todo' = << >>
        /\ \A q \in Elements(queue') :
              \/ q \in { Plain("AllWaiting"), Plain("RetryAll"), NumbersTo(numbers) }
              \/ q \in inbox /\ q.op = "Complete"
    BY <1>8, RestartIs
  <2>2. i \in Elements(queue')
    BY <2>1, ElementsOne
  <2>3. i \in inbox
    BY <2>1, <2>2 DEF Plain, NumbersTo
  <2>. QED BY <2>3 DEF TakenInv
<1>. QED BY <1>3, <1>5, <1>6, <1>7, <1>8, OutsideKinds

\* What is to be released has been told of, after every step.
LEMMA NextTaken ==
    ASSUME AMInv, AMInv', CountsInv, TakenInv, [Next]_vars
    PROVE  TakenInv'
<1>1. ASSUME phase' = "running", NEW c \in releasing' PROVE Taken(c)' /\ liveLocators'[c] = None
  <2>1. c \in Containers
    BY DEF AMInv, AMTypes
  <2>2. ASSUME c \in releasing, phase = "running", liveLocators' = liveLocators
        PROVE  Taken(c)' /\ liveLocators'[c] = None
    <3>1. Taken(c) /\ liveLocators[c] = None
      BY <2>2 DEF TakenInv
    <3>. QED BY <2>1, <2>2, <3>1, TakenStays
  <2>3. CASE WorkerStep
    <3>1. phase = "running"
      BY <2>3, QueueSteps DEF HasWork
    <3>. QED BY <1>1, <2>1, <2>3, <3>1, WorkerReleases
  <2>4. CASE OutsideQuiet
    BY <1>1, <2>2, <2>4 DEF OutsideQuiet
  <2>5. CASE Grant \/ (\E d \in timers : Fire(d)) \/ (\E b \in Containers : Deliver(b))
    <3>1. phase' = phase /\ releasing' = releasing /\ liveLocators' = liveLocators
      BY <2>5 DEF Grant, amVars, Fire, Deliver, smVars, extVars, envVars
    <3>. QED BY <1>1, <2>2, <3>1
  <2>6. CASE CrashAndRestart
    BY <1>1, <2>6 DEF CrashAndRestart
  <2>. QED BY <2>3, <2>4, <2>5, <2>6, OutsideKinds
<1>2. ASSUME NEW i \in Elements(todo') \cup Elements(queue'), i.op = "Complete", i.release = TRUE
      PROVE  Taken(i.container)'
  <2>1. i.container \in Containers /\ Taken(i.container)
    BY <1>2, WorkerCompletes, OutsideCompletes
  <2>2. PICK c : c = i.container
    OBVIOUS
  <2>3. Taken(c)'
    BY <2>1, <2>2, TakenStays
  <2>. QED BY <2>2, <2>3
<1>3. \A n \in inbox' : n.op = "Complete" => n.release = FALSE
  <2>1. CASE WorkerStep
    BY <2>1, WorkerGrants DEF TakenInv
  <2>2. CASE OutsideQuiet
    BY <2>2 DEF OutsideQuiet, TakenInv
  <2>3. CASE CrashAndRestart \/ (\E d \in timers : Fire(d)) \/ (\E b \in Containers : Deliver(b))
    <3>1. inbox' \subseteq inbox
      BY <2>3 DEF CrashAndRestart, Notices, Fire, envVars, Deliver
    <3>. QED BY <3>1 DEF TakenInv
  <2>4. CASE Grant
    <3>1. PICK p, b : inbox' = inbox \cup { Allocation(b, p) }
      BY <2>4 DEF Grant, Tell
    <3>. QED BY <3>1 DEF TakenInv, Allocation
  <2>. QED BY <2>1, <2>2, <2>3, <2>4, OutsideKinds
<1>4. \A c \in migrate' : Taken(c)'
  BY MigrateTaken
<1>5. \A i \in Elements(todo)' \cup Elements(queue)' :
         i.op = "Complete" /\ i.release = TRUE => Taken(i.container)'
  BY <1>2 DEF Elements
<1>. QED BY <1>1, <1>3, <1>4, <1>5 DEF TakenInv

\* At first there is nothing to release.
LEMMA InitTaken == ASSUME Init PROVE TakenInv
<1>1. /\ todo = << >> /\ releasing = {} /\ inbox = {} /\ migrate = {}
      /\ queue = << Plain("AllWaiting"), Plain("RetryAll"), NumbersTo(numbers) >>
  BY DEF Init, StartupQueue
<1>2. \A i \in Elements(todo) \cup Elements(queue) : i.op # "Complete"
  BY <1>1 DEF Elements, Plain, NumbersTo
<1>. QED BY <1>1, <1>2 DEF TakenInv

\* A container on its way to be released is not associated with a live task, and
\* never becomes so: whatever the thread releases, it had been told of, so that no
\* grant can still bring it to a task.  That a resync does not release what is yet
\* to be allocated rests on the heartbeat coming in time (HeartbeatInTime).
THEOREM AMReleasesNoneLive == Spec => []ReleasedNotLive
<1>1. Init => CountsInv /\ TakenInv
  BY InitCounts, InitTaken
<1>2. AMInv /\ AMInv' /\ CountsInv /\ TakenInv /\ [Next]_vars => CountsInv' /\ TakenInv'
  BY NextCounts, NextTaken
<1>3. TakenInv => ReleasedNotLive
  BY DEF TakenInv, ReleasedNotLive, IsLiveAssociated
<1>. QED BY <1>1, <1>2, <1>3, AMInvariance, PTL DEF Spec

=============================================================================
