-------------------------- MODULE RestServerProofs --------------------------
(***************************************************************************)
(* Proofs about RestServer, for every set of requests, users, keys, jobs,  *)
(* clusters and files, however many requests interleave and calls fail.    *)
(***************************************************************************)
EXTENDS RestServer, TLAPS

Rows == [ id : Nat, key : Keys, admin : BOOLEAN, vcs : SUBSET Queues ]
Tokens == [ user : Users, admin : BOOLEAN ]
Frameworks == [ user : Users, by : Requests, execution : { "START", "STOP" } ]
Handlers == [ pc     : { "new", "success", "failure", "password", "upsert", "remove",
                         "queues", "clusters", "submit", "stop", "delete" },
              about  : Users \cup Jobs \cup { None },
              row    : Rows \cup { None },
              new    : Keys \cup (SUBSET Clusters) \cup { None },
              caller : Tokens \cup { None },
              left   : SUBSET Parts,
              done   : SUBSET Requests ]

\* What a handler holds between two of its steps is what its next step needs,
\* and one that was answered with success has no write under way.
HandlerSound(h) ==
    /\ h.pc \in { "password", "upsert", "remove", "queues", "clusters" } => h.about \in Users
    /\ h.pc \in { "password", "upsert" } => h.new \in Keys
    /\ h.pc = "queues" => h.row \in Rows /\ h.new \in SUBSET Clusters
    /\ h.pc = "clusters" => h.new \in SUBSET Queues /\ Default \in h.new
    /\ h.pc = "submit" \/ h.left # {} => h.caller \in Tokens /\ h.about \in Jobs
    /\ h.pc \notin { "submit", "failure" } => h.left = {}

\* A request answered with success stays answered.
HandlersSound ==
    /\ req \in [ Requests -> Handlers ]
    /\ \A r \in Requests : HandlerSound(req[r]) /\ req[r].done \subseteq Answered

\* The rows are as TypeOK says, and the table is a function of the users.
TableSound ==
    /\ users = [ u \in Users |-> users[u] ]
    /\ inserted \in Nat
    /\ \A u \in Users : Exists(u) =>
        /\ users[u] \in [ id : 0 .. inserted, key : Keys, admin : BOOLEAN, vcs : SUBSET Queues ]
        /\ Default \in users[u].vcs
        /\ \A v \in Users \ { u } : Exists(v) /\ users[u].id > 0 => users[v].id # users[u].id
    /\ tokens \subseteq Tokens

\* A file a submission no longer has to write is there, and is not older than
\* the submission.
WrittenCurrent ==
    \A r \in Requests : req[r].pc = "submit" =>
        \A part \in Parts \ req[r].left :
            LET writer == files[req[r].caller.user][req[r].about][part]
            IN  writer # None /\ writer \notin req[r].done

\* The submission of a framework was answered when the framework was put.
PutAnswered == \A j \in Jobs : framework[j] # None => framework[j].by \in Answered

JobsSound ==
    /\ files \in [ Users -> [ Jobs -> [ Parts -> Requests \cup { None } ] ] ]
    /\ framework = [ j \in Jobs |-> framework[j] ]
    /\ \A j \in Jobs : framework[j] # None => framework[j] \in Frameworks
    /\ WrittenCurrent
    /\ PutAnswered
    /\ ContextCurrent

\* The inductive invariant.
IInv ==
    /\ HandlersSound
    /\ TableSound
    /\ JobsSound
    /\ faults \in 0 .. MaxFaults

-----------------------------------------------------------------------------
(* What the conjuncts need of a step *)

\* A handler that moves, before its answer, to a sound state.
Moves(r, h) ==
    /\ req[r].pc # "success"
    /\ req' = [ req EXCEPT ![r] = h ]
    /\ h \in Handlers /\ HandlerSound(h) /\ h.done \subseteq Answered

\* One that moves elsewhere than into the middle of its writes.
MovesOutside(r, h) == Moves(r, h) /\ (h.pc = "submit" => h.left = Parts)

\* A move of one handler keeps what is said of all.
LEMMA MoveKeepsHandlers ==
    ASSUME HandlersSound, NEW r \in Requests, NEW h, Moves(r, h)
    PROVE  HandlersSound' /\ Answered \subseteq Answered'
BY DEF HandlersSound, Moves, Answered

\* A move that writes no file and puts no framework keeps what is said of jobs.
LEMMA MoveKeepsJobs ==
    ASSUME HandlersSound, JobsSound, NEW r \in Requests, NEW h, MovesOutside(r, h),
           UNCHANGED jobVars
    PROVE  JobsSound'
<1>1. files' = files /\ framework' = framework
  BY DEF jobVars
<1>2. /\ \A q \in Requests : q # r => req'[q] = req[q]
      /\ req'[r] = h /\ req[r].pc # "success" /\ Answered \subseteq Answered'
  BY MoveKeepsHandlers DEF MovesOutside, Moves, HandlersSound
<1>3. WrittenCurrent'
  <2>. SUFFICES ASSUME NEW q \in Requests, req'[q].pc = "submit",
                       NEW part \in Parts \ req'[q].left
                PROVE  LET writer == files'[req'[q].caller.user][req'[q].about][part]
                       IN  writer # None /\ writer \notin req'[q].done
    BY DEF WrittenCurrent
  <2>1. CASE q = r
    BY <2>1, <1>2 DEF MovesOutside
  <2>2. CASE q # r
    BY <2>2, <1>1, <1>2 DEF JobsSound, WrittenCurrent
  <2>. QED BY <2>1, <2>2
<1>4. PutAnswered'
  BY <1>1, <1>2 DEF JobsSound, PutAnswered
<1>5. ContextCurrent'
  <2>. SUFFICES ASSUME NEW j \in Jobs, framework[j] # None, NEW part \in Parts
                PROVE  LET writer == files[framework[j].user][j][part]
                       IN  writer # None /\ writer \notin req'[framework[j].by].done
    BY <1>1 DEF ContextCurrent
  <2>1. framework[j].by \in Answered
    BY DEF JobsSound, PutAnswered
  <2>2. req'[framework[j].by] = req[framework[j].by]
    BY <2>1, <1>2 DEF Answered
  <2>. QED BY <2>2 DEF JobsSound, ContextCurrent
<1>. QED BY <1>1, <1>3, <1>4, <1>5 DEF JobsSound

\* A step of the users' service, or one that only begins, answers or fails.
LEMMA MoveKeepsIInv ==
    ASSUME IInv, NEW r \in Requests, NEW h, MovesOutside(r, h), UNCHANGED jobVars,
           TableSound', faults' \in 0 .. MaxFaults
    PROVE  IInv'
BY MoveKeepsHandlers, MoveKeepsJobs DEF IInv, MovesOutside

\* The table is not touched.
LEMMA TableKept ==
    ASSUME TableSound, UNCHANGED userVars
    PROVE  TableSound'
BY DEF TableSound, userVars, Exists

\* A request begins with what it read, or is refused.
LEMMA BeginMoves ==
    ASSUME IInv, NEW r \in Requests, NEW h, Begins(r, h),
           h \in Handlers, HandlerSound(h), h.done \subseteq Answered,
           h.pc = "submit" => h.left = Parts
    PROVE  MovesOutside(r, h)
BY DEF Begins, Moves, MovesOutside

\* A refusal moves.
LEMMA RefusalMoves ==
    ASSUME IInv, NEW r \in Requests, Refused(r)
    PROVE  \E h : MovesOutside(r, h)
<1> DEFINE h == Handler("failure", None, None, None, None, {})
<1>1. h \in Handlers /\ HandlerSound(h) /\ h.done \subseteq Answered
  BY DEF Handler, Handlers, HandlerSound
<1>. QED BY <1>1, BeginMoves DEF Refused, Handler

\* An answer moves; a handler with writes under way is none that answers.
LEMMA AnswerMoves ==
    ASSUME IInv, NEW r \in Requests, Answers(r, "success"), req[r].pc # "success",
           req[r].left = {}
    PROVE  /\ \E h : MovesOutside(r, h)
           /\ r \in Answered' /\ req'[r].done = req[r].done
<1> DEFINE h == [ req[r] EXCEPT !.pc = "success", !.row = None, !.new = None ]
<1>1. req[r] \in Handlers /\ req[r].done \subseteq Answered
  BY DEF IInv, HandlersSound
<1>2. req' = [ req EXCEPT ![r] = h ]
  BY <1>1 DEF Answers, IInv, HandlersSound, Handlers
<1>3. h \in Handlers /\ HandlerSound(h) /\ h.done = req[r].done /\ h.pc = "success"
  BY <1>1 DEF Handlers, HandlerSound
<1>. QED BY <1>1, <1>2, <1>3 DEF Moves, MovesOutside, Answered, IInv, HandlersSound

-----------------------------------------------------------------------------
(* Initially *)

\* The first state satisfies the invariant.
LEMMA InitIInv == Init => IInv
<1>. SUFFICES ASSUME Init PROVE IInv
  OBVIOUS
<1>1. HandlersSound
  <2>1. /\ req = [ r \in Requests |-> NotBegun ]
        /\ NotBegun \in Handlers /\ HandlerSound(NotBegun) /\ NotBegun.done = {}
    BY DEF Init, NotBegun, Handler, Handlers, HandlerSound
  <2>. QED BY <2>1 DEF HandlersSound, NotBegun
<1>2. TableSound
  <2>1. \A u \in Users : Exists(u) => u \in Admins /\ users[u] = Row(0, FirstKey, TRUE, Queues)
    BY DEF Init, Exists
  <2>2. /\ Row(0, FirstKey, TRUE, Queues) \in [ id : 0 .. 0, key : Keys, admin : BOOLEAN,
                                                vcs : SUBSET Queues ]
        /\ Default \in Row(0, FirstKey, TRUE, Queues).vcs
        /\ ~(Row(0, FirstKey, TRUE, Queues).id > 0)
    BY RestAssumption DEF Row
  <2>3. tokens \subseteq Tokens
    <3>1. tokens = { Token(u, TRUE) : u \in Admins }
      BY DEF Init
    <3>2. \A u \in Admins : Token(u, TRUE) \in Tokens
      BY RestAssumption DEF Token, Tokens
    <3>. QED BY <3>1, <3>2
  <2>4. users = [ u \in Users |-> users[u] ] /\ inserted = 0
    BY DEF Init
  <2>. QED BY <2>1, <2>2, <2>3, <2>4 DEF TableSound
<1>3. JobsSound
  <2>1. \A r \in Requests : req[r].pc = "new"
    BY DEF Init, NotBegun, Handler
  <2>. QED
    BY <2>1 DEF Init, JobsSound, WrittenCurrent, PutAnswered, ContextCurrent
<1>. QED BY <1>1, <1>2, <1>3, RestAssumption DEF Init, IInv

-----------------------------------------------------------------------------
(* Users *)

\* Reads, refusals and the listing of the queues leave the table alone.
LEMMA ReadsKeepIInv ==
    ASSUME IInv, NEW r \in Requests, NEW h, MovesOutside(r, h),
           UNCHANGED << jobVars, userVars, faults >>
    PROVE  IInv'
<1>1. UNCHANGED jobVars /\ UNCHANGED userVars /\ faults' = faults
  BY DEF jobVars, userVars
<1>. QED BY <1>1, TableKept, MoveKeepsIInv DEF IInv

\* So does a refusal.
LEMMA RefusalKeepsIInv ==
    ASSUME IInv, NEW r \in Requests, Refused(r), UNCHANGED << jobVars, userVars, faults >>
    PROVE  IInv'
BY RefusalMoves, ReadsKeepIInv

\* And what a request reads of a user is a row, or None.
LEMMA BeginKeepsIInv ==
    ASSUME IInv, NEW r \in Requests, NEW pc \in { "password", "upsert", "remove", "queues" },
           NEW u \in Users, NEW new \in Keys \cup (SUBSET Clusters) \cup { None },
           NEW caller \in Tokens \cup { None },
           pc = "password" => new \in Keys,
           pc = "upsert" => new \in Keys,
           pc = "queues" => Exists(u) /\ new \in SUBSET Clusters,
           Begins(r, Handler(pc, u, users[u], new, caller, {})),
           UNCHANGED << userVars, jobVars, faults >>
    PROVE  IInv'
<1> DEFINE h == Handler(pc, u, users[u], new, caller, {})
<1>1. users[u] \in Rows \cup { None } /\ (Exists(u) => users[u] \in Rows)
  BY DEF IInv, TableSound, Exists, Rows
<1>2. h \in Handlers /\ h.done \subseteq Answered /\ h.pc = pc
  BY <1>1 DEF Handler, Handlers
<1>3. HandlerSound(h)
  BY <1>1 DEF Handler, HandlerSound
<1>4. MovesOutside(r, h)
  BY <1>2, <1>3, BeginMoves
<1>. QED BY <1>4, ReadsKeepIInv DEF userVars, jobVars

\* A login begins and answers at once, and signs a token of the user's row.
LEMMA LoginKeepsIInv ==
    ASSUME IInv, NEW r \in Requests, NEW u \in Users, NEW key \in Keys, Login(r, u, key)
    PROVE  IInv'
<1>1. CASE Exists(u) /\ users[u].key = key
  <2> DEFINE h == Handler("success", u, None, None, None, {})
  <2>1. h \in Handlers /\ HandlerSound(h) /\ h.done \subseteq Answered /\ h.pc = "success"
    BY DEF Handler, Handlers, HandlerSound
  <2>2. MovesOutside(r, h)
    BY <1>1, <2>1, BeginMoves DEF Login
  <2>3. Token(u, users[u].admin) \in Tokens
    BY <1>1 DEF IInv, TableSound, Token, Tokens
  <2>4. TableSound'
    BY <1>1, <2>3 DEF Login, IInv, TableSound, Exists
  <2>. QED BY <2>2, <2>4, MoveKeepsIInv DEF Login, IInv, jobVars
<1>2. CASE ~(Exists(u) /\ users[u].key = key)
  BY <1>2, RefusalKeepsIInv DEF Login, userVars, jobVars
<1>. QED BY <1>1, <1>2

\* The answer of a request that changes the table.
LEMMA TableAnswerKeepsIInv ==
    ASSUME IInv, NEW r \in Requests,
           req[r].pc \in { "password", "upsert", "remove", "clusters", "stop", "delete" },
           Answers(r, "success"), TableSound', UNCHANGED << jobVars, faults >>
    PROVE  IInv'
<1>1. req[r].left = {} /\ req[r].pc # "success"
  BY DEF IInv, HandlersSound, HandlerSound
<1>. QED BY <1>1, AnswerMoves, MoveKeepsIInv DEF IInv, jobVars

\* A row that changes and keeps its id keeps the table.
LEMMA RowsKeepTable ==
    ASSUME TableSound, inserted' = inserted, tokens' = tokens,
           users' = [ u \in Users |-> users'[u] ],
           \A u \in Users :
               \/ users'[u] = users[u]
               \/ /\ Exists(u) /\ users'[u].id = users[u].id
                  /\ users'[u] \in [ id : 0 .. inserted, key : Keys, admin : BOOLEAN, vcs : SUBSET Queues ]
                  /\ Default \in users'[u].vcs
    PROVE  TableSound'
<1>1. ASSUME NEW u \in Users
      PROVE  /\ Exists(u)' => Exists(u) /\ users'[u].id = users[u].id
             /\ Exists(u)' =>
                   /\ users'[u] \in [ id : 0 .. inserted, key : Keys, admin : BOOLEAN, vcs : SUBSET Queues ]
                   /\ Default \in users'[u].vcs
  BY DEF TableSound, Exists
<1>2. ASSUME NEW u \in Users, Exists(u)', NEW v \in Users \ { u }, Exists(v)', users'[u].id > 0
      PROVE  users'[v].id # users'[u].id
  BY <1>1, <1>2 DEF TableSound
<1>. QED BY <1>1, <1>2 DEF TableSound

\* The password that is set is a key; id and clusters of the row stay.
LEMMA WritePasswordKeepsIInv ==
    ASSUME IInv, NEW r \in Requests, WritePassword(r)
    PROVE  IInv'
<1>1. req[r].about \in Users /\ req[r].new \in Keys
  BY DEF IInv, HandlersSound, HandlerSound, WritePassword
<1>2. inserted' = inserted /\ tokens' = tokens
      /\ users' = IF Matches(r) THEN [ users EXCEPT ![req[r].about].key = req[r].new ] ELSE users
  BY DEF WritePassword
<1>3. TableSound /\ users = [ u \in Users |-> users[u] ]
  BY DEF IInv, TableSound
<1>4. users' = [ u \in Users |-> users'[u] ]
  BY <1>1, <1>2, <1>3
<1>5. ASSUME Matches(r)
      PROVE  LET u == req[r].about IN
             /\ Exists(u) /\ users'[u].id = users[u].id
             /\ users'[u] \in [ id : 0 .. inserted, key : Keys, admin : BOOLEAN, vcs : SUBSET Queues ]
             /\ Default \in users'[u].vcs
  <2>1. PICK u \in Users : u = req[r].about
    BY <1>1
  <2>2. PICK x : x = users[u]
    OBVIOUS
  <2>3. /\ x \in [ id : 0 .. inserted, key : Keys, admin : BOOLEAN, vcs : SUBSET Queues ]
        /\ Default \in x.vcs /\ Exists(u)
    BY <1>3, <1>5, <2>1, <2>2 DEF Matches, TableSound
  <2>4. users'[u] = [ x EXCEPT !.key = req[r].new ]
    BY <1>2, <1>3, <1>5, <2>1, <2>2
  <2>5. /\ users'[u] \in [ id : 0 .. inserted, key : Keys, admin : BOOLEAN, vcs : SUBSET Queues ]
        /\ users'[u].id = x.id /\ Default \in users'[u].vcs
    BY <1>1, <2>3, <2>4
  <2>. QED BY <2>1, <2>2, <2>3, <2>5
<1>6. \A u \in Users : u # req[r].about \/ ~Matches(r) => users'[u] = users[u]
  BY <1>2, <1>3
<1>7. TableSound'
  BY <1>2, <1>3, <1>4, <1>5, <1>6, RowsKeepTable
<1>. QED BY <1>7, TableAnswerKeepsIInv DEF WritePassword

\* A row that is added has an id above all others, one that is set keeps its own.
LEMMA UpsertKeepsIInv ==
    ASSUME IInv, NEW r \in Requests, Upsert(r)
    PROVE  IInv'
<1> DEFINE u == req[r].about
           id == IF Exists(u) THEN users[u].id ELSE inserted + 1
           admin == IF req[r].row = None THEN FALSE ELSE req[r].row.admin
<1>1. u \in Users /\ req[r].new \in Keys /\ req[r].row \in Rows \cup { None }
  BY DEF IInv, HandlersSound, HandlerSound, Handlers, Upsert
<1>2. admin \in BOOLEAN
  BY <1>1 DEF Rows
<1>3. /\ users' = [ users EXCEPT ![u] = Row(id, req[r].new, admin, { Default }) ]
      /\ inserted' = IF Exists(u) THEN inserted ELSE inserted + 1
      /\ tokens' = tokens
  BY DEF Upsert
<1>4. inserted \in Nat /\ inserted' \in Nat /\ inserted <= inserted' /\ id \in 0 .. inserted'
  BY <1>1, <1>3 DEF IInv, TableSound
<1>5. users'[u] = Row(id, req[r].new, admin, { Default })
      /\ \A v \in Users \ { u } : users'[v] = users[v]
  BY <1>1, <1>3 DEF IInv, TableSound
<1>6. \A v \in Users \ { u } : Exists(v) => users[v].id # id \/ id = 0
  BY <1>1, <1>4 DEF IInv, TableSound
<1>7. TableSound'
  <2>1. ASSUME NEW v \in Users, Exists(v)'
        PROVE  /\ users'[v] \in [ id : 0 .. inserted', key : Keys, admin : BOOLEAN,
                                  vcs : SUBSET Queues ]
               /\ Default \in users'[v].vcs
    <3>1. CASE v = u
      <4>1. { Default } \in SUBSET Queues
        BY RestAssumption
      <4>2. Row(id, req[r].new, admin, { Default })
              \in [ id : 0 .. inserted', key : Keys, admin : BOOLEAN, vcs : SUBSET Queues ]
        BY <1>1, <1>2, <1>4, <4>1 DEF Row
      <4>3. Default \in Row(id, req[r].new, admin, { Default }).vcs
        BY DEF Row
      <4>. QED BY <3>1, <1>5, <4>2, <4>3
    <3>2. CASE v # u
      <4>1. Exists(v) /\ users'[v] = users[v]
        BY <3>2, <1>5, <2>1 DEF Exists
      <4>2. /\ users[v] \in [ id : 0 .. inserted, key : Keys, admin : BOOLEAN,
                              vcs : SUBSET Queues ]
            /\ Default \in users[v].vcs
        BY <4>1 DEF IInv, TableSound
      <4>3. 0 .. inserted \subseteq 0 .. inserted'
        BY <1>4
      <4>4. users[v] \in [ id : 0 .. inserted', key : Keys, admin : BOOLEAN,
                           vcs : SUBSET Queues ]
        BY <4>2, <4>3
      <4>. QED BY <4>1, <4>2, <4>4
    <3>. QED BY <3>1, <3>2
  <2>2. ASSUME NEW v \in Users, Exists(v)', NEW w \in Users \ { v }, Exists(w)',
               users'[v].id > 0
        PROVE  users'[w].id # users'[v].id
    <3>1. CASE v = u
      BY <3>1, <1>5, <1>6, <2>2 DEF Row, Exists
    <3>2. CASE w = u
      BY <3>2, <1>5, <1>6, <2>2 DEF Row, Exists
    <3>3. CASE v # u /\ w # u
      BY <3>3, <1>5, <2>2 DEF IInv, TableSound, Exists
    <3>. QED BY <3>1, <3>2, <3>3
  <2>3. users' = [ v \in Users |-> users'[v] ]
    BY <1>3 DEF IInv, TableSound
  <2>. QED BY <2>1, <2>2, <2>3, <1>3, <1>4 DEF IInv, TableSound
<1>. QED BY <1>7, TableAnswerKeepsIInv DEF Upsert

\* The removal of a row keeps the others.
LEMMA RemoveUserKeepsIInv ==
    ASSUME IInv, NEW r \in Requests, RemoveUser(r)
    PROVE  IInv'
<1>1. req[r].about \in Users
  BY DEF IInv, HandlersSound, HandlerSound, RemoveUser
<1>2. TableSound'
  BY <1>1 DEF RemoveUser, Matches, IInv, TableSound, Exists
<1>. QED BY <1>2, TableAnswerKeepsIInv DEF RemoveUser

\* The clusters that are set are queues YARN knows, with the default one.
LEMMA WriteClustersKeepsIInv ==
    ASSUME IInv, NEW r \in Requests, WriteClusters(r)
    PROVE  IInv'
<1>1. req[r].about \in Users /\ req[r].new \in SUBSET Queues /\ Default \in req[r].new
  BY DEF IInv, HandlersSound, HandlerSound, WriteClusters
<1>2. inserted' = inserted /\ tokens' = tokens
      /\ users' = IF Matches(r) THEN [ users EXCEPT ![req[r].about].vcs = req[r].new ] ELSE users
  BY DEF WriteClusters
<1>3. TableSound /\ users = [ u \in Users |-> users[u] ]
  BY DEF IInv, TableSound
<1>4. users' = [ u \in Users |-> users'[u] ]
  BY <1>1, <1>2, <1>3
<1>5. ASSUME Matches(r)
      PROVE  LET u == req[r].about IN
             /\ Exists(u) /\ users'[u].id = users[u].id
             /\ users'[u] \in [ id : 0 .. inserted, key : Keys, admin : BOOLEAN, vcs : SUBSET Queues ]
             /\ Default \in users'[u].vcs
  <2>1. PICK u \in Users : u = req[r].about
    BY <1>1
  <2>2. PICK x : x = users[u]
    OBVIOUS
  <2>3. /\ x \in [ id : 0 .. inserted, key : Keys, admin : BOOLEAN, vcs : SUBSET Queues ]
        /\ Default \in x.vcs /\ Exists(u)
    BY <1>3, <1>5, <2>1, <2>2 DEF Matches, TableSound
  <2>4. users'[u] = [ x EXCEPT !.vcs = req[r].new ]
    BY <1>2, <1>3, <1>5, <2>1, <2>2
  <2>5. /\ users'[u] \in [ id : 0 .. inserted, key : Keys, admin : BOOLEAN, vcs : SUBSET Queues ]
        /\ users'[u].id = x.id /\ Default \in users'[u].vcs
    BY <1>1, <2>3, <2>4
  <2>. QED BY <2>1, <2>2, <2>3, <2>5
<1>6. \A u \in Users : u # req[r].about \/ ~Matches(r) => users'[u] = users[u]
  BY <1>2, <1>3
<1>7. TableSound'
  BY <1>2, <1>3, <1>4, <1>5, <1>6, RowsKeepTable
<1>. QED BY <1>7, TableAnswerKeepsIInv DEF WriteClusters

\* What is asked is checked against the queues, and the default one is added.
LEMMA ListQueuesKeepsIInv ==
    ASSUME IInv, NEW r \in Requests, ListQueues(r)
    PROVE  IInv'
<1> DEFINE asked == IF req[r].row.admin THEN Queues ELSE req[r].new
<1>1. /\ req[r] \in Handlers /\ HandlerSound(req[r]) /\ req[r].done \subseteq Answered
      /\ req[r].about \in Users /\ req[r].left = {}
  BY DEF IInv, HandlersSound, HandlerSound, ListQueues
<1>2. CASE asked \subseteq Queues
  <2> DEFINE h == [ req[r] EXCEPT !.pc = "clusters", !.new = asked \cup { Default } ]
  <2>1. asked \cup { Default } \in SUBSET Queues /\ asked \cup { Default } \in SUBSET Clusters
    BY <1>2, RestAssumption
  <2>2. h \in Handlers /\ HandlerSound(h) /\ h.done = req[r].done /\ h.pc = "clusters"
    BY <1>1, <2>1 DEF Handlers, HandlerSound
  <2>3. MovesOutside(r, h)
    BY <1>1, <1>2, <2>2 DEF MovesOutside, Moves, ListQueues
  <2>. QED BY <2>3, ReadsKeepIInv DEF ListQueues, userVars, jobVars
<1>3. CASE ~(asked \subseteq Queues)
  <2> DEFINE h == [ req[r] EXCEPT !.pc = "failure" ]
  <2>1. h \in Handlers /\ HandlerSound(h) /\ h.done = req[r].done /\ h.pc = "failure"
    BY <1>1 DEF Handlers, HandlerSound
  <2>2. MovesOutside(r, h)
    BY <1>1, <1>3, <2>1 DEF MovesOutside, Moves, ListQueues
  <2>. QED BY <2>2, ReadsKeepIInv DEF ListQueues, userVars, jobVars
<1>. QED BY <1>2, <1>3

\* Every step of a request of the users' service.
LEMMA UserStepKeepsIInv ==
    ASSUME IInv, NEW r \in Requests, UserStep(r)
    PROVE  IInv'
<1>1. ASSUME NEW u \in Users, NEW key \in Keys, Login(r, u, key)
      PROVE  IInv'
  BY <1>1, LoginKeepsIInv
<1>2. ASSUME NEW u \in Users, NEW old \in Keys, NEW new \in Keys,
             ReadForPassword(r, u, old, new)
      PROVE  IInv'
  <2>1. CASE Exists(u) /\ users[u].key = old
    BY <1>2, <2>1, BeginKeepsIInv DEF ReadForPassword
  <2>2. CASE ~(Exists(u) /\ users[u].key = old)
    BY <1>2, <2>2, RefusalKeepsIInv DEF ReadForPassword, userVars, jobVars
  <2>. QED BY <2>1, <2>2
<1>3. ASSUME NEW t \in tokens, NEW u \in Users, NEW key \in Keys, ReadForUpsert(r, t, u, key)
      PROVE  IInv'
  <2>0. t \in Tokens
    BY DEF IInv, TableSound
  <2>1. CASE t.admin
    BY <1>3, <2>0, <2>1, BeginKeepsIInv DEF ReadForUpsert
  <2>2. CASE ~t.admin
    BY <1>3, <2>2, RefusalKeepsIInv DEF ReadForUpsert, userVars, jobVars
  <2>. QED BY <2>1, <2>2
<1>4. ASSUME NEW t \in tokens, NEW u \in Users, ReadForRemoval(r, t, u)
      PROVE  IInv'
  <2>0. t \in Tokens
    BY DEF IInv, TableSound
  <2>1. CASE t.admin /\ Exists(u) /\ ~users[u].admin
    BY <1>4, <2>0, <2>1, BeginKeepsIInv DEF ReadForRemoval
  <2>2. CASE ~(t.admin /\ Exists(u) /\ ~users[u].admin)
    BY <1>4, <2>2, RefusalKeepsIInv DEF ReadForRemoval, userVars, jobVars
  <2>. QED BY <2>1, <2>2
<1>5. ASSUME NEW t \in tokens, NEW u \in Users, NEW vcs \in SUBSET Clusters,
             ReadForClusters(r, t, u, vcs)
      PROVE  IInv'
  <2>0. t \in Tokens
    BY DEF IInv, TableSound
  <2>1. CASE t.admin /\ Exists(u)
    BY <1>5, <2>0, <2>1, BeginKeepsIInv DEF ReadForClusters
  <2>2. CASE ~(t.admin /\ Exists(u))
    BY <1>5, <2>2, RefusalKeepsIInv DEF ReadForClusters, userVars, jobVars
  <2>. QED BY <2>1, <2>2
<1>. QED
  BY <1>1, <1>2, <1>3, <1>4, <1>5, WritePasswordKeepsIInv, UpsertKeepsIInv,
     RemoveUserKeepsIInv, ListQueuesKeepsIInv, WriteClustersKeepsIInv DEF UserStep

-----------------------------------------------------------------------------
(* Jobs *)

\* A submission begins with all its files to be written, and with the requests
\* answered until then; the owner that is compared is not kept.
LEMMA JobBeginKeepsIInv ==
    ASSUME IInv, NEW r \in Requests, NEW t \in tokens, NEW j \in Jobs,
           \/ SubmitJob(r, t, j)
           \/ \E pc \in { "stop", "delete" } : ReadForJob(r, t, j, pc)
    PROVE  IInv'
<1>0. t \in Tokens /\ Answered \in SUBSET Requests
  BY DEF IInv, TableSound, Answered
<1>1. CASE SubmitJob(r, t, j)
  <2> DEFINE h == [ Handler("submit", j, None, None, t, Parts) EXCEPT !.done = Answered ]
  <2>1. h \in Handlers /\ HandlerSound(h) /\ h.done \subseteq Answered /\ h.left = Parts
    BY <1>0 DEF Handler, Handlers, HandlerSound
  <2>2. MovesOutside(r, h)
    BY <1>1, <2>1, BeginMoves DEF SubmitJob
  <2>. QED BY <1>1, <2>2, ReadsKeepIInv DEF SubmitJob, userVars, jobVars
<1>2. ASSUME NEW pc \in { "stop", "delete" }, ReadForJob(r, t, j, pc)
      PROVE  IInv'
  <2> DEFINE h == Handler(pc, j, None, None, t, {})
             owned == framework[j] # None /\ (framework[j].user = t.user \/ t.admin)
  <2>1. h \in Handlers /\ HandlerSound(h) /\ h.done \subseteq Answered /\ h.pc = pc
    BY <1>0 DEF Handler, Handlers, HandlerSound
  <2>2. CASE owned
    <3>1. MovesOutside(r, h)
      BY <1>2, <2>1, <2>2, BeginMoves DEF ReadForJob
    <3>. QED BY <1>2, <3>1, ReadsKeepIInv DEF ReadForJob, userVars, jobVars
  <2>3. CASE ~owned
    BY <1>2, <2>3, RefusalKeepsIInv DEF ReadForJob, userVars, jobVars
  <2>. QED BY <2>2, <2>3
<1>. QED BY <1>1, <1>2

\* A write of a request that is under way touches no set of answered requests:
\* where it replaces another's file, the file stays a current one.
LEMMA WritePartKeepsIInv ==
    ASSUME IInv, NEW r \in Requests, NEW part \in Parts, WritePart(r, part)
    PROVE  IInv'
<1> DEFINE h == [ req[r] EXCEPT !.left = @ \ { part } ]
           owner == req[r].caller.user
           job == req[r].about
<1>1. /\ req[r] \in Handlers /\ HandlerSound(req[r]) /\ req[r].done \subseteq Answered
      /\ part \in req[r].left
  BY DEF IInv, HandlersSound, WritePart
<1>2. owner \in Users /\ job \in Jobs /\ req[r].pc \in { "submit", "failure" }
  BY <1>1 DEF HandlerSound, Tokens
<1>3. h \in Handlers /\ HandlerSound(h) /\ h.done = req[r].done /\ h.pc = req[r].pc
  BY <1>1 DEF Handlers, HandlerSound
<1>4. req' = [ req EXCEPT ![r] = h ]
  BY <1>1 DEF WritePart, IInv, HandlersSound, Handlers
<1>5. Moves(r, h)
  BY <1>1, <1>2, <1>3, <1>4 DEF Moves
<1>6. /\ HandlersSound'
      /\ \A q \in Requests : q # r => req'[q] = req[q]
      /\ req'[r] = h
  BY <1>4, <1>5, MoveKeepsHandlers DEF IInv, HandlersSound
<1>7. \A q \in Requests : req'[q].pc = req[q].pc /\ req'[q].done = req[q].done
                          /\ r \notin req[q].done
  BY <1>2, <1>3, <1>6 DEF IInv, HandlersSound, Answered
<1>8. TableSound'
  BY TableKept DEF WritePart, userVars, IInv
<1>9. /\ files' \in [ Users -> [ Jobs -> [ Parts -> Requests \cup { None } ] ] ]
      /\ files'[owner][job][part] = r
      /\ \A u \in Users, j \in Jobs, p \in Parts :
            files'[u][j][p] = files[u][j][p] \/ files'[u][j][p] = r
  <2>1. /\ files[owner] \in [ Jobs -> [ Parts -> Requests \cup { None } ] ]
        /\ files[owner][job] \in [ Parts -> Requests \cup { None } ]
    BY <1>2 DEF IInv, JobsSound
  <2>2. files' = [ files EXCEPT ![owner] =
                   [ files[owner] EXCEPT ![job] = [ files[owner][job] EXCEPT ![part] = r ] ] ]
    BY <1>2, <2>1 DEF WritePart, IInv, JobsSound
  <2>3. files \in [ Users -> [ Jobs -> [ Parts -> Requests \cup { None } ] ] ]
    BY DEF IInv, JobsSound
  <2>4. [ files[owner][job] EXCEPT ![part] = r ] \in [ Parts -> Requests \cup { None } ]
    BY <2>1
  <2>5. [ files[owner] EXCEPT ![job] = [ files[owner][job] EXCEPT ![part] = r ] ]
          \in [ Jobs -> [ Parts -> Requests \cup { None } ] ]
    BY <2>1, <2>4
  <2>6. files' \in [ Users -> [ Jobs -> [ Parts -> Requests \cup { None } ] ] ]
    BY <2>2, <2>3, <2>5
  <2>7. files'[owner][job][part] = r
    BY <1>2, <2>1, <2>2, <2>3
  <2>8. ASSUME NEW u \in Users, NEW j \in Jobs, NEW p \in Parts
        PROVE  files'[u][j][p] = files[u][j][p] \/ files'[u][j][p] = r
    BY <1>2, <2>1, <2>2, <2>3
  <2>. QED BY <2>6, <2>7, <2>8
<1>10. WrittenCurrent'
  <2>. SUFFICES ASSUME NEW q \in Requests, req'[q].pc = "submit",
                       NEW p \in Parts \ req'[q].left
                PROVE  LET writer == files'[req'[q].caller.user][req'[q].about][p]
                       IN  writer # None /\ writer \notin req'[q].done
    BY DEF WrittenCurrent
  <2>1. req'[q].caller.user = req[q].caller.user /\ req'[q].about = req[q].about
    BY <1>1, <1>6 DEF Handlers
  <2>2. req[q].caller.user \in Users /\ req[q].about \in Jobs
    BY <1>7 DEF IInv, HandlersSound, HandlerSound, Tokens
  <2>3. CASE files'[req[q].caller.user][req[q].about][p] = r
    BY <2>1, <2>3, <1>7, RestAssumption
  <2>4. CASE files'[req[q].caller.user][req[q].about][p] # r
    <3>1. files'[req[q].caller.user][req[q].about][p] = files[req[q].caller.user][req[q].about][p]
      BY <2>2, <2>4, <1>9
    <3>2. p \notin req[q].left
      BY <1>1, <1>6, <1>9, <2>4 DEF Handlers
    <3>. QED BY <2>1, <3>1, <3>2, <1>7 DEF IInv, JobsSound, WrittenCurrent
  <2>. QED BY <2>3, <2>4
<1>11. framework' = framework
  BY DEF WritePart
<1>12. PutAnswered'
  BY <1>7, <1>11 DEF IInv, JobsSound, PutAnswered, Answered
<1>13. ContextCurrent'
  <2>. SUFFICES ASSUME NEW j \in Jobs, framework[j] # None, NEW p \in Parts
                PROVE  LET writer == files'[framework[j].user][j][p]
                       IN  writer # None /\ writer \notin req'[framework[j].by].done
    BY <1>11 DEF ContextCurrent
  <2>1. framework[j].user \in Users /\ framework[j].by \in Requests
    BY DEF IInv, JobsSound, Frameworks
  <2>2. CASE files'[framework[j].user][j][p] = r
    BY <2>1, <2>2, <1>7, RestAssumption
  <2>3. CASE files'[framework[j].user][j][p] = files[framework[j].user][j][p]
    BY <2>1, <2>3, <1>7 DEF IInv, JobsSound, ContextCurrent
  <2>. QED BY <2>1, <2>2, <2>3, <1>9
<1>. QED
  BY <1>6, <1>8, <1>9, <1>10, <1>11, <1>12, <1>13 DEF IInv, JobsSound, WritePart

\* A request that fails keeps the writes that are under way, or has none.
LEMMA FailureKeepsIInv ==
    ASSUME IInv, NEW r \in Requests, NEW left \in SUBSET req[r].left,
           req[r].pc \notin { "success" }, Fault,
           req' = [ req EXCEPT ![r] = [ req[r] EXCEPT !.pc = "failure", !.left = left ] ],
           UNCHANGED << userVars, jobVars >>
    PROVE  IInv'
<1> DEFINE h == [ req[r] EXCEPT !.pc = "failure", !.left = left ]
<1>1. req[r] \in Handlers /\ HandlerSound(req[r]) /\ req[r].done \subseteq Answered
  BY DEF IInv, HandlersSound
<1>2. h \in Handlers /\ HandlerSound(h) /\ h.done = req[r].done /\ h.pc = "failure"
  BY <1>1, ZenonT(60) DEF Handlers, HandlerSound
<1>3. MovesOutside(r, h)
  BY <1>1, <1>2 DEF MovesOutside, Moves
<1>4. faults' \in 0 .. MaxFaults
  BY RestAssumption DEF Fault, IInv
<1>. QED BY <1>3, <1>4, TableKept, MoveKeepsIInv DEF IInv

\* The framework is put when the last file is written: all its files are there.
LEMMA PutFrameworkKeepsIInv ==
    ASSUME IInv, NEW r \in Requests, PutFramework(r)
    PROVE  IInv'
<1> DEFINE owner == req[r].caller.user
           job == req[r].about
<1>1. /\ req[r] \in Handlers /\ HandlerSound(req[r])
      /\ req[r].pc = "submit" /\ req[r].left = {}
      /\ owner \in Users /\ job \in Jobs
  BY DEF IInv, HandlersSound, HandlerSound, PutFramework, ReadyToPut, Tokens
<1>2. PICK h : MovesOutside(r, h)
  BY <1>1, AnswerMoves DEF PutFramework
<1>3. r \in Answered' /\ req'[r].done = req[r].done
  BY <1>1, AnswerMoves DEF PutFramework
<1>4. /\ HandlersSound' /\ Answered \subseteq Answered'
      /\ \A q \in Requests : q # r => req'[q] = req[q]
  BY <1>2, MoveKeepsHandlers DEF IInv, HandlersSound, MovesOutside, Moves
<1>5. /\ framework' = [ framework EXCEPT ![job] = Framework(owner, r, "START") ]
      /\ files' = files
  BY DEF PutFramework
<1>6. /\ framework' = [ j \in Jobs |-> framework'[j] ]
      /\ framework'[job] = Framework(owner, r, "START")
      /\ \A j \in Jobs \ { job } : framework'[j] = framework[j]
  BY <1>1, <1>5 DEF IInv, JobsSound
<1>7. Framework(owner, r, "START") \in Frameworks
  BY <1>1 DEF Framework, Frameworks
<1>8. WrittenCurrent'
  BY <1>3, <1>4, <1>5 DEF IInv, JobsSound, WrittenCurrent, Answered
<1>9. PutAnswered'
  BY <1>3, <1>4, <1>6 DEF IInv, JobsSound, PutAnswered, Framework
<1>10. ContextCurrent'
  <2>. SUFFICES ASSUME NEW j \in Jobs, framework'[j] # None, NEW p \in Parts
                PROVE  LET writer == files[framework'[j].user][j][p]
                       IN  writer # None /\ writer \notin req'[framework'[j].by].done
    BY <1>5 DEF ContextCurrent
  <2>1. CASE j = job
    BY <2>1, <1>1, <1>3, <1>6 DEF IInv, JobsSound, WrittenCurrent, Framework
  <2>2. CASE j # job
    <3>1. framework'[j] = framework[j] /\ framework[j].by \in Answered
      BY <2>2, <1>6 DEF IInv, JobsSound, PutAnswered
    <3>2. req'[framework[j].by] = req[framework[j].by]
      BY <3>1, <1>1, <1>4 DEF Answered
    <3>. QED BY <3>1, <3>2 DEF IInv, JobsSound, ContextCurrent
  <2>. QED BY <2>1, <2>2
<1>11. JobsSound'
  BY <1>5, <1>6, <1>7, <1>8, <1>9, <1>10 DEF IInv, JobsSound
<1>12. TableSound' /\ faults' = faults
  BY TableKept DEF PutFramework, IInv, userVars
<1>. QED BY <1>4, <1>11, <1>12 DEF IInv

\* Another framework, or a stopped one, keeps user and submission.
LEMMA StopDeleteKeepIInv ==
    ASSUME IInv, NEW r \in Requests, StopJob(r) \/ DeleteJob(r)
    PROVE  IInv'
<1>1. /\ req[r].pc \in { "stop", "delete" } /\ req[r].left = {}
      /\ Answers(r, "success") /\ UNCHANGED << userVars, files, faults >>
  BY DEF IInv, HandlersSound, HandlerSound, StopJob, DeleteJob
<1>2. PICK h : MovesOutside(r, h)
  BY <1>1, AnswerMoves
<1>3. /\ HandlersSound' /\ Answered \subseteq Answered' /\ r \in Answered'
      /\ \A q \in Requests : q # r => req'[q] = req[q]
      /\ \A q \in Requests : req'[q].done = req[q].done
  BY <1>1, <1>2, MoveKeepsHandlers, AnswerMoves DEF IInv, HandlersSound, MovesOutside, Moves
<1>4. /\ framework' = [ j \in Jobs |-> framework'[j] ]
      /\ \A j \in Jobs : framework'[j] # None =>
            /\ framework[j] # None /\ framework'[j] \in Frameworks
            /\ framework'[j].user = framework[j].user /\ framework'[j].by = framework[j].by
  <2> DEFINE job == req[r].about
  <2>1. CASE StopJob(r) /\ framework[job] # None /\ job \in Jobs
    <3>1. framework' = [ framework EXCEPT ![job].execution = "STOP" ]
      BY <2>1 DEF StopJob
    <3>. QED BY <2>1, <3>1 DEF IInv, JobsSound, Frameworks
  <2>2. CASE DeleteJob(r)
    BY <2>2 DEF DeleteJob, IInv, JobsSound
  <2>3. CASE StopJob(r) /\ ~(framework[job] # None /\ job \in Jobs)
    <3>1. framework' = framework
      BY <2>3 DEF StopJob, IInv, JobsSound
    <3>. QED BY <3>1 DEF IInv, JobsSound
  <2>. QED BY <2>1, <2>2, <2>3
<1>5. WrittenCurrent'
  BY <1>1, <1>3 DEF IInv, JobsSound, WrittenCurrent, Answered
<1>6. PutAnswered'
  BY <1>3, <1>4 DEF IInv, JobsSound, PutAnswered
<1>7. ContextCurrent'
  BY <1>1, <1>3, <1>4 DEF IInv, JobsSound, ContextCurrent, Frameworks
<1>8. JobsSound'
  BY <1>1, <1>4, <1>5, <1>6, <1>7 DEF IInv, JobsSound
<1>. QED BY <1>1, <1>3, <1>8, TableKept DEF IInv

\* Every step of a request of the jobs' service.
LEMMA JobStepKeepsIInv ==
    ASSUME IInv, NEW r \in Requests, JobStep(r)
    PROVE  IInv'
<1>1. ASSUME NEW part \in Parts, PartFails(r, part)
      PROVE  IInv'
  <2>1. /\ req[r].left \ { part } \in SUBSET req[r].left
        /\ req[r].pc # "success" /\ req[r] \in Handlers
    BY <1>1 DEF PartFails, IInv, HandlersSound, HandlerSound
  <2>2. req' = [ req EXCEPT ![r] = [ req[r] EXCEPT !.pc = "failure",
                                                   !.left = req[r].left \ { part } ] ]
    BY <1>1, <2>1 DEF PartFails, IInv, HandlersSound, Handlers
  <2>. QED BY <1>1, <2>1, <2>2, FailureKeepsIInv DEF PartFails
<1>2. ASSUME PutRefused(r)
      PROVE  IInv'
  BY <1>2, AnswerMoves, ReadsKeepIInv DEF PutRefused, ReadyToPut, userVars, jobVars
<1>. QED
  BY <1>1, <1>2, JobBeginKeepsIInv, WritePartKeepsIInv, PutFrameworkKeepsIInv,
     StopDeleteKeepIInv DEF JobStep

-----------------------------------------------------------------------------
\* A failed call ends its request, a restart all that have begun and are not
\* answered.
LEMMA RestartKeepsIInv == ASSUME IInv, Restart PROVE IInv'
<1>1. \A r \in Requests :
        /\ req'[r].done = req[r].done
        /\ \/ req'[r] = req[r]
           \/ /\ req[r].pc # "success"
              /\ req'[r] \in Handlers /\ HandlerSound(req'[r]) /\ req'[r].pc = "failure"
  <2>. TAKE r \in Requests
  <2>1. req[r] \in Handlers /\ HandlerSound(req[r])
    BY DEF IInv, HandlersSound
  <2>2. CASE req[r].pc \in { "new", "success" }
    BY <2>2 DEF Restart
  <2>3. CASE req[r].pc \notin { "new", "success" }
    <3>1. req'[r] = [ req[r] EXCEPT !.pc = "failure", !.left = {} ]
      BY <2>3 DEF Restart
    <3>. QED BY <2>1, <2>3, <3>1 DEF Handlers, HandlerSound
  <2>. QED BY <2>2, <2>3
<1>2. HandlersSound' /\ Answered' = Answered
  <2>1. req' \in [ Requests -> Handlers ]
    BY <1>1 DEF Restart, IInv, HandlersSound
  <2>. QED BY <1>1, <2>1 DEF IInv, HandlersSound, Answered
<1>3. files' = files /\ framework' = framework
  BY DEF Restart, jobVars
<1>4. WrittenCurrent'
  BY <1>1, <1>3 DEF IInv, JobsSound, WrittenCurrent
<1>5. PutAnswered' /\ ContextCurrent'
  BY <1>1, <1>2, <1>3 DEF IInv, JobsSound, PutAnswered, ContextCurrent, Frameworks
<1>6. faults' \in 0 .. MaxFaults
  <2>1. Fault /\ faults \in 0 .. MaxFaults
    BY DEF Restart, IInv
  <2>. QED BY <2>1, RestAssumption DEF Fault
<1>. QED BY <1>2, <1>3, <1>4, <1>5, <1>6, TableKept DEF IInv, JobsSound, Restart

\* No step leaves the invariant.
LEMMA NextIInv == IInv /\ [Next]_vars => IInv'
<1>. SUFFICES ASSUME IInv, [Next]_vars PROVE IInv'
  OBVIOUS
<1>1. ASSUME NEW r \in Requests, CallFails(r)
      PROVE  IInv'
  <2>1. req' = [ req EXCEPT ![r] = [ req[r] EXCEPT !.pc = "failure", !.left = {} ] ]
    BY <1>1 DEF CallFails, IInv, HandlersSound, Handlers
  <2>. QED BY <1>1, <2>1, FailureKeepsIInv DEF CallFails
<1>2. CASE UNCHANGED vars
  <2>1. /\ UNCHANGED << users, inserted, tokens >> /\ UNCHANGED << files, framework >>
        /\ req' = req /\ faults' = faults
    BY <1>2 DEF vars
  <2>. QED
    BY <2>1, TableKept DEF IInv, HandlersSound, Answered, JobsSound, WrittenCurrent,
       PutAnswered, ContextCurrent, userVars
<1>. QED BY <1>1, <1>2, RestartKeepsIInv, UserStepKeepsIInv, JobStepKeepsIInv DEF Next

\* The invariant holds of every behaviour.
LEMMA Invariance == Spec => []IInv
BY InitIInv, NextIInv, PTL DEF Spec

-----------------------------------------------------------------------------
(* The theorems *)

\* The rows have ids of their own, the default cluster and none YARN does not
\* know, whatever reads and writes of requests interleave (service/user.js).
THEOREM TypesHold == Spec => []TypeOK
<1>1. IInv => TypeOK
  BY DEF IInv, TypeOK, HandlersSound, Handlers, TableSound, JobsSound, Tokens, Frameworks
<1>. QED BY <1>1, Invariance, PTL

\* The files of a framework are there when it is put and stay there, and none
\* is older than its submission (service/job.js _prepareJobContext, putJob).
THEOREM ContextStaysCurrent == Spec => []ContextCurrent
<1>1. IInv => ContextCurrent
  BY DEF IInv, JobsSound
<1>. QED BY <1>1, Invariance, PTL

\* A step that ends a change of a password and changes a user changes the row
\* that was read, with the password that was compared (updatePassword).
THEOREM PasswordsFollow == Spec => PasswordFollows
<1> DEFINE Follows ==
        \A r \in Requests, u \in Users :
            req[r].pc = "password" /\ req'[r].pc # "password" /\ users'[u] # users[u] =>
                /\ u = req[r].about /\ Exists(u) /\ users[u].id = req[r].row.id
                /\ users[u].key = req[r].row.key
<1>1. IInv /\ [Next]_vars => [Follows]_vars
  <2>. SUFFICES ASSUME IInv, Next,
                       NEW r \in Requests, NEW u \in Users, req[r].pc = "password",
                       req'[r].pc # "password", users'[u] # users[u]
                PROVE  /\ u = req[r].about /\ Exists(u) /\ users[u].id = req[r].row.id
                       /\ users[u].key = req[r].row.key
    OBVIOUS
  <2>1. WritePassword(r)
    <3>1. PICK q \in Requests : UserStep(q)
      BY DEF Next, Restart, JobStep, CallFails, SubmitJob, ReadForJob, WritePart, PartFails,
             PutFramework, PutRefused, StopJob, DeleteJob, userVars
    <3>2. q = r
      BY <3>1 DEF UserStep, Login, ReadForPassword, ReadForUpsert, ReadForRemoval,
                  ReadForClusters, WritePassword, Upsert, RemoveUser, ListQueues,
                  WriteClusters, Begins, Refused, Answers, IInv, HandlersSound
    <3>. QED
      BY <3>1, <3>2 DEF UserStep, Login, ReadForPassword, ReadForUpsert, ReadForRemoval,
                  ReadForClusters, Upsert, RemoveUser, ListQueues, WriteClusters, userVars
  <2>2. users' = [ users EXCEPT ![req[r].about].key = req[r].new ] /\ Matches(r)
    BY <2>1 DEF WritePassword
  <2>3. u = req[r].about
    BY <2>2 DEF IInv, TableSound
  <2>. QED BY <2>2, <2>3 DEF Matches
<1>2. Spec => [][Follows]_vars
  BY <1>1, Invariance, PTL DEF Spec
<1>. QED BY <1>2 DEF PasswordFollows
=============================================================================
