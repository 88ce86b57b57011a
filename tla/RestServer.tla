----------------------------- MODULE RestServer -----------------------------
(***************************************************************************)
(* The REST server (src/rest-server/app): its handlers interleave at every *)
(* `await`.  Each request is served once: what it read stays with it while *)
(* others change the users' table, the files of a job on HDFS and the      *)
(* frameworks of the launcher.                                             *)
(*                                                                         *)
(* The repository does not create the users' table: it is taken to hold a  *)
(* name once.  `modifyTime`, which `where: row` compares too, is left out, *)
(* and so are calls with an execution type other than STOP.                *)
(***************************************************************************)
EXTENDS Integers, FiniteSets

CONSTANTS
    Requests,   \* the requests that are served
    Users, Keys, Jobs,
    Clusters,   \* names of virtual clusters a caller gives
    Queues,     \* those YARN knows
    Default,    \* the queue `default`
    Parts,      \* files of a job: its config, its description, its scripts
    Admins,     \* users that are administrators at first
    FirstKey,   \* the key of the users there are at first
    MaxFaults,  \* failures of HDFS, the launcher, YARN or the server
    None

ASSUME RestAssumption ==
    /\ Default \in Queues /\ Queues \subseteq Clusters
    /\ Admins \subseteq Users /\ FirstKey \in Keys /\ MaxFaults \in Nat
    /\ None \notin Requests

VARIABLES
    users,      \* users[u]: the row of u in the table, None when there is none
    inserted,   \* rows inserted (the last id of the table)
    tokens,     \* what was signed at a login: the user and whether an admin
    files,      \* files[u][j][part]: the request that wrote it, None when missing
    framework,  \* framework[j]: the request of the launcher's framework, its user, its execution
    req,        \* req[r]: the handler of r
    faults

vars == << users, inserted, tokens, files, framework, req, faults >>

Row(id, key, admin, vcs) == [ id |-> id, key |-> key, admin |-> admin, vcs |-> vcs ]
Token(u, admin) == [ user |-> u, admin |-> admin ]
Framework(u, r, execution) == [ user |-> u, by |-> r, execution |-> execution ]

(* pc: the write the handler is about to make; about: the user or the job  *)
(* it is made on; row: what was read; new: what is to be written; caller:  *)
(* the token; left: the files still to be written.  `done` is a ghost: the *)
(* requests answered with success when this submission began.              *)
Handler(pc, about, row, new, caller, left) ==
    [ pc |-> pc, about |-> about, row |-> row, new |-> new, caller |-> caller, left |-> left,
      done |-> {} ]
NotBegun == Handler("new", None, None, None, None, {})
Answered == { r \in Requests : req[r].pc = "success" }

Begins(r, h) == req[r].pc = "new" /\ req' = [ req EXCEPT ![r] = h ]
Answers(r, pc) == req' = [ req EXCEPT ![r].pc = pc, ![r].row = None, ![r].new = None ]
Refused(r) == Begins(r, Handler("failure", None, None, None, None, {}))
Fault == faults < MaxFaults /\ faults' = faults + 1

Exists(u) == users[u] # None
jobVars == << files, framework >>
userVars == << users, inserted, tokens >>

-----------------------------------------------------------------------------
\* Users.

\* token.get: what is signed stays valid whatever becomes of the row.
Login(r, u, key) ==
    /\ IF Exists(u) /\ users[u].key = key
       THEN /\ tokens' = tokens \cup { Token(u, users[u].admin) }
            /\ Begins(r, Handler("success", u, None, None, None, {}))
       ELSE Refused(r) /\ UNCHANGED tokens
    /\ UNCHANGED << users, inserted, jobVars, faults >>

\* updatePassword, with any token: the row is read and its password compared ...
ReadForPassword(r, u, old, new) ==
    /\ tokens # {}
    /\ old # new
    /\ IF Exists(u) /\ users[u].key = old
       THEN Begins(r, Handler("password", u, users[u], new, None, {}))
       ELSE Refused(r)
    /\ UNCHANGED << userVars, jobVars, faults >>

\* Faulty: the update asks for the user's name alone.
MatchesName(r) == Exists(req[r].about)

\* The rows an update or a removal `where: row` changes.
Matches(r) == Exists(req[r].about) /\ users[req[r].about] = req[r].row

\* ... then the row is updated where it is still the one read.
WritePassword(r) ==
    /\ req[r].pc = "password"
    /\ users' = IF Matches(r) THEN [ users EXCEPT ![req[r].about].key = req[r].new ] ELSE users
    /\ Answers(r, "success")
    /\ UNCHANGED << inserted, tokens, jobVars, faults >>

\* update: the user is added, or its password is set; `admin` is as it was read.
ReadForUpsert(r, t, u, key) ==
    /\ IF t.admin
       THEN Begins(r, Handler("upsert", u, users[u], key, t, {}))
       ELSE Refused(r)
    /\ UNCHANGED << userVars, jobVars, faults >>

Upsert(r) ==
    LET u == req[r].about
        row == req[r].row
        admin == IF row = None THEN FALSE ELSE row.admin
        id == IF Exists(u) THEN users[u].id ELSE inserted + 1
    IN  /\ req[r].pc = "upsert"
        /\ users' = [ users EXCEPT ![u] = Row(id, req[r].new, admin, { Default }) ]
        /\ inserted' = IF Exists(u) THEN inserted ELSE inserted + 1
        /\ Answers(r, "success")
        /\ UNCHANGED << tokens, jobVars, faults >>

\* remove: not of an administrator.
ReadForRemoval(r, t, u) ==
    /\ IF t.admin /\ Exists(u) /\ ~users[u].admin
       THEN Begins(r, Handler("remove", u, users[u], None, t, {}))
       ELSE Refused(r)
    /\ UNCHANGED << userVars, jobVars, faults >>

RemoveUser(r) ==
    /\ req[r].pc = "remove"
    /\ users' = IF Matches(r) THEN [ users EXCEPT ![req[r].about] = None ] ELSE users
    /\ Answers(r, "success")
    /\ UNCHANGED << inserted, tokens, jobVars, faults >>

\* updateUserVc: the row, then the queues of YARN, then the update.
ReadForClusters(r, t, u, vcs) ==
    /\ IF t.admin /\ Exists(u)
       THEN Begins(r, Handler("queues", u, users[u], vcs, t, {}))
       ELSE Refused(r)
    /\ UNCHANGED << userVars, jobVars, faults >>

\* Faulty: the queue `default` is not added.
ListQueuesBare(r) ==
    LET asked == IF req[r].row.admin THEN Queues ELSE req[r].new
    IN  /\ req[r].pc = "queues"
        /\ req' = [ req EXCEPT ![r] =
                    IF asked \subseteq Queues THEN [ @ EXCEPT !.pc = "clusters", !.new = asked ]
                    ELSE [ @ EXCEPT !.pc = "failure" ] ]
        /\ UNCHANGED << userVars, jobVars, faults >>

ListQueues(r) ==
    LET asked == IF req[r].row.admin THEN Queues ELSE req[r].new
    IN  /\ req[r].pc = "queues"
        /\ req' = [ req EXCEPT ![r] =
                    IF asked \subseteq Queues
                    THEN [ @ EXCEPT !.pc = "clusters", !.new = asked \cup { Default } ]
                    ELSE [ @ EXCEPT !.pc = "failure" ] ]
        /\ UNCHANGED << userVars, jobVars, faults >>

WriteClusters(r) ==
    /\ req[r].pc = "clusters"
    /\ users' = IF Matches(r) THEN [ users EXCEPT ![req[r].about].vcs = req[r].new ] ELSE users
    /\ Answers(r, "success")
    /\ UNCHANGED << inserted, tokens, jobVars, faults >>

-----------------------------------------------------------------------------
\* Jobs.

\* update and putJob: neither the user's right to the virtual cluster, which is
\* looked up, nor the owner of a framework of that name decides anything.
SubmitJob(r, t, j) ==
    /\ Begins(r, [ Handler("submit", j, None, None, t, Parts) EXCEPT !.done = Answered ])
    /\ UNCHANGED << userVars, jobVars, faults >>

\* The files are written all at a time; when one fails the request is answered,
\* and the others go on.
WritePart(r, part) ==
    /\ part \in req[r].left
    /\ files' = [ files EXCEPT ![req[r].caller.user][req[r].about][part] = r ]
    /\ req' = [ req EXCEPT ![r].left = @ \ { part } ]
    /\ UNCHANGED << userVars, framework, faults >>

PartFails(r, part) ==
    /\ part \in req[r].left
    /\ req' = [ req EXCEPT ![r].left = @ \ { part }, ![r].pc = "failure" ]
    /\ Fault
    /\ UNCHANGED << userVars, jobVars >>

\* Faulty: the framework is put while its files are written.
ReadyAtOnce(r) == req[r].pc = "submit"

\* The framework is put once every file is written.
ReadyToPut(r) == req[r].pc = "submit" /\ req[r].left = {}

PutFramework(r) ==
    /\ ReadyToPut(r)
    /\ framework' = [ framework EXCEPT
                      ![req[r].about] = Framework(req[r].caller.user, r, "START") ]
    /\ Answers(r, "success")
    /\ UNCHANGED << userVars, files, faults >>

\* The status of the launcher's answer is not looked at.
PutRefused(r) ==
    /\ ReadyToPut(r)
    /\ Answers(r, "success")
    /\ UNCHANGED << userVars, jobVars, faults >>

\* putJobExecutionType, deleteJob: the owner is compared to the caller ...
ReadForJob(r, t, j, pc) ==
    /\ IF framework[j] # None /\ (framework[j].user = t.user \/ t.admin)
       THEN Begins(r, Handler(pc, j, None, None, t, {}))
       ELSE Refused(r)
    /\ UNCHANGED << userVars, jobVars, faults >>

\* ... of whatever has the name when the launcher is called.
StopJob(r) ==
    /\ req[r].pc = "stop"
    /\ framework' = IF framework[req[r].about] = None THEN framework
                    ELSE [ framework EXCEPT ![req[r].about].execution = "STOP" ]
    /\ Answers(r, "success")
    /\ UNCHANGED << userVars, files, faults >>

DeleteJob(r) ==
    /\ req[r].pc = "delete"
    /\ framework' = [ framework EXCEPT ![req[r].about] = None ]
    /\ Answers(r, "success")
    /\ UNCHANGED << userVars, files, faults >>

-----------------------------------------------------------------------------
\* A call of a service throws before it changes anything.
CallFails(r) ==
    /\ req[r].pc \notin { "new", "success", "failure" }
    /\ req[r].pc = "submit" => req[r].left \in { Parts, {} }
    /\ req' = [ req EXCEPT ![r].pc = "failure", ![r].left = {} ]
    /\ Fault
    /\ UNCHANGED << userVars, jobVars >>

\* The server ends and is started again: it keeps nothing of its own.
Restart ==
    /\ Fault
    /\ req' = [ r \in Requests |->
                IF req[r].pc \in { "new", "success" } THEN req[r]
                ELSE [ req[r] EXCEPT !.pc = "failure", !.left = {} ] ]
    /\ UNCHANGED << userVars, jobVars >>

Init ==
    /\ users = [ u \in Users |-> IF u \in Admins THEN Row(0, FirstKey, TRUE, Queues) ELSE None ]
    /\ inserted = 0
    /\ tokens = { Token(u, TRUE) : u \in Admins }
    /\ files = [ u \in Users |-> [ j \in Jobs |-> [ p \in Parts |-> None ] ] ]
    /\ framework = [ j \in Jobs |-> None ]
    /\ req = [ r \in Requests |-> NotBegun ]
    /\ faults = 0

UserStep(r) ==
    \/ \E u \in Users, key \in Keys : Login(r, u, key)
    \/ \E u \in Users, old, new \in Keys : ReadForPassword(r, u, old, new)
    \/ \E t \in tokens, u \in Users, key \in Keys : ReadForUpsert(r, t, u, key)
    \/ \E t \in tokens, u \in Users : ReadForRemoval(r, t, u)
    \/ \E t \in tokens, u \in Users, vcs \in SUBSET Clusters : ReadForClusters(r, t, u, vcs)
    \/ WritePassword(r) \/ Upsert(r) \/ RemoveUser(r) \/ ListQueues(r) \/ WriteClusters(r)

JobStep(r) ==
    \/ \E t \in tokens, j \in Jobs : SubmitJob(r, t, j)
    \/ \E t \in tokens, j \in Jobs, pc \in { "stop", "delete" } : ReadForJob(r, t, j, pc)
    \/ \E part \in Parts : WritePart(r, part) \/ PartFails(r, part)
    \/ PutFramework(r) \/ PutRefused(r) \/ StopJob(r) \/ DeleteJob(r)

Next == Restart \/ \E r \in Requests : UserStep(r) \/ JobStep(r) \/ CallFails(r)

Spec == Init /\ [][Next]_vars

-----------------------------------------------------------------------------
\* Rows have distinct ids, the queue `default` and no cluster YARN does not know.
TypeOK ==
    /\ \A u \in Users : Exists(u) =>
        /\ users[u] \in [ id : 0 .. inserted, key : Keys, admin : BOOLEAN, vcs : SUBSET Queues ]
        /\ Default \in users[u].vcs
        /\ \A v \in Users \ { u } : Exists(v) /\ users[u].id > 0 => users[v].id # users[u].id
    /\ inserted \in Nat /\ faults \in 0 .. MaxFaults
    /\ tokens \subseteq [ user : Users, admin : BOOLEAN ]
    /\ files \in [ Users -> [ Jobs -> [ Parts -> Requests \cup { None } ] ] ]
    /\ \A j \in Jobs : framework[j] # None =>
        framework[j] \in [ user : Users, by : Requests, execution : { "START", "STOP" } ]
    /\ \A r \in Requests : req[r].left \subseteq Parts /\ req[r].done \subseteq Requests

(* A change of a password that was applied replaced the very password its  *)
(* request had compared to the old one, of the same row: a user added anew *)
(* or changed by another request in between is left alone                  *)
(* (service/user.js updatePassword, which reads and writes in two steps).  *)
PasswordFollows ==
    [][\A r \in Requests, u \in Users :
        req[r].pc = "password" /\ req'[r].pc # "password" /\ users'[u] # users[u] =>
            /\ u = req[r].about /\ Exists(u) /\ users[u].id = req[r].row.id
            /\ users[u].key = req[r].row.key]_vars

(* The files of a framework on the launcher are all there, in the folder   *)
(* of its user, and none is of a submission that had been answered with    *)
(* success when the framework's own began (_prepareJobContext awaits every *)
(* write before the framework is put).  Those of submissions that overlap, *)
(* failed or followed may be mixed with its own.                           *)
ContextCurrent ==
    \A j \in Jobs : framework[j] # None =>
        \A part \in Parts :
            LET writer == files[framework[j].user][j][part]
            IN  writer # None /\ writer \notin req[framework[j].by].done

=============================================================================
