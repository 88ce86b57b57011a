----------------------------- MODULE ModelPush -----------------------------
(***************************************************************************)
(* `push` of model-client (src/model-client/lib/upload) against the hub:   *)
(* the info of the working copy is sent, then its blocks, in rounds, then  *)
(* the commit, a bounded number of times.  Requests fail, their answers    *)
(* are lost, the hub restarts, and other clients push the same version.    *)
(***************************************************************************)
EXTENDS ModelHub

CONSTANTS
    MaxTry        \* config.maxTryTime

ASSUME PushAssumption == MaxTry \in Nat \ {0}

VARIABLES
    client,       \* client[p]: where the push is
    block         \* block[p][<< f, b >>]: the block's task in the client

clientVars == << client, block >>
vars == << hubVars, clientVars >>

\* Blocks of a push, and all their names.
BlocksOf(p) == UNION { { << f, b >> : b \in 1 .. Blocks[p][f] } : f \in Files }

\* pc, the round of startUpload, the commits tried, the client's `success`
Client(pc, round, tries, ok) == [ pc |-> pc, round |-> round, tries |-> tries, ok |-> ok ]
Goes(p, pc) == client' = [ client EXCEPT ![p].pc = pc ]

Init ==
    /\ HubInit
    /\ client = [ p \in Pushes |-> Client("init", 0, 0, TRUE) ]
    /\ block = [ p \in Pushes |-> [ x \in BlocksOf(p) |-> "todo" ] ]

-----------------------------------------------------------------------------
\* beforeUpload: api.init, which the hub serves in two statements.

InitUpload(p) ==
    /\ client[p].pc = "init"
    /\ UpsertProject(p)
    /\ Goes(p, "task")
    /\ UNCHANGED block

TaskCreated(p) ==
    /\ client[p].pc = "task"
    /\ InsertTask(p)
    /\ client' = [ client EXCEPT ![p] = Client("upload", 1, 0, TRUE) ]
    /\ UNCHANGED block

-----------------------------------------------------------------------------
\* startUpload: every block that has not succeeded is sent, all at a time.

SendBlock(p, x) ==
    /\ client[p].pc = "upload" /\ block[p][x] = "todo"
    /\ ReceiveBlock(p, x[1], x[2])
    /\ block' = [ block EXCEPT ![p][x] = "busy" ]
    /\ UNCHANGED client

\* The task has no row: the hub refuses the block.
BlockRefused(p, x) ==
    /\ client[p].pc = "upload" /\ block[p][x] = "todo" /\ p \notin rows
    /\ block' = [ block EXCEPT ![p][x] = "failed" ]
    /\ UNCHANGED << hubVars, client >>

\* The request does not reach the hub.
BlockLost(p, x) ==
    /\ client[p].pc = "upload" /\ block[p][x] = "todo" /\ faults < MaxFaults
    /\ faults' = faults + 1
    /\ block' = [ block EXCEPT ![p][x] = "failed" ]
    /\ UNCHANGED << diskVars, taskVars, cleanVars, ghostVars, client >>

\* The client gives a request up that the hub is still serving.
AnswerLost(p, h) ==
    /\ h \in handlers[p] /\ [ h EXCEPT !.late = TRUE ] \notin handlers[p] /\ faults < MaxFaults
    /\ faults' = faults + 1
    /\ handlers' = [ handlers EXCEPT ![p] = (@ \ { h }) \cup { [ h EXCEPT !.late = TRUE ] } ]
    /\ block' = [ block EXCEPT ![p][<< h.file, h.seq >>] = "failed" ]
    /\ UNCHANGED << diskVars, taskMap, pending, merging, commit, cleanVars, ghostVars, client >>

Answered(p, h, outcome) ==
    block' = IF h.late THEN block ELSE [ block EXCEPT ![p][<< h.file, h.seq >>] = outcome ]

BlockStored(p, h) ==
    /\ StoreBlock(p, h)
    /\ Answered(p, h, "ok")
    /\ UNCHANGED client

BlockFails(p, h) ==
    /\ ~ h.held \/ h.late
    /\ StoreFails(p, h)
    /\ Answered(p, h, "failed")
    /\ UNCHANGED client

\* The round is over.  Blocks that failed are sent again in the next one, and the commit
\* follows the last one; but for the first upload, which must succeed, whatever failed.
RoundOver(p) ==
    /\ client[p].pc = "upload"
    /\ \A x \in BlocksOf(p) : block[p][x] \in { "ok", "failed" }
    /\ LET c == client[p]
           failing == { x \in BlocksOf(p) : block[p][x] = "failed" }
       IN  IF failing # {} /\ c.round < MaxTry
           THEN /\ client' = [ client EXCEPT ![p].round = @ + 1 ]
                /\ block' = [ block EXCEPT ![p] = [ x \in BlocksOf(p) |->
                                IF x \in failing THEN "todo" ELSE @[x] ] ]
           ELSE /\ client' = [ client EXCEPT ![p] =
                        IF failing # {} /\ c.tries = 0 THEN Client("failed", 0, 0, FALSE)
                        ELSE IF c.tries = MaxTry
                        THEN Client(IF c.ok THEN "succeeded" ELSE "failed", 0, 0, c.ok)
                        ELSE Client("commit", 0, c.tries, c.ok) ]
                /\ UNCHANGED block
    /\ UNCHANGED hubVars

-----------------------------------------------------------------------------
\* uploadProject: the commits.

SendCommit(p) ==
    /\ client[p].pc = "commit"
    /\ CommitBegin(p)
    /\ client' = [ client EXCEPT ![p] = Client("wait", 0, @.tries + 1, @.ok) ]
    /\ UNCHANGED block

\* After an answer without success the next commit follows at once.
TriesAgain(p, tries) ==
    client' = [ client EXCEPT ![p] =
        Client(IF tries = MaxTry THEN "failed" ELSE "commit", 0, tries, FALSE) ]

\* The task has no row, or is not in the map of the hub.
CommitRefused(p) ==
    /\ client[p].pc = "commit"
    /\ p \notin rows \/ taskMap[p] = None
    /\ TriesAgain(p, client[p].tries + 1)
    /\ UNCHANGED << hubVars, block >>

\* The request fails: the exception ends the command.
CommitLost(p) ==
    /\ client[p].pc \in { "commit", "wait" } /\ faults < MaxFaults
    /\ faults' = faults + 1
    /\ Goes(p, "failed")
    /\ UNCHANGED << diskVars, taskVars, cleanVars, ghostVars, block >>

\* The answer names what is left: the blocks it lacks are sent again.
AnswerLeft(p) ==
    /\ CommitLeft(p)
    /\ IF client[p].pc # "wait" THEN UNCHANGED << client, block >>
       ELSE IF temp[p] = None THEN TriesAgain(p, client[p].tries) /\ UNCHANGED block
       ELSE /\ client' = [ client EXCEPT ![p] = Client("upload", 1, @.tries, @.ok) ]
            /\ block' = [ block EXCEPT ![p] = [ x \in BlocksOf(p) |->
                    IF @[x] = "failed" \/ (x[1] \in Left(p) /\ x[2] \in Lack(p, x[1])) THEN "todo"
                    ELSE @[x] ] ]

AnswerDone(p) ==
    /\ CommitRename(p)
    /\ client' = IF client[p].pc # "wait" THEN client
                 ELSE [ client EXCEPT ![p] = Client("succeeded", 0, 0, TRUE) ]
    /\ UNCHANGED block

AnswerError(p) ==
    /\ CommitFails(p) \/ RemoveFails(p)
    /\ IF client[p].pc = "wait" THEN TriesAgain(p, client[p].tries) ELSE UNCHANGED client
    /\ UNCHANGED block

-----------------------------------------------------------------------------
\* A restart fails the requests that are being served.
HubRestarts ==
    /\ Restart
    /\ client' = [ p \in Pushes |->
            IF client[p].pc \in { "task", "wait" } THEN Client("failed", 0, 0, FALSE) ELSE client[p] ]
    /\ block' = [ p \in Pushes |-> [ x \in BlocksOf(p) |->
            IF block[p][x] = "busy" THEN "failed" ELSE block[p][x] ] ]

ClientStep(p) ==
    \/ InitUpload(p) \/ TaskCreated(p)
    \/ \E x \in BlocksOf(p) : SendBlock(p, x) \/ BlockRefused(p, x)
    \/ RoundOver(p)
    \/ SendCommit(p) \/ CommitRefused(p)

Serve(p) ==
    \/ \E h \in handlers[p] : BlockStored(p, h) \/ BlockFails(p, h)
    \/ AnswerLeft(p) \/ AnswerDone(p) \/ AnswerError(p)
    \/ /\ \/ \E f \in Files : MergeSettled(p, f) \/ MergeBegin(p, f)
          \/ MergeEnd(p)
          \/ CommitChecked(p) \/ CommitMerge(p)
          \/ CommitRemove(p) \/ RemoveEntry(p) \/ RemoveEnds(p)
       /\ UNCHANGED clientVars

Clean ==
    /\ ListDead \/ CleanDir \/ CleanRow \/ \E p \in Pushes : CleanCheck(p)
    /\ UNCHANGED clientVars

Fault ==
    \/ \E p \in Pushes :
        \/ \E x \in BlocksOf(p) : BlockLost(p, x)
        \/ \E h \in handlers[p] : AnswerLost(p, h)
        \/ CommitLost(p)
        \/ (MergeFails(p) \/ GrowOld(p)) /\ UNCHANGED clientVars
    \/ HubRestarts

Next ==
    \/ \E p \in Pushes : ClientStep(p) \/ Serve(p)
    \/ Clean
    \/ Fault

Spec == Init /\ [][Next]_vars

-----------------------------------------------------------------------------
(***************************************************************************)
(* Properties.                                                             *)
(***************************************************************************)

\* Every variable has its type: directories hold parts and whole files, a push that is
\* being served has been asked for.
TypeOK ==
    /\ info \in Pushes \cup { None } /\ rows \subseteq Pushes
    /\ \A p \in Pushes :
        /\ temp[p] # None => \A f \in Files :
            /\ \A x \in temp[p][f].parts : x.seq \in 1 .. Blocks[p][f]
            /\ temp[p][f].whole # None => temp[p][f].whole \in Seq(0 .. Blocks[p][f] \cup { Torn })
        /\ \A h \in handlers[p] : << h.file, h.seq >> \in BlocksOf(p)
        /\ \A x \in BlocksOf(p) : block[p][x] \in { "todo", "busy", "ok", "failed" }
        /\ client[p].tries \in 0 .. MaxTry /\ client[p].round \in 0 .. MaxTry
        /\ client[p].pc = "wait" => commit[p] # None

\* What is published is the whole of what its info lists, every file of it the blocks of
\* one push in their order, until a commit begins to remove it; but for a file a merge of
\* which failed, or a restart cut short, or a block stored once more overtook (Commit,
\* merge and UploadFile).
PublishedWhole ==
    project # None /\ ~ project.torn =>
        /\ \A f \in Listed[project.info] : project.dir[f].whole # None
        /\ \A f \in Files :
            project.dir[f].whole # None =>
                \/ project.dir[f].whole = WholeData(project.push, f)
                \/ << project.push, f >> \in damaged

\* Once a model has been published there is one, and all of it, whatever the commits of
\* other pushes do: but while a commit removes it or puts another in its place, and after an
\* error of the disk, a restart of the hub or the cleaner has cut a commit short just then
\* (Commit, CleanUploadTask).
LostOnlyWhenCut ==
    /\ published # {} /\ project = None => \E p \in Pushes : At(p, "rename") \/ p \in cut
    /\ project # None /\ project.torn => \E p \in Pushes : At(p, "removing") \/ p \in cut

\* A block the client was told is stored stays in the directory of its task, as a part, in
\* a merged part or in the whole file, until the push ends or its model is published:
\* storing, merging and a restart between them lose none.  What a merge of its file
\* that failed or was cut short lost is excepted, and a task that was left alone for hours
\* (UploadFile, merge, mergeAll).
AcknowledgedKept ==
    \A p \in Pushes : \A x \in BlocksOf(p) :
        /\ client[p].pc \in { "upload", "commit", "wait" } /\ block[p][x] = "ok"
        /\ p \notin aged \cup published /\ << p, x[1] >> \notin damaged
        => /\ temp[p] # None
           /\ \/ temp[p][x[1]].whole # None
              \/ \E y \in PartsOf(p, x[1]) : y.seq = x[2] \/ (y.merged /\ y.seq > x[2])

=============================================================================
