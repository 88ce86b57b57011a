------------------------------ MODULE ModelHub ------------------------------
(***************************************************************************)
(* The upload side of model-hub (src/model-hub/lib/upload): the rows it    *)
(* keeps of a project and of its upload tasks, the temporary directory of  *)
(* each task, the goroutines that store blocks and merge them, the commit  *)
(* that replaces the published model, and the cleaner of dead tasks.       *)
(*                                                                         *)
(* One version of one project is pushed to by several pushes, each with an *)
(* upload task of its own.  A file is the sequence of the numbers of its   *)
(* blocks; Torn stands for a block that was appended in part.  No file     *)
(* name is taken to be a prefix of another one, and every name parses.     *)
(***************************************************************************)
EXTENDS Naturals, Sequences, FiniteSets

CONSTANTS
    Pushes,       \* upload tasks of one version of one project
    Files,        \* names of files
    Listed,       \* Listed[p]: the files in the project_info of push p
    Blocks,       \* Blocks[p][f]: number of blocks of file f of push p
    None,
    Torn,         \* a block of which a part was appended
    MaxFaults     \* bound: restarts of the hub, errors of its disk, tasks left alone for hours,
                  \* lost requests

ASSUME HubAssumption ==
    /\ Listed \in [ Pushes -> SUBSET Files ]
    /\ Blocks \in [ Pushes -> [ Files -> Nat ] ]
    /\ \A p \in Pushes : \A f \in Files : Blocks[p][f] > 0 => f \in Listed[p]
    /\ None \notin Pushes
    /\ Torn \notin Nat
    /\ MaxFaults \in Nat

\* What the variables hold: the contents of a file, a directory and the parts in it, a
\* merge, a commit and a model.
Data    == Seq(Nat \cup { Torn })
Parts   == [ seq : Nat, merged : BOOLEAN, data : Data ]
Dirs    == [ Files -> [ parts : SUBSET Parts, whole : Data \cup { None } ] ]
Merges  == [ file : Files, head : Parts, last : Nat, data : Data ]
Commits == [ at : { "check", "merge", "remove", "removing", "rename" }, info : Pushes \cup { None } ]
Models  == [ push : Pushes, info : Pushes \cup { None }, dir : Dirs, torn : BOOLEAN ]

ASSUME NoneAssumption ==
    /\ None \notin Data /\ None \notin Dirs /\ None \notin Merges
    /\ None \notin Commits /\ None \notin Models /\ None \notin { "active", "idle" }

VARIABLES
    info,         \* the push whose project_info is in ms_projects, or None
    rows,         \* pushes with a row in ms_task
    temp,         \* temp[p]: the temporary directory of p, or None
    project,      \* the published directory: who pushed it, the info checked, the files,
                  \* and (ghost) whether entries of it have been removed
    taskMap,      \* taskMap[p]: None, or "active" or "idle" for 20 minutes
    handlers,     \* handlers[p]: uploads of blocks that are being received
    pending,      \* pending[p]: files a merge goroutine was started for
    merging,      \* merging[p]: the merge that holds the mutex of the task
    commit,       \* commit[p]: the commit that is being handled
    doomed,       \* the cleaner's list of dead tasks
    cleaning,     \* the task the cleaner is at, and what of it is to be removed next
    aged,         \* pushes whose row is older than two hours
    damaged,      \* ghost: files a merge of which failed, was cut short or overtaken
    cut,          \* ghost: pushes whose commit an error, a restart or the cleaner cut short
    published,    \* ghost: pushes whose model has been published
    faults        \* faults so far

diskVars  == << info, rows, temp, project >>
taskVars  == << taskMap, handlers, pending, merging, commit >>
cleanVars == << doomed, cleaning, aged >>
ghostVars == << damaged, cut, published >>
hubVars   == << diskVars, taskVars, cleanVars, ghostVars, faults >>

-----------------------------------------------------------------------------
\* Directories.

\* fT_total_seq_N.temp, or fT_total_seq_Y.temp once it has been merged
Part(seq, merged, data) == [ seq |-> seq, merged |-> merged, data |-> data ]
NoFile   == [ parts |-> {}, whole |-> None ]
EmptyDir == [ f \in Files |-> NoFile ]

\* GetTempList
PartsOf(p, f) == temp[p][f].parts
Merged(p, f)  == { x \in PartsOf(p, f) : x.merged }
SeqsOf(p, f)  == { x.seq : x \in PartsOf(p, f) }

\* What a file has when all its blocks are in it.
WholeData(p, f) == [ i \in 1 .. Blocks[p][f] |-> i ]

\* GetWriteCount: the handlers that had found their task in the map
Writes(p)  == { h \in handlers[p] : h.counted }
IsAlive(p) == taskMap[p] = "active" /\ Writes(p) = {}

HubInit ==
    /\ info = None /\ rows = {}
    /\ temp = [ p \in Pushes |-> None ]
    /\ project = None
    /\ taskMap = [ p \in Pushes |-> None ]
    /\ handlers = [ p \in Pushes |-> {} ]
    /\ pending = [ p \in Pushes |-> {} ]
    /\ merging = [ p \in Pushes |-> None ]
    /\ commit = [ p \in Pushes |-> None ]
    /\ doomed = {} /\ cleaning = None /\ aged = {}
    /\ damaged = {} /\ cut = {} /\ published = {}
    /\ faults = 0

-----------------------------------------------------------------------------
\* PrepareUpload, in its two statements.

UpsertProject(p) ==
    /\ info' = p
    /\ UNCHANGED << rows, temp, project, taskVars, cleanVars, ghostVars, faults >>

InsertTask(p) ==
    /\ rows' = rows \cup { p }
    /\ temp' = [ temp EXCEPT ![p] = EmptyDir ]
    /\ UNCHANGED << info, project, taskVars, cleanVars, ghostVars, faults >>

-----------------------------------------------------------------------------
\* UploadFile.

Handler(f, b, counted) == [ file |-> f, seq |-> b, counted |-> counted, held |-> TRUE, late |-> FALSE ]

\* A block begins to arrive: its .mdzz file is created, with its directory, and the
\* write is counted if the task is in the map already.
ReceiveBlock(p, f, b) ==
    /\ p \in rows
    /\ handlers' = [ handlers EXCEPT ![p] = @ \cup { Handler(f, b, taskMap[p] # None) } ]
    /\ temp' = [ temp EXCEPT ![p] = IF @ = None THEN EmptyDir ELSE @ ]
    /\ UNCHANGED << info, rows, project, taskMap, pending, merging, commit, cleanVars,
                    ghostVars, faults >>

\* The name of the part that a merge of f is appending to.
Appending(p, f, b) ==
    /\ merging[p] # None
    /\ merging[p].file = f
    /\ merging[p].head.seq = b
    /\ ~ merging[p].head.merged

\* Mutant: the block replaces a merged part of its number too.
StoreBlockOverMerged(p, h) ==
    /\ h \in handlers[p] /\ h.held
    /\ handlers' = [ handlers EXCEPT ![p] = @ \ { h } ]
    /\ temp' = [ temp EXCEPT ![p][h.file].parts =
                    { x \in @ : x.seq # h.seq } \cup { Part(h.seq, FALSE, << h.seq >>) } ]
    /\ taskMap' = [ taskMap EXCEPT ![p] = IF @ = None THEN "active" ELSE @ ]
    /\ pending' = [ pending EXCEPT ![p] = @ \cup { h.file } ]
    /\ damaged' = IF Appending(p, h.file, h.seq) THEN damaged \cup { << p, h.file >> } ELSE damaged
    /\ UNCHANGED << info, rows, project, merging, commit, cleanVars, cut, published, faults >>

\* The block is complete: the .mdzz file becomes a part, whoever holds the mutex, and
\* a merge is asked for.
StoreBlock(p, h) ==
    /\ h \in handlers[p] /\ h.held
    /\ handlers' = [ handlers EXCEPT ![p] = @ \ { h } ]
    /\ temp' = [ temp EXCEPT ![p][h.file].parts =
                    { x \in @ : x.seq # h.seq \/ x.merged } \cup { Part(h.seq, FALSE, << h.seq >>) } ]
    /\ taskMap' = [ taskMap EXCEPT ![p] = IF @ = None THEN "active" ELSE @ ]
    /\ pending' = [ pending EXCEPT ![p] = @ \cup { h.file } ]
    /\ damaged' = IF Appending(p, h.file, h.seq) THEN damaged \cup { << p, h.file >> } ELSE damaged
    /\ UNCHANGED << info, rows, project, merging, commit, cleanVars, cut, published, faults >>

\* The .mdzz file is gone, or its writing fails.
StoreFails(p, h) ==
    /\ h \in handlers[p]
    /\ handlers' = [ handlers EXCEPT ![p] = @ \ { h } ]
    /\ UNCHANGED << diskVars, taskMap, pending, merging, commit, cleanVars, ghostVars, faults >>

-----------------------------------------------------------------------------
\* merge, under the mutex of the task.

MutexFree(p) == merging[p] = None

\* The merged part, or else the first one; and the last part that follows it.
Head1(p, f) ==
    CHOOSE x \in PartsOf(p, f) :
        x.merged \/ (x.seq = 1 /\ Merged(p, f) = {})
HasHead(p, f) == Merged(p, f) # {} \/ 1 \in SeqsOf(p, f)
RunEnd(p, f) ==
    CHOOSE k \in Head1(p, f).seq .. Blocks[p][f] :
        /\ \A i \in Head1(p, f).seq + 1 .. k : i \in SeqsOf(p, f)
        /\ k + 1 \notin SeqsOf(p, f)

\* There is something to append to something.
Mergeable(p, f) == HasHead(p, f) /\ RunEnd(p, f) > Head1(p, f).seq

WithData(p, f, x, data) == (PartsOf(p, f) \ { x }) \cup { [ x EXCEPT !.data = data ] }

\* Nothing to merge: the file is whole (its parts are removed), a file of one block is
\* renamed, or blocks are missing.
MergeSettled(p, f) ==
    /\ f \in pending[p] /\ MutexFree(p)
    /\ pending' = [ pending EXCEPT ![p] = @ \ { f } ]
    /\ taskMap' = [ taskMap EXCEPT ![p] = IF @ = None THEN @ ELSE "active" ]
    /\ \/ /\ temp[p] # None
          /\ temp[p][f].whole # None
          /\ temp' = [ temp EXCEPT ![p][f].parts = {} ]
       \/ /\ temp[p] # None
          /\ temp[p][f].whole = None
          /\ Blocks[p][f] = 1 /\ 1 \in SeqsOf(p, f)
          /\ temp' = [ temp EXCEPT ![p][f] = [ parts |-> {}, whole |-> Head1(p, f).data ] ]
       \/ /\ temp[p] # None =>
                /\ temp[p][f].whole = None
                /\ ~ (Blocks[p][f] = 1 /\ 1 \in SeqsOf(p, f))
                /\ ~ Mergeable(p, f)
          /\ UNCHANGED temp
    /\ UNCHANGED << info, rows, project, handlers, merging, commit, cleanVars, ghostVars, faults >>

\* The first part of the run is opened, and the others are appended to it.
MergeBegin(p, f) ==
    /\ f \in pending[p] /\ MutexFree(p)
    /\ temp[p] # None /\ temp[p][f].whole = None /\ Blocks[p][f] > 1 /\ Mergeable(p, f)
    /\ pending' = [ pending EXCEPT ![p] = @ \ { f } ]
    /\ taskMap' = [ taskMap EXCEPT ![p] = IF @ = None THEN @ ELSE "active" ]
    /\ LET x == Head1(p, f) IN
       /\ merging' = [ merging EXCEPT ![p] =
                        [ file |-> f, head |-> x, last |-> RunEnd(p, f),
                          data |-> x.data \o [ i \in 1 .. RunEnd(p, f) - x.seq |-> x.seq + i ] ] ]
       /\ temp' = [ temp EXCEPT ![p][f].parts = WithData(p, f, x, Append(x.data, Torn)) ]
    /\ UNCHANGED << info, rows, project, handlers, commit, cleanVars, ghostVars, faults >>

\* What the part's name stands for is renamed: what was appended to, or a block that
\* was stored under this name since.
MergeEnd(p) ==
    /\ merging[p] # None
    /\ merging' = [ merging EXCEPT ![p] = None ]
    /\ LET m == merging[p] IN
       IF temp[p] # None /\ \E x \in PartsOf(p, m.file) : x.seq = m.head.seq /\ x.merged = m.head.merged
       THEN LET now  == CHOOSE x \in PartsOf(p, m.file) : x.seq = m.head.seq /\ x.merged = m.head.merged
                data == IF now.data = Append(m.head.data, Torn) THEN m.data ELSE now.data
            IN  IF m.last = Blocks[p][m.file]
                THEN temp' = [ temp EXCEPT ![p][m.file] = [ parts |-> {}, whole |-> data ] ]
                ELSE temp' = [ temp EXCEPT ![p][m.file].parts =
                                (@ \ { now }) \cup { Part(m.last, TRUE, data) } ]
       ELSE UNCHANGED temp
    /\ UNCHANGED << info, rows, project, taskMap, handlers, pending, commit, cleanVars, ghostVars, faults >>

\* An error of the disk ends the merge: a later block cannot be opened, and the first part
\* keeps what was appended to it; or cannot be read to its end, and the first part is removed.
MergeFails(p) ==
    /\ faults < MaxFaults /\ merging[p] # None
    /\ faults' = faults + 1
    /\ merging' = [ merging EXCEPT ![p] = None ]
    /\ LET m == merging[p] IN
       /\ damaged' = damaged \cup { << p, m.file >> }
       /\ \/ UNCHANGED temp
          \/ /\ temp[p] # None
             /\ temp' = [ temp EXCEPT ![p][m.file].parts =
                            { x \in @ : x.seq # m.head.seq \/ x.merged # m.head.merged } ]
    /\ UNCHANGED << info, rows, project, taskMap, handlers, pending, commit, cleanVars, cut, published >>

-----------------------------------------------------------------------------
\* Commit.

\* The rows are read, and the task is in the map.
CommitBegin(p) ==
    /\ p \in rows /\ taskMap[p] # None
    /\ commit' = [ commit EXCEPT ![p] = [ at |-> "check", info |-> info ] ]
    /\ UNCHANGED << diskVars, taskMap, handlers, pending, merging, cleanVars, ghostVars, faults >>

At(p, pc) == commit[p] # None /\ commit[p].at = pc

\* The commit has found its directory whole.
Replacing(p) == At(p, "remove") \/ At(p, "removing") \/ At(p, "rename")

\* checkUpload: the blocks a file lacks (none of a file no block of which is there), and
\* the files of the info that are not whole.
Base(p, f) == IF Merged(p, f) = {} THEN 0 ELSE (CHOOSE x \in Merged(p, f) : TRUE).seq
Lack(p, f) ==
    IF PartsOf(p, f) = {} THEN {}
    ELSE { b \in Base(p, f) + 1 .. Blocks[p][f] : b \notin SeqsOf(p, f) }

\* Mutant: a file is left only if it lacks blocks.
LeftLacking(p) == { f \in Listed[commit[p].info] : temp[p][f].whole = None /\ Lack(p, f) # {} }

Left(p) == { f \in Listed[commit[p].info] : temp[p][f].whole = None }

\* Nothing is being written, or has been for 30 seconds.
WritesAwaited(p) == Writes(p) = {} \/ \E h \in Writes(p) : h.late

CommitAnswered(p) == commit' = [ commit EXCEPT ![p] = None ]

\* Something is left, or the directory cannot be read: the commit is answered.
CommitLeft(p) ==
    /\ At(p, "check") /\ WritesAwaited(p)
    /\ temp[p] # None => Left(p) # {}
    /\ CommitAnswered(p)
    /\ UNCHANGED << diskVars, taskMap, handlers, pending, merging, cleanVars, ghostVars, faults >>

CommitChecked(p) ==
    /\ At(p, "check") /\ WritesAwaited(p)
    /\ temp[p] # None /\ Left(p) = {}
    /\ commit' = [ commit EXCEPT ![p].at = "merge" ]
    /\ UNCHANGED << diskVars, taskMap, handlers, pending, merging, cleanVars, ghostVars, faults >>

\* Mutant: the error of mergeAll is ignored.
CommitMergeAnyway(p) ==
    /\ At(p, "merge") /\ MutexFree(p)
    /\ taskMap' = [ taskMap EXCEPT ![p] = "active" ]
    /\ temp' = [ temp EXCEPT ![p] = IF @ = None THEN None ELSE [ f \in Files |->
                    IF f \in Listed[commit[p].info] THEN [ @[f] EXCEPT !.parts = {} ] ELSE @[f] ] ]
    /\ commit' = [ commit EXCEPT ![p].at = "remove" ]
    /\ UNCHANGED << info, rows, project, handlers, pending, merging, cleanVars, ghostVars, faults >>

\* mergeAll finds every file whole and removes their parts.
CommitMerge(p) ==
    /\ At(p, "merge") /\ MutexFree(p) /\ temp[p] # None
    /\ taskMap' = [ taskMap EXCEPT ![p] = "active" ]
    /\ temp' = [ temp EXCEPT ![p] = [ f \in Files |->
                    IF f \in Listed[commit[p].info] THEN [ @[f] EXCEPT !.parts = {} ] ELSE @[f] ] ]
    /\ commit' = [ commit EXCEPT ![p].at = "remove" ]
    /\ UNCHANGED << info, rows, project, handlers, pending, merging, cleanVars, ghostVars, faults >>

\* CleanUnuploadedFile, and RemoveAll(project_dir) begins.
CommitRemove(p) ==
    /\ At(p, "remove")
    /\ handlers' = [ handlers EXCEPT ![p] = { [ h EXCEPT !.held = FALSE ] : h \in @ } ]
    /\ commit' = [ commit EXCEPT ![p].at = "removing" ]
    /\ UNCHANGED << diskVars, taskMap, pending, merging, cleanVars, ghostVars, faults >>

\* RemoveAll removes an entry, of the old model or of one that another commit has brought
\* in since (all that goes by the name of a file at a time).
RemoveEntry(p) ==
    /\ At(p, "removing") /\ project # None
    /\ \E f \in Files :
        /\ project.dir[f] # NoFile
        /\ project' = [ project EXCEPT !.dir[f] = NoFile, !.torn = TRUE ]
    /\ UNCHANGED << info, rows, temp, taskVars, cleanVars, ghostVars, faults >>

\* Nothing is left, and the directory goes; or it has gone already.
RemoveEnds(p) ==
    /\ At(p, "removing")
    /\ project # None => project.dir = EmptyDir
    /\ project' = None
    /\ commit' = [ commit EXCEPT ![p].at = "rename" ]
    /\ UNCHANGED << info, rows, temp, taskMap, handlers, pending, merging, cleanVars, ghostVars, faults >>

\* An error of the disk ends RemoveAll, and with it the commit.
RemoveFails(p) ==
    /\ faults < MaxFaults /\ At(p, "removing")
    /\ faults' = faults + 1
    /\ CommitAnswered(p)
    /\ cut' = cut \cup { p }
    /\ UNCHANGED << diskVars, taskMap, handlers, pending, merging, cleanVars, damaged, published >>

\* Rename(temp_dir, project_dir).  CleanUploadTask then finds the task alive, or being
\* written to, and leaves its row to the cleaner.
CommitRename(p) ==
    /\ At(p, "rename") /\ project = None /\ temp[p] # None
    /\ project' = [ push |-> p, info |-> commit[p].info, dir |-> temp[p], torn |-> FALSE ]
    /\ temp' = [ temp EXCEPT ![p] = None ]
    /\ handlers' = [ handlers EXCEPT ![p] = { [ h EXCEPT !.held = FALSE ] : h \in @ } ]
    /\ published' = published \cup { p }
    /\ CommitAnswered(p)
    /\ UNCHANGED << info, rows, taskMap, pending, merging, cleanVars, damaged, cut, faults >>

\* The directory to merge in or to rename is gone.  Or another commit has put its own in
\* the place of the old model: Rename fails, and so does RemoveAll, if it had opened the
\* old one (here also if it cannot open what is there).
CommitFails(p) ==
    /\ \/ At(p, "merge") /\ MutexFree(p) /\ temp[p] = None
       \/ At(p, "rename") /\ (project # None \/ temp[p] = None)
       \/ /\ At(p, "removing") /\ project # None
          /\ project.torn => \E q \in Pushes \ { p } : At(q, "removing")
    /\ CommitAnswered(p)
    /\ UNCHANGED << diskVars, taskMap, handlers, pending, merging, cleanVars, ghostVars, faults >>

-----------------------------------------------------------------------------
\* _RemoveTimeoutTask, and the passing of time.

\* Hours pass for a task no commit of which is being handled.
GrowOld(p) ==
    /\ faults < MaxFaults /\ p \in rows /\ commit[p] = None
    /\ faults' = faults + 1
    /\ aged' = aged \cup { p }
    /\ taskMap' = [ taskMap EXCEPT ![p] = IF @ = None THEN @ ELSE "idle" ]
    /\ UNCHANGED << diskVars, handlers, pending, merging, commit, doomed, cleaning, ghostVars >>

Dead(p) ==
    IF taskMap[p] # None THEN ~ IsAlive(p) ELSE p \in rows \cap aged

ListDead ==
    /\ doomed = {} /\ cleaning = None
    /\ \E p \in Pushes : Dead(p)
    /\ doomed' = { p \in Pushes : Dead(p) }
    /\ UNCHANGED << diskVars, taskVars, cleaning, aged, ghostVars, faults >>

\* CleanUploadTask: what is alive again, being written or without a row is left alone;
Cleanable(p) ==
    /\ taskMap[p] # None => Writes(p) = {} /\ ~ IsAlive(p)
    /\ p \in rows

CleanCheck(p) ==
    /\ p \in doomed /\ cleaning = None
    /\ IF Cleanable(p) THEN cleaning' = [ push |-> p, at |-> "dir" ] /\ UNCHANGED doomed
       ELSE doomed' = doomed \ { p } /\ UNCHANGED cleaning
    /\ UNCHANGED << diskVars, taskVars, aged, ghostVars, faults >>

\* the temporary directory of another one is removed, whatever has begun to use it since,
CleanDir ==
    /\ cleaning # None /\ cleaning.at = "dir"
    /\ LET p == cleaning.push IN
       /\ temp' = [ temp EXCEPT ![p] = None ]
       /\ handlers' = [ handlers EXCEPT ![p] = { [ h EXCEPT !.held = FALSE ] : h \in @ } ]
       /\ cut' = IF Replacing(p) THEN cut \cup { p } ELSE cut
    /\ cleaning' = [ cleaning EXCEPT !.at = "row" ]
    /\ UNCHANGED << info, rows, project, taskMap, pending, merging, commit, doomed, aged,
                    damaged, published, faults >>

\* and then its row, and its entry in the map.
CleanRow ==
    /\ cleaning # None /\ cleaning.at = "row"
    /\ rows' = rows \ { cleaning.push }
    /\ taskMap' = [ taskMap EXCEPT ![cleaning.push] = None ]
    /\ doomed' = doomed \ { cleaning.push } /\ cleaning' = None
    /\ UNCHANGED << info, temp, project, handlers, pending, merging, commit, aged,
                    ghostVars, faults >>

-----------------------------------------------------------------------------
\* The hub dies and starts again: the disk and the database stay.
Restart ==
    /\ faults < MaxFaults
    /\ faults' = faults + 1
    /\ taskMap' = [ p \in Pushes |-> None ]
    /\ handlers' = [ p \in Pushes |-> {} ]
    /\ pending' = [ p \in Pushes |-> {} ]
    /\ damaged' = damaged \cup { << p, merging[p].file >> : p \in { q \in Pushes : merging[q] # None } }
    /\ cut' = cut \cup { p \in Pushes : At(p, "removing") \/ At(p, "rename") }
    /\ merging' = [ p \in Pushes |-> None ]
    /\ commit' = [ p \in Pushes |-> None ]
    /\ doomed' = {} /\ cleaning' = None
    /\ UNCHANGED << diskVars, aged, published >>
=============================================================================
