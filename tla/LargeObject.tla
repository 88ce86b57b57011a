---------------------------- MODULE LargeObject ----------------------------
(***************************************************************************)
(* setLargeObject and getLargeObject of ZooKeeperClient.  An object that   *)
(* exceeds one node is kept below its path as numbered payloads of several *)
(* parts, and becomes current when its number is added to the ready ones.  *)
(*                                                                         *)
(* Every access to ZooKeeper is a step.  Writers and readers are threads   *)
(* of several processes (an AM and the one that replaces it, the WebServer)*)
(* and know of each other only by what they find on ZooKeeper.             *)
(***************************************************************************)
EXTENDS Naturals, FiniteSets

CONSTANTS
    Writers, Readers,
    MaxParts,       \* bound: parts of a payload
    MaxVersion,     \* bound: payloads written
    MaxFailures,    \* bound: exceptions and ends of processes
    None,           \* no result yet
    Corrupt, Torn   \* results that should not be: NonTransientException, some parts

ASSUME LargeObjectAssumption ==
    MaxParts \in Nat \ { 0 } /\ MaxVersion \in Nat /\ MaxFailures \in Nat

\* ZooKeeper counts from 0; here 0 is the version of nothing.
Versions == 1 .. MaxVersion
Indices  == 0 .. MaxParts - 1

ASSUME ResultAssumption == { None, Corrupt, Torn } \cap 0 .. MaxVersion = {}

VARIABLES
    seq,        \* the sequence number of the path: payloads created so far
    size,       \* parts into which each payload splits
    roots,      \* payload root paths that exist
    parts,      \* and the parts below each of them
    ready,      \* what is under ReadyPayloadVersions
    writers, readers,
    acked,      \* versions whose setLargeObject returned normally
    returned,   \* what the last getLargeObject of each reader returned
    failures

zkVars == << seq, size, roots, parts, ready >>
vars   == << zkVars, writers, readers, acked, returned, failures >>

PayloadOf(v) == 0 .. size[v] - 1

\* getLatestVersion
Newest == IF ready = {} THEN 0 ELSE CHOOSE v \in ready : \A u \in ready : u <= v

Older(vs, v) == { u \in vs : u < v }

NoWriter == [ at |-> "idle", version |-> 0, part |-> 0, todo |-> {}, root |-> 0, doomed |-> {} ]
NoReader == [ at |-> "idle", version |-> 0, listed |-> {}, part |-> 0, corrupt |-> FALSE ]

-----------------------------------------------------------------------------
(* setLargeObject *)

writerVars == << readers, returned >>

\* createSequentialPath
BeginWrite(w) ==
    /\ writers[w].at = "idle" /\ seq < MaxVersion
    /\ seq' = seq + 1
    /\ \E n \in 1 .. MaxParts : size' = [ size EXCEPT ![seq'] = n ]
    /\ roots' = roots \cup { seq' }
    /\ writers' = [ writers EXCEPT ![w] = [ NoWriter EXCEPT !.at = "parts", !.version = seq' ] ]
    /\ UNCHANGED << parts, ready, acked, failures, writerVars >>

SetPart(w) ==
    LET v == writers[w].version  p == writers[w].part IN
    /\ writers[w].at = "parts" /\ p < size[v]
    /\ v \in roots
    /\ parts' = [ parts EXCEPT ![v] = @ \cup { p } ]
    /\ writers' = [ writers EXCEPT ![w].part = p + 1 ]
    /\ UNCHANGED << seq, size, roots, ready, acked, failures, writerVars >>

\* NoNode: a newer payload has collected this one.
GiveUp(w) ==
    LET v == writers[w].version IN
    /\ writers[w].at = "parts" /\ writers[w].part < size[v]
    /\ v \notin roots
    /\ acked' = acked \cup { v }
    /\ writers' = [ writers EXCEPT ![w] = NoWriter ]
    /\ UNCHANGED << zkVars, failures, writerVars >>

\* Mutation of AddReady: the version is announced before its last part is set.
AddReadyEarly(w) ==
    LET v == writers[w].version IN
    /\ writers[w].at = "parts" /\ writers[w].part >= size[v] - 1
    /\ ready' = ready \cup { v }
    /\ writers' = [ writers EXCEPT ![w].at = "listReady" ]
    /\ UNCHANGED << seq, size, roots, parts, acked, failures, writerVars >>

\* addNewVersion
AddReady(w) ==
    LET v == writers[w].version IN
    /\ writers[w].at = "parts" /\ writers[w].part = size[v]
    /\ ready' = ready \cup { v }
    /\ writers' = [ writers EXCEPT ![w].at = "listReady" ]
    /\ UNCHANGED << seq, size, roots, parts, acked, failures, writerVars >>

-----------------------------------------------------------------------------
(* gcOldVersions, first of the ready versions and then of the payloads *)

ListReady(w) ==
    /\ writers[w].at = "listReady"
    /\ writers' = [ writers EXCEPT ![w].at = "gcReady",
                                   ![w].todo = Older(ready, writers[w].version) ]
    /\ UNCHANGED << zkVars, acked, failures, writerVars >>

DeleteReady(w) ==
    /\ writers[w].at = "gcReady"
    /\ \E v \in writers[w].todo :
          /\ ready' = ready \ { v }
          /\ writers' = [ writers EXCEPT ![w].todo = @ \ { v } ]
    /\ UNCHANGED << seq, size, roots, parts, acked, failures, writerVars >>

ListRoots(w) ==
    /\ writers[w].at = "gcReady" /\ writers[w].todo = {}
    /\ writers' = [ writers EXCEPT ![w].at = "gcRoots",
                                   ![w].todo = Older(roots, writers[w].version) ]
    /\ UNCHANGED << zkVars, acked, failures, writerVars >>

\* deleteRecursively lists the children, deletes each of them, then the node, and
\* starts again if new children have come.
ListParts(w) ==
    /\ writers[w].at = "gcRoots" /\ writers[w].root = 0
    /\ \E v \in writers[w].todo :
          writers' = [ writers EXCEPT ![w] =
              IF v \in roots THEN [ @ EXCEPT !.root = v, !.doomed = parts[v] ]
              ELSE [ @ EXCEPT !.todo = writers[w].todo \ { v } ] ]
    /\ UNCHANGED << zkVars, acked, failures, writerVars >>

DeletePart(w) ==
    /\ writers[w].root # 0
    /\ \E p \in writers[w].doomed :
          /\ parts' = [ parts EXCEPT ![writers[w].root] = @ \ { p } ]
          /\ writers' = [ writers EXCEPT ![w].doomed = @ \ { p } ]
    /\ UNCHANGED << seq, size, roots, ready, acked, failures, writerVars >>

DeleteRoot(w) ==
    LET v == writers[w].root IN
    /\ v # 0 /\ writers[w].doomed = {}
    /\ roots' = IF parts[v] = {} THEN roots \ { v } ELSE roots
    /\ writers' = [ writers EXCEPT ![w].root = 0,
                                   ![w].todo = IF parts[v] = {} THEN @ \ { v } ELSE @ ]
    /\ UNCHANGED << seq, size, parts, ready, acked, failures, writerVars >>

EndWrite(w) ==
    /\ writers[w].at = "gcRoots" /\ writers[w].todo = {}
    /\ acked' = acked \cup { writers[w].version }
    /\ writers' = [ writers EXCEPT ![w] = NoWriter ]
    /\ UNCHANGED << zkVars, failures, writerVars >>

\* The collection of one version fails and is only logged.
CollectionFails(w) ==
    /\ failures < MaxFailures
    /\ failures' = failures + 1
    /\ \E v \in writers[w].todo :
          /\ writers[w].root \in { 0, v }
          /\ writers' = [ writers EXCEPT ![w].todo = @ \ { v }, ![w].root = 0, ![w].doomed = {} ]
    /\ UNCHANGED << zkVars, acked, writerVars >>

\* Any other exception ends the call, and the end of the process does.
WriterFails(w) ==
    /\ writers[w].at # "idle" /\ failures < MaxFailures
    /\ failures' = failures + 1
    /\ writers' = [ writers EXCEPT ![w] = NoWriter ]
    /\ UNCHANGED << zkVars, acked, writerVars >>

-----------------------------------------------------------------------------
(* getLargeObject *)

readerVars == << zkVars, writers, acked >>

BeginRead(r) ==
    /\ readers[r].at = "idle"
    /\ readers' = [ readers EXCEPT ![r] = [ NoReader EXCEPT !.at = "latest" ] ]
    /\ returned' = [ returned EXCEPT ![r] = None ]
    /\ UNCHANGED << readerVars, failures >>

Return(r, result) ==
    /\ readers' = [ readers EXCEPT ![r] = NoReader ]
    /\ returned' = [ returned EXCEPT ![r] = result ]

\* Mutation of GetLatest: the first version that is listed will do.
GetLatestFirst(r) ==
    /\ readers[r].at = "latest" /\ ready # {}
    /\ readers' = [ readers EXCEPT ![r].at = "list",
                                   ![r].version = CHOOSE v \in ready : \A u \in ready : v <= u ]
    /\ UNCHANGED << readerVars, returned, failures >>

GetLatest(r) ==
    /\ readers[r].at = "latest" /\ ready # {}
    /\ readers' = [ readers EXCEPT ![r].at = "list", ![r].version = Newest ]
    /\ UNCHANGED << readerVars, returned, failures >>

\* NoNodeException
NoneReady(r) ==
    /\ readers[r].at = "latest" /\ ready = {}
    /\ Return(r, 0)
    /\ UNCHANGED << readerVars, failures >>

ListPayload(r) ==
    LET v == readers[r].version IN
    /\ readers[r].at = "list"
    /\ readers' = [ readers EXCEPT ![r] =
           IF v \in roots THEN [ @ EXCEPT !.at = "read", !.listed = parts[v] ]
           ELSE [ @ EXCEPT !.at = "check", !.corrupt = TRUE ] ]
    /\ UNCHANGED << readerVars, returned, failures >>

Remaining(r) == readers[r].part < Cardinality(readers[r].listed)

\* The next part must be listed, and still be there.
GetPart(r) ==
    LET p == readers[r].part IN
    /\ readers[r].at = "read" /\ Remaining(r)
    /\ readers' = [ readers EXCEPT ![r] =
           IF p \in readers[r].listed \cap parts[readers[r].version] THEN [ @ EXCEPT !.part = p + 1 ]
           ELSE [ @ EXCEPT !.at = "check", !.corrupt = TRUE ] ]
    /\ UNCHANGED << readerVars, returned, failures >>

GotParts(r) ==
    /\ readers[r].at = "read" /\ ~Remaining(r)
    /\ readers' = [ readers EXCEPT ![r].at = "check" ]
    /\ UNCHANGED << readerVars, returned, failures >>

\* What the parts that were read make.
ResultOf(r) ==
    IF readers[r].corrupt THEN Corrupt
    ELSE IF readers[r].part # size[readers[r].version] THEN Torn
    ELSE readers[r].version

\* Mutation of Check: nobody looks at the latest version a second time.
CheckOnce(r) ==
    /\ readers[r].at = "check"
    /\ Return(r, ResultOf(r))
    /\ UNCHANGED << readerVars, failures >>

\* A result counts if the latest version has not changed meanwhile; otherwise the
\* exception is transient and the read starts again.
Check(r) ==
    /\ readers[r].at = "check"
    /\ IF readers[r].version = Newest
       THEN Return(r, ResultOf(r))
       ELSE /\ readers' = [ readers EXCEPT ![r] = [ NoReader EXCEPT !.at = "latest" ] ]
            /\ UNCHANGED returned
    /\ UNCHANGED << readerVars, failures >>

\* An exception ends the call.  Of getLatestVersion it is ignored: the first time
\* the call fails as if the object did not exist, the second time it starts again.
ReaderFails(r) ==
    /\ readers[r].at # "idle" /\ failures < MaxFailures
    /\ failures' = failures + 1
    /\ readers' = [ readers EXCEPT ![r] =
           IF @.at = "check" THEN [ NoReader EXCEPT !.at = "latest" ] ELSE NoReader ]
    /\ UNCHANGED << readerVars, returned >>

-----------------------------------------------------------------------------

Init ==
    /\ seq = 0
    /\ size = [ v \in Versions |-> 0 ]
    /\ roots = {} /\ parts = [ v \in Versions |-> {} ] /\ ready = {}
    /\ writers = [ w \in Writers |-> NoWriter ]
    /\ readers = [ r \in Readers |-> NoReader ]
    /\ acked = {}
    /\ returned = [ r \in Readers |-> None ]
    /\ failures = 0

Write(w) ==
    \/ BeginWrite(w) \/ SetPart(w) \/ GiveUp(w) \/ AddReady(w)
    \/ ListReady(w) \/ DeleteReady(w) \/ ListRoots(w)
    \/ ListParts(w) \/ DeletePart(w) \/ DeleteRoot(w) \/ EndWrite(w)

Reading(r) ==
    GetLatest(r) \/ NoneReady(r) \/ ListPayload(r) \/ GetPart(r) \/ GotParts(r) \/ Check(r)

Next ==
    \/ \E w \in Writers : Write(w) \/ CollectionFails(w) \/ WriterFails(w)
    \/ \E r \in Readers : BeginRead(r) \/ Reading(r) \/ ReaderFails(r)

Spec == Init /\ [][Next]_vars

\* A thread that reads goes on reading.
FairSpec == Spec /\ \A r \in Readers : WF_vars(Reading(r))

-----------------------------------------------------------------------------
(* Properties *)

WriterStates == [ at : { "idle", "parts", "listReady", "gcReady", "gcRoots" },
                  version : 0 .. MaxVersion, part : 0 .. MaxParts,
                  todo : SUBSET Versions, root : 0 .. MaxVersion, doomed : SUBSET Indices ]
ReaderStates == [ at : { "idle", "latest", "list", "read", "check" },
                  version : 0 .. MaxVersion, listed : SUBSET Indices,
                  part : 0 .. MaxParts, corrupt : BOOLEAN ]

TypeOK ==
    /\ seq \in 0 .. MaxVersion
    /\ size \in [ Versions -> 0 .. MaxParts ]
    /\ roots \subseteq Versions /\ ready \subseteq Versions
    /\ parts \in [ Versions -> SUBSET Indices ]
    /\ writers \in [ Writers -> WriterStates ]
    /\ readers \in [ Readers -> ReaderStates ]
    /\ acked \subseteq Versions
    /\ returned \in [ Readers -> 0 .. MaxVersion \cup { None, Corrupt, Torn } ]
    /\ failures \in 0 .. MaxFailures

\* As the comment in setLargeObject guarantees at any time, the payload of the
\* latest ready version is complete, whoever collects or fails meanwhile.
LatestComplete ==
    ready # {} => Newest \in roots /\ parts[Newest] = PayloadOf(Newest)

\* Both operations together are an object that is read and written atomically: a
\* read returns all of the newest value of some moment while it ran, never parts of
\* it and never an older value, and a write that has returned is not lost unless to
\* one that began later.
Object == INSTANCE AtomicObject WITH
    begun <- seq, value <- Newest,
    writing <- [ w \in Writers |-> writers[w].version ]

ImplementsAtomicObject == Object!ObjectSpec

\* Every read ends: it starts again only when there is a newer version.
ReadsEnd ==
    \A r \in Readers : readers[r].at # "idle" ~> readers[r].at = "idle"

=============================================================================
