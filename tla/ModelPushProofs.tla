--------------------------- MODULE ModelPushProofs ---------------------------
(***************************************************************************)
(* Proofs about ModelPush, for every set of pushes and files, any number   *)
(* of blocks, retries and faults: what is published is whole, a published  *)
(* model goes only when another takes its place or a commit is cut short,  *)
(* and no block is lost that a client was told is stored.                  *)
(***************************************************************************)
EXTENDS ModelPush, WellFoundedInduction, TLAPS

\* The first n blocks of a file, in their order.
Upto(n) == [ i \in 1 .. n |-> i ]

Handlers == [ file : Files, seq : Nat, counted : BOOLEAN, held : BOOLEAN, late : BOOLEAN ]
Clients  ==
    [ pc : { "init", "task", "upload", "commit", "wait", "succeeded", "failed" },
      round : Nat, tries : Nat, ok : BOOLEAN ]

Types ==
    /\ info \in Pushes \cup { None } /\ rows \subseteq Pushes
    /\ temp \in [ Pushes -> Dirs \cup { None } ]
    /\ project \in Models \cup { None }
    /\ taskMap \in [ Pushes -> { None, "active", "idle" } ]
    /\ handlers \in [ Pushes -> SUBSET Handlers ]
    /\ pending \in [ Pushes -> SUBSET Files ]
    /\ merging \in [ Pushes -> Merges \cup { None } ]
    /\ commit \in [ Pushes -> Commits \cup { None } ]
    /\ client \in [ Pushes -> Clients ]
    /\ block = [ p \in Pushes |-> block[p] ]
    /\ \A p \in Pushes : block[p] \in [ BlocksOf(p) -> { "todo", "busy", "ok", "failed" } ]
    /\ \A p \in Pushes : \A h \in handlers[p] : << h.file, h.seq >> \in BlocksOf(p)

\* A merge is appending to a part of f, which has this name.
BeingMerged(p, f)  == merging[p] # None /\ merging[p].file = f
IsHead(p, f, x) ==
    BeingMerged(p, f) /\ x.seq = merging[p].head.seq /\ x.merged = merging[p].head.merged

\* The parts of a file have names of their own, at most one of them is merged, and
\* none while a block is appended to.
PartsNamed(p, f) ==
    /\ \A x \in PartsOf(p, f) : x.seq \in 1 .. Blocks[p][f]
    /\ \A x, y \in PartsOf(p, f) :
           x.merged = y.merged /\ (x.merged \/ x.seq = y.seq) => x = y
    /\ BeingMerged(p, f) /\ ~merging[p].head.merged => Merged(p, f) = {}

\* What is in a part, and in a whole file, unless a merge of it went wrong.
PartData(p, f, x) ==
    IF IsHead(p, f, x) THEN Append(merging[p].head.data, Torn)
    ELSE IF x.merged THEN Upto(x.seq) ELSE << x.seq >>
DataSound(p, f) ==
    << p, f >> \notin damaged =>
        /\ temp[p][f].whole # None => temp[p][f].whole = WholeData(p, f)
        /\ \A x \in PartsOf(p, f) : x.data = PartData(p, f, x)

DirSound(p) ==
    temp[p] # None => \A f \in Files : PartsNamed(p, f) /\ DataSound(p, f)

\* What a merge is about to write.
MergeSound(p) ==
    merging[p] # None =>
        LET m == merging[p] IN
        /\ m.head.seq < m.last /\ m.last <= Blocks[p][m.file]
        /\ << p, m.file >> \notin damaged => m.data = Upto(m.last)

\* A commit that has been checked finds its files whole, or its directory gone; the
\* cleaner has cut it short if it had come to remove the old model.
CommitSound(p) ==
    /\ commit[p] # None /\ commit[p].at # "check" /\ temp[p] # None =>
           \A f \in Listed[commit[p].info] : temp[p][f].whole # None
    /\ Replacing(p) /\ temp[p] = None => p \in cut
    /\ commit[p] # None => client[p].pc \in { "wait", "failed" }
    /\ commit[p] # None => commit[p].info \in Pushes

\* A block that is received has its directory; blocks are sent after the task is there.
PushSound(p) ==
    /\ \A h \in handlers[p] : h.held => temp[p] # None
    /\ client[p].pc \in { "init", "task" } =>
           handlers[p] = {} /\ \A x \in BlocksOf(p) : block[p][x] = "todo"

\* A block is where a client that was told it is stored may count on it.
Kept(p, x) ==
    /\ temp[p] # None
    /\ \/ temp[p][x[1]].whole # None
       \/ \E y \in PartsOf(p, x[1]) : y.seq = x[2] \/ (y.merged /\ y.seq > x[2])
Acknowledged(p) ==
    \A x \in BlocksOf(p) :
        /\ client[p].pc \in { "upload", "commit", "wait" } /\ block[p][x] = "ok"
        /\ p \notin aged \cup published /\ << p, x[1] >> \notin damaged
        => Kept(p, x)

OneSound(p) == DirSound(p) /\ MergeSound(p) /\ CommitSound(p) /\ PushSound(p) /\ Acknowledged(p)

\* The info of the project comes before the row of any task.
InfoSound == info = None => rows = {} /\ \A p \in Pushes : client[p].pc = "init"

\* The cleaner is at tasks that were left alone for hours.
CleanSound ==
    /\ \A p \in Pushes : taskMap[p] = "idle" => p \in aged
    /\ doomed \subseteq Pushes /\ \A p \in doomed : taskMap[p] = None => p \in aged
    /\ cleaning # None => cleaning \in [ push : Pushes \cap aged, at : { "dir", "row" } ]

PInv ==
    /\ Types
    /\ \A p \in Pushes : OneSound(p)
    /\ InfoSound
    /\ CleanSound
    /\ PublishedWhole
    /\ LostOnlyWhenCut

-----------------------------------------------------------------------------
(* Numbers and sequences *)

\* A set of numbers has a least one.
LEMMA Least ==
    ASSUME NEW S \in SUBSET Nat, S # {}
    PROVE  \E n \in S : \A m \in S : n <= m
<1> DEFINE R == OpToRel(<, Nat)
<1>1. IsWellFoundedOn(R, Nat)
  BY NatLessThanWellFounded
<1>2. R = { ss \in Nat \X Nat : ss[1] < ss[2] }
  BY DEF OpToRel
<1>. HIDE DEF R
<1>3. PICK n \in S : \A m \in S : ~(<< m, n >> \in R)
  BY <1>1, WFMin
<1>4. ASSUME NEW m \in S PROVE n <= m
  <2>1. << m, n >> \notin { ss \in Nat \X Nat : ss[1] < ss[2] }
    BY <1>2, <1>3
  <2>. QED BY <2>1
<1>. QED BY <1>4

\* From any block there is a last one of the run that begins there.
LEMMA RunEnds ==
    ASSUME NEW S \in SUBSET Nat, NEW n \in Nat, NEW s \in Nat, s <= n, n + 1 \notin S
    PROVE  \E k \in s .. n : (\A i \in s + 1 .. k : i \in S) /\ k + 1 \notin S
<1> DEFINE Ends == { k \in Nat : s <= k /\ k + 1 \notin S }
<1>1. n \in Ends
  OBVIOUS
<1>2. PICK k \in Ends : \A m \in Ends : k <= m
  BY <1>1, Least
<1>3. k \in s .. n /\ k + 1 \notin S
  BY <1>1, <1>2
<1>4. ASSUME NEW i \in s + 1 .. k PROVE i \in S
  <2>1. i - 1 \in Nat /\ s <= i - 1 /\ (i - 1) + 1 = i /\ ~(k <= i - 1)
    BY <1>3
  <2>. QED BY <1>2, <2>1
<1>. QED BY <1>3, <1>4

\* Sequences of the same length with the same elements are the same.
LEMMA SameElements ==
    ASSUME NEW c \in Seq(Nat), NEW d \in Seq(Nat), Len(d) = Len(c),
           \A i \in 1 .. Len(c) : d[i] = c[i]
    PROVE  d = c
<1>1. PICK n \in Nat : n = Len(c)
  OBVIOUS
<1>2. c = [ i \in 1 .. n |-> c[i] ]
  BY <1>1
<1>3. d = [ i \in 1 .. n |-> d[i] ]
  BY <1>1
<1>4. \A i \in 1 .. n : d[i] = c[i]
  BY <1>1
<1>. QED BY <1>2, <1>3, <1>4

\* Two sequences of numbers, one after the other, against a third one.
LEMMA JoinIs ==
    ASSUME NEW a \in Seq(Nat), NEW b \in Seq(Nat), NEW c \in Seq(Nat),
           Len(c) = Len(a) + Len(b),
           \A i \in 1 .. Len(a) : c[i] = a[i],
           \A i \in 1 .. Len(b) : c[Len(a) + i] = b[i]
    PROVE  a \o b = c
<1>1. PICK d \in Seq(Nat) : d = a \o b
  <2>1. a \o b \in Seq(Nat)
    OBVIOUS
  <2>. QED BY <2>1, Zenon
<1>2. Len(d) = Len(c)
  BY <1>1
<1>3. ASSUME NEW i \in 1 .. Len(c) PROVE d[i] = c[i]
  <2>1. CASE i <= Len(a)
    BY <1>1, <2>1
  <2>2. CASE i > Len(a)
    <3>1. i - Len(a) \in 1 .. Len(b) /\ Len(a) + (i - Len(a)) = i
      BY <2>2
    <3>2. c[i] = b[i - Len(a)]
      BY <3>1
    <3>3. d[i] = b[i - Len(a)]
      BY <1>1, <2>2, <3>1
    <3>. QED BY <3>2, <3>3
  <2>. QED BY <2>1, <2>2
<1>4. d = c
  BY <1>2, <1>3, SameElements
<1>. QED BY <1>1, <1>4

\* A part and the blocks that follow it, in their order.
LEMMA UptoJoins ==
    ASSUME NEW s \in Nat, NEW k \in Nat, s <= k
    PROVE  Upto(s) \o [ i \in 1 .. k - s |-> s + i ] = Upto(k)
<1>1. k - s \in Nat
  OBVIOUS
<1>2. Upto(s) \in Seq(Nat) /\ Len(Upto(s)) = s /\ \A i \in 1 .. s : Upto(s)[i] = i
  BY DEF Upto
<1>3. [ i \in 1 .. k - s |-> s + i ] \in Seq(Nat)
  BY <1>1
<1>4. PICK b \in Seq(Nat) : b = [ i \in 1 .. k - s |-> s + i ]
  BY <1>3
<1>5. Len(b) = k - s /\ \A i \in 1 .. k - s : b[i] = s + i
  BY <1>1, <1>4
<1>6. Upto(k) \in Seq(Nat) /\ Len(Upto(k)) = k /\ \A i \in 1 .. k : Upto(k)[i] = i
  BY DEF Upto
<1>7. PICK a \in Seq(Nat) : a = Upto(s)
  BY <1>2
<1>8. PICK c \in Seq(Nat) : c = Upto(k)
  BY <1>6
<1>9. Len(a) = s /\ Len(c) = k /\ Len(c) = Len(a) + Len(b)
  <2>1. Len(a) = s
    BY <1>2, <1>7
  <2>2. Len(c) = k
    BY <1>6, <1>8
  <2>. QED BY <1>5, <2>1, <2>2
<1>10. \A i \in 1 .. Len(a) : c[i] = a[i]
  BY <1>2, <1>6, <1>7, <1>8, <1>9
<1>11. \A i \in 1 .. Len(b) : c[Len(a) + i] = b[i]
  BY <1>5, <1>6, <1>8, <1>9
<1>12. a \o b = c
  BY <1>9, <1>10, <1>11, JoinIs
<1>. QED BY <1>4, <1>7, <1>8, <1>12

\* The first block alone.
LEMMA UptoOne == << 1 >> = Upto(1)
BY DEF Upto

-----------------------------------------------------------------------------
(* What a step that does not concern a push leaves alone *)

\* Its directory.
LEMMA DirKept ==
    ASSUME NEW p \in Pushes, DirSound(p), temp'[p] = temp[p], merging'[p] = merging[p],
           damaged \subseteq damaged'
    PROVE  DirSound(p)'
BY DEF DirSound, PartsNamed, DataSound, PartData, IsHead, BeingMerged, PartsOf, Merged, WholeData

\* Its merges.
LEMMA MergeKept ==
    ASSUME NEW p \in Pushes, MergeSound(p), merging'[p] = merging[p], damaged \subseteq damaged'
    PROVE  MergeSound(p)'
BY DEF MergeSound

\* Whole files stay whole, and a directory there is stays.
LEMMA CommitKept ==
    ASSUME NEW p \in Pushes, CommitSound(p), commit'[p] \in { commit[p], None },
           cut \subseteq cut', commit'[p] # None => client'[p].pc \in { "wait", "failed" },
           temp'[p] = None => temp[p] = None \/ commit'[p] = None,
           temp'[p] # None => temp[p] # None /\ \A f \in Files :
               temp[p][f].whole # None => temp'[p][f].whole # None
    PROVE  CommitSound(p)'
<1>1. commit'[p] # None => commit'[p] = commit[p] /\ commit[p].info \in Pushes
  BY DEF CommitSound
<1>2. commit'[p] # None => Listed[commit[p].info] \subseteq Files
  BY <1>1, HubAssumption
<1>3. commit'[p] # None /\ commit'[p].at # "check" /\ temp'[p] # None =>
          \A f \in Listed[commit'[p].info] : temp'[p][f].whole # None
  BY <1>1, <1>2 DEF CommitSound
<1>4. commit'[p] # None /\ commit'[p].at \in { "remove", "removing", "rename" }
        /\ temp'[p] = None => p \in cut'
  BY <1>1 DEF CommitSound, Replacing, At
<1>. QED BY <1>1, <1>3, <1>4 DEF CommitSound, Replacing, At

\* Its handlers and its client.
LEMMA PushKept ==
    ASSUME NEW p \in Pushes, PushSound(p), handlers'[p] \subseteq handlers[p],
           temp[p] # None => temp'[p] # None,
           client'[p].pc \in { "init", "task" } =>
               client[p].pc \in { "init", "task" } /\ block'[p] = block[p]
    PROVE  PushSound(p)'
BY DEF PushSound

\* No block is newly acknowledged, and those that are stay.
LEMMA AcknowledgedStay ==
    ASSUME NEW p \in Pushes, Acknowledged(p),
           aged \subseteq aged', published \subseteq published', damaged \subseteq damaged',
           client'[p].pc \in { "upload", "commit", "wait" } =>
               client[p].pc \in { "upload", "commit", "wait" },
           \A x \in BlocksOf(p) : block'[p][x] = "ok" => block[p][x] = "ok",
           \A x \in BlocksOf(p) : Kept(p, x) /\ p \notin aged' \cup published'
                                    /\ << p, x[1] >> \notin damaged' => Kept(p, x)'
    PROVE  Acknowledged(p)'
BY DEF Acknowledged

\* A block that is acknowledged stays where it is.
LEMMA KeptStays ==
    ASSUME NEW p \in Pushes, NEW x \in BlocksOf(p), Kept(p, x), temp'[p] = temp[p]
    PROVE  Kept(p, x)'
BY DEF Kept, PartsOf

\* All of it for a push that a step does not touch.
LEMMA OthersKept ==
    ASSUME NEW p \in Pushes, OneSound(p),
           temp'[p] = temp[p], merging'[p] = merging[p], commit'[p] = commit[p],
           handlers'[p] = handlers[p], client'[p] = client[p], block'[p] = block[p],
           damaged \subseteq damaged', cut \subseteq cut', aged \subseteq aged',
           published \subseteq published'
    PROVE  OneSound(p)'
<1>1. DirSound(p)' /\ MergeSound(p)'
  BY DirKept, MergeKept DEF OneSound
<1>2. CommitSound(p)'
  BY CommitKept DEF OneSound, CommitSound
<1>3. PushSound(p)'
  BY PushKept DEF OneSound
<1>4. Acknowledged(p)'
  BY AcknowledgedStay, KeptStays DEF OneSound
<1>. QED BY <1>1, <1>2, <1>3, <1>4 DEF OneSound

\* All of it for a push a directory of which is as it was, and no merge or commit of
\* which goes on: the client goes from one place to another.
LEMMA ClientMoves ==
    ASSUME NEW p \in Pushes, OneSound(p),
           temp'[p] = temp[p], merging'[p] = merging[p], commit'[p] \in { commit[p], None },
           handlers'[p] \subseteq handlers[p],
           damaged \subseteq damaged', cut \subseteq cut', aged \subseteq aged',
           published \subseteq published',
           commit'[p] # None => client'[p].pc \in { "wait", "failed" },
           client'[p].pc \in { "init", "task" } =>
               client[p].pc \in { "init", "task" } /\ block'[p] = block[p],
           client'[p].pc \in { "upload", "commit", "wait" } =>
               client[p].pc \in { "upload", "commit", "wait" },
           \A x \in BlocksOf(p) : block'[p][x] = "ok" => block[p][x] = "ok"
    PROVE  OneSound(p)'
<1>1. DirSound(p)' /\ MergeSound(p)'
  BY DirKept, MergeKept DEF OneSound
<1>2. CommitSound(p)'
  BY CommitKept DEF OneSound
<1>3. PushSound(p)'
  BY PushKept DEF OneSound
<1>4. Acknowledged(p)'
  BY AcknowledgedStay, KeptStays DEF OneSound
<1>. QED BY <1>1, <1>2, <1>3, <1>4 DEF OneSound

-----------------------------------------------------------------------------
(* What few steps concern *)

\* What the hub knows of the versions.
LEMMA InfoKept ==
    ASSUME InfoSound, info' = info, rows' \subseteq rows,
           \A p \in Pushes : client[p].pc = "init" => client'[p].pc = "init"
    PROVE  InfoSound'
BY DEF InfoSound

\* What is published.
LEMMA PublishedKept ==
    ASSUME PublishedWhole, project' = project, damaged \subseteq damaged'
    PROVE  PublishedWhole'
BY DEF PublishedWhole, WholeData

\* What may be lost.
LEMMA LostKept ==
    ASSUME LostOnlyWhenCut, project' = project, published' = published, cut \subseteq cut',
           \A p \in Pushes : At(p, "removing") \/ At(p, "rename") =>
               commit'[p] = commit[p] \/ p \in cut'
    PROVE  LostOnlyWhenCut'
BY DEF LostOnlyWhenCut, At

\* The cleaner.
LEMMA CleanKept ==
    ASSUME CleanSound, doomed' = doomed, cleaning' = cleaning, aged \subseteq aged',
           \A p \in Pushes : taskMap'[p] \in { taskMap[p], "active" }
    PROVE  CleanSound'
<1>1. "active" # None /\ "active" # "idle"
  BY NoneAssumption
<1>2. \A p \in Pushes : taskMap'[p] = "idle" => p \in aged'
  BY <1>1 DEF CleanSound
<1>3. \A p \in doomed' : taskMap'[p] = None => p \in aged'
  BY <1>1 DEF CleanSound
<1>4. cleaning' # None => cleaning' \in [ push : Pushes \cap aged', at : { "dir", "row" } ]
  BY DEF CleanSound
<1>. QED BY <1>2, <1>3, <1>4 DEF CleanSound

\* The names of blocks.
LEMMA BlockNames ==
    ASSUME NEW p \in Pushes
    PROVE  /\ \A x \in BlocksOf(p) :
                  /\ x = << x[1], x[2] >> /\ x[1] \in Files
                  /\ x[2] \in 1 .. Blocks[p][x[1]] /\ x[2] \in Nat
           /\ \A f, b : << f, b >> \in BlocksOf(p) => f \in Files /\ b \in 1 .. Blocks[p][f]
BY HubAssumption DEF BlocksOf

\* The parts of a file are replaced.
LEMMA PartsSet ==
    ASSUME Types, NEW p \in Pushes, NEW f \in Files, temp[p] # None, NEW S \in SUBSET Parts,
           temp' = [ temp EXCEPT ![p][f].parts = S ]
    PROVE  /\ temp' \in [ Pushes -> Dirs \cup { None } ] /\ temp'[p] \in Dirs /\ temp'[p] # None
           /\ temp'[p][f].parts = S /\ temp'[p][f].whole = temp[p][f].whole
           /\ \A g \in Files : g # f => temp'[p][g] = temp[p][g]
           /\ \A q \in Pushes : q # p => temp'[q] = temp[q]
<1>1. temp \in [ Pushes -> Dirs \cup { None } ] /\ temp[p] \in Dirs
  BY DEF Types
<1>2. temp[p] \in [ Files -> [ parts : SUBSET Parts, whole : Data \cup { None } ] ]
  BY <1>1 DEF Dirs
<1>3. /\ temp'[p] = [ temp[p] EXCEPT ![f].parts = S ]
      /\ \A q \in Pushes : q # p => temp'[q] = temp[q]
      /\ temp' = [ q \in Pushes |-> temp'[q] ]
  BY <1>1
<1>4. /\ temp'[p] \in [ Files -> [ parts : SUBSET Parts, whole : Data \cup { None } ] ]
      /\ temp'[p][f].parts = S /\ temp'[p][f].whole = temp[p][f].whole
      /\ \A g \in Files : g # f => temp'[p][g] = temp[p][g]
  BY <1>2, <1>3
<1>5. temp'[p] \in Dirs /\ temp'[p] # None
  BY <1>4, NoneAssumption DEF Dirs
<1>6. temp' \in [ Pushes -> Dirs \cup { None } ]
  <2>1. \A q \in Pushes : temp'[q] \in Dirs \cup { None }
    BY <1>1, <1>3, <1>5
  <2>. QED BY <1>3, <2>1
<1>. QED BY <1>3, <1>4, <1>5, <1>6

\* A file is replaced.
LEMMA FileSet ==
    ASSUME Types, NEW p \in Pushes, NEW f \in Files, temp[p] # None,
           NEW r \in [ parts : SUBSET Parts, whole : Data \cup { None } ],
           temp' = [ temp EXCEPT ![p][f] = r ]
    PROVE  /\ temp' \in [ Pushes -> Dirs \cup { None } ] /\ temp'[p] \in Dirs /\ temp'[p] # None
           /\ temp'[p][f] = r
           /\ \A g \in Files : g # f => temp'[p][g] = temp[p][g]
           /\ \A q \in Pushes : q # p => temp'[q] = temp[q]
<1>1. temp \in [ Pushes -> Dirs \cup { None } ] /\ temp[p] \in Dirs
  BY DEF Types
<1>2. temp[p] \in [ Files -> [ parts : SUBSET Parts, whole : Data \cup { None } ] ]
  BY <1>1 DEF Dirs
<1>3. /\ temp'[p] = [ temp[p] EXCEPT ![f] = r ]
      /\ \A q \in Pushes : q # p => temp'[q] = temp[q]
      /\ temp' = [ q \in Pushes |-> temp'[q] ]
  BY <1>1
<1>4. /\ temp'[p] \in [ Files -> [ parts : SUBSET Parts, whole : Data \cup { None } ] ]
      /\ temp'[p][f] = r
      /\ \A g \in Files : g # f => temp'[p][g] = temp[p][g]
  BY <1>2, <1>3
<1>5. temp'[p] \in Dirs /\ temp'[p] # None
  BY <1>4, NoneAssumption DEF Dirs
<1>6. temp' \in [ Pushes -> Dirs \cup { None } ]
  <2>1. \A q \in Pushes : temp'[q] \in Dirs \cup { None }
    BY <1>1, <1>3, <1>5
  <2>. QED BY <1>3, <2>1
<1>. QED BY <1>3, <1>4, <1>5, <1>6

-----------------------------------------------------------------------------
(* The steps of the client *)

\* A push begins by asking for the row of its task.
LEMMA InitUploadKeeps ==
    ASSUME PInv, NEW p \in Pushes, InitUpload(p)
    PROVE  PInv'
<1>. USE DEF InitUpload, UpsertProject, Goes, taskVars, cleanVars, ghostVars
<1>1. Types'
  <2>1. client' \in [ Pushes -> Clients ]
    <3>1. client \in [ Pushes -> Clients ] /\ client' = [ client EXCEPT ![p].pc = "task" ]
      BY DEF PInv, Types
    <3>. HIDE DEF InitUpload, UpsertProject, Goes, taskVars, cleanVars, ghostVars
    <3>2. [ client[p] EXCEPT !.pc = "task" ] \in Clients
      BY <3>1 DEF Clients
    <3>. QED BY <3>1, <3>2
  <2>2. /\ UNCHANGED << rows, temp, project, taskMap, handlers, pending, merging, commit, block >>
        /\ info' = p
    OBVIOUS
  <2>. HIDE DEF InitUpload, UpsertProject, Goes, taskVars, cleanVars, ghostVars
  <2>. QED BY <2>1, <2>2 DEF PInv, Types
<1>2. client'[p].pc = "task" /\ \A q \in Pushes : q # p => client'[q] = client[q]
  BY DEF PInv, Types, Clients
<1>3. commit[p] = None
  BY DEF PInv, OneSound, CommitSound
<1>4. OneSound(p)'
  BY <1>2, <1>3, ClientMoves DEF PInv
<1>5. \A q \in Pushes : q # p => OneSound(q)'
  BY <1>2, OthersKept DEF PInv
<1>6. InfoSound'
  BY HubAssumption DEF InfoSound
<1>7. CleanSound' /\ PublishedWhole' /\ LostOnlyWhenCut'
  BY CleanKept, PublishedKept, LostKept DEF PInv
<1>. QED BY <1>1, <1>4, <1>5, <1>6, <1>7 DEF PInv

\* It is given one, with no directory yet.
LEMMA TaskCreatedKeeps ==
    ASSUME PInv, NEW p \in Pushes, TaskCreated(p)
    PROVE  PInv'
<1>. USE DEF TaskCreated, InsertTask, taskVars, cleanVars, ghostVars
<1>1. EmptyDir \in Dirs /\ EmptyDir # None
  BY NoneAssumption DEF EmptyDir, Dirs, NoFile
<1>2. temp' = [ temp EXCEPT ![p] = EmptyDir ] /\ temp'[p] = EmptyDir
      /\ \A q \in Pushes : q # p => temp'[q] = temp[q]
  BY DEF PInv, Types
<1>3. client'[p].pc = "upload" /\ \A q \in Pushes : q # p => client'[q] = client[q]
  BY DEF PInv, Types, Client
<1>4. Types'
  BY <1>1 DEF PInv, Types, Clients, Client
<1>5. commit[p] = None
  BY DEF PInv, OneSound, CommitSound
<1>6. \A x \in BlocksOf(p) : block[p][x] # "ok"
  BY DEF PInv, OneSound, PushSound
<1>7. OneSound(p)'
  <2>1. \A f \in Files : temp'[p][f].parts = {} /\ temp'[p][f].whole = None
    BY <1>2 DEF EmptyDir, NoFile
  <2>2. DirSound(p)'
    BY <2>1 DEF DirSound, PartsNamed, DataSound, PartsOf, Merged
  <2>3. MergeSound(p)'
    BY MergeKept DEF PInv, OneSound
  <2>4. CommitSound(p)'
    BY <1>5 DEF CommitSound, Replacing, At
  <2>5. PushSound(p)'
    BY <1>1, <1>2, <1>3 DEF PushSound
  <2>6. Acknowledged(p)'
    BY <1>6 DEF Acknowledged
  <2>. QED BY <2>2, <2>3, <2>4, <2>5, <2>6 DEF OneSound
<1>8. \A q \in Pushes : q # p => OneSound(q)'
  BY <1>2, <1>3, OthersKept DEF PInv
<1>9. InfoSound'
  BY DEF PInv, InfoSound
<1>10. CleanSound' /\ PublishedWhole' /\ LostOnlyWhenCut'
  BY CleanKept, PublishedKept, LostKept DEF PInv
<1>. QED BY <1>4, <1>7, <1>8, <1>9, <1>10 DEF PInv

\* A block that is sent has its handler, and the task its directory.
LEMMA SendBlockKeeps ==
    ASSUME PInv, NEW p \in Pushes, NEW x \in BlocksOf(p), SendBlock(p, x)
    PROVE  PInv'
<1>. USE DEF SendBlock, ReceiveBlock, cleanVars, ghostVars
<1>1. EmptyDir \in Dirs /\ EmptyDir # None
  BY NoneAssumption DEF EmptyDir, Dirs, NoFile
<1>2. /\ temp'[p] = IF temp[p] = None THEN EmptyDir ELSE temp[p]
      /\ \A q \in Pushes : q # p => temp'[q] = temp[q]
  BY DEF PInv, Types
<1>3. PICK h \in Handlers : h = Handler(x[1], x[2], taskMap[p] # None)
  <2>1. PICK counted \in BOOLEAN : counted = (taskMap[p] # None)
    OBVIOUS
  <2>2. x[1] \in Files /\ x[2] \in Nat
    BY BlockNames
  <2>3. Handler(x[1], x[2], counted) \in Handlers
    BY <2>2 DEF Handler, Handlers
  <2>. QED BY <2>1, <2>3
<1>4. /\ handlers'[p] = handlers[p] \cup { h }
      /\ \A q \in Pushes : q # p => handlers'[q] = handlers[q]
  BY <1>3 DEF PInv, Types
<1>5. << h.file, h.seq >> \in BlocksOf(p)
  BY <1>3, BlockNames DEF Handler
<1>6. /\ block'[p] = [ block[p] EXCEPT ![x] = "busy" ]
      /\ \A q \in Pushes : q # p => block'[q] = block[q]
  BY DEF PInv, Types
<1>7. Types'
  <2>1. temp' \in [ Pushes -> Dirs \cup { None } ]
    BY <1>1 DEF PInv, Types
  <2>2. handlers' \in [ Pushes -> SUBSET Handlers ]
    BY <1>3 DEF PInv, Types
  <2>3. block' = [ q \in Pushes |-> block'[q] ]
        /\ \A q \in Pushes : block'[q] \in [ BlocksOf(q) -> { "todo", "busy", "ok", "failed" } ]
    BY <1>6 DEF PInv, Types
  <2>4. \A q \in Pushes : \A g \in handlers'[q] : << g.file, g.seq >> \in BlocksOf(q)
    BY <1>4, <1>5 DEF PInv, Types
  <2>. QED BY <2>1, <2>2, <2>3, <2>4 DEF PInv, Types
<1>8. commit[p] = None
  BY DEF PInv, OneSound, CommitSound
<1>9. \A y \in BlocksOf(p) : block'[p][y] = "ok" => block[p][y] = "ok"
  BY <1>6 DEF PInv, Types
<1>10. OneSound(p)'
  <2>1. DirSound(p)'
    <3>1. CASE temp[p] = None
      <4>1. \A f \in Files : temp'[p][f].parts = {} /\ temp'[p][f].whole = None
        BY <1>2, <3>1 DEF EmptyDir, NoFile
      <4>. QED BY <4>1 DEF DirSound, PartsNamed, DataSound, PartsOf, Merged
    <3>2. CASE temp[p] # None
      BY <1>2, <3>2, DirKept DEF PInv, OneSound
    <3>. QED BY <3>1, <3>2
  <2>2. MergeSound(p)'
    BY MergeKept DEF PInv, OneSound
  <2>3. CommitSound(p)'
    BY <1>8 DEF CommitSound, Replacing, At
  <2>4. PushSound(p)'
    BY <1>1, <1>2 DEF PushSound
  <2>5. \A y \in BlocksOf(p) : Kept(p, y) => Kept(p, y)'
    BY <1>2, KeptStays DEF Kept
  <2>6. Acknowledged(p)'
    BY <1>9, <2>5, AcknowledgedStay DEF PInv, OneSound
  <2>. QED BY <2>1, <2>2, <2>3, <2>4, <2>6 DEF OneSound
<1>11. \A q \in Pushes : q # p => OneSound(q)'
  BY <1>2, <1>4, <1>6, OthersKept DEF PInv
<1>12. InfoSound'
  BY InfoKept DEF PInv
<1>13. CleanSound' /\ PublishedWhole' /\ LostOnlyWhenCut'
  BY CleanKept, PublishedKept, LostKept DEF PInv
<1>. QED BY <1>7, <1>10, <1>11, <1>12, <1>13 DEF PInv

\* A block that is refused, or whose request is lost.
LEMMA BlockNotSent ==
    ASSUME PInv, NEW p \in Pushes, NEW x \in BlocksOf(p),
           BlockRefused(p, x) \/ BlockLost(p, x)
    PROVE  PInv'
<1>. USE DEF hubVars, diskVars, taskVars, cleanVars, ghostVars
<1>1. /\ client[p].pc = "upload" /\ client' = client
      /\ block' = [ block EXCEPT ![p][x] = "failed" ]
      /\ UNCHANGED << diskVars, taskVars, cleanVars, ghostVars >>
  BY DEF BlockRefused, BlockLost
<1>2. /\ block'[p] = [ block[p] EXCEPT ![x] = "failed" ]
      /\ \A q \in Pushes : q # p => block'[q] = block[q]
      /\ block' = [ q \in Pushes |-> block'[q] ]
  BY <1>1 DEF PInv, Types
<1>3. \A y \in BlocksOf(p) : block'[p][y] = "ok" => block[p][y] = "ok"
  BY <1>2 DEF PInv, Types
<1>4. Types'
  BY <1>1, <1>2 DEF PInv, Types
<1>5. OneSound(p)'
  BY <1>1, <1>3, ClientMoves DEF PInv, OneSound, CommitSound
<1>6. \A q \in Pushes : q # p => OneSound(q)'
  BY <1>1, <1>2, OthersKept DEF PInv
<1>7. InfoSound'
  BY <1>1, InfoKept DEF PInv
<1>8. CleanSound' /\ PublishedWhole' /\ LostOnlyWhenCut'
  BY <1>1, CleanKept, PublishedKept, LostKept DEF PInv
<1>. QED BY <1>4, <1>5, <1>6, <1>7, <1>8 DEF PInv

\* A round ends when every block is stored or has failed.
LEMMA RoundOverKeeps ==
    ASSUME PInv, NEW p \in Pushes, RoundOver(p)
    PROVE  PInv'
<1>. USE DEF hubVars, diskVars, taskVars, cleanVars, ghostVars
<1>1. client[p].pc = "upload" /\ UNCHANGED hubVars
  BY DEF RoundOver
<1>. DEFINE failing == { x \in BlocksOf(p) : block[p][x] = "failed" }
<1>2. client[p] \in Clients /\ client[p].round \in Nat /\ client[p].tries \in Nat
      /\ client[p].ok \in BOOLEAN /\ MaxTry \in Nat
  BY PushAssumption DEF PInv, Types, Clients
<1>3. /\ client'[p] \in Clients /\ client'[p].pc \in { "upload", "failed", "succeeded", "commit" }
      /\ client' = [ client EXCEPT ![p] = client'[p] ]
      /\ block' = [ q \in Pushes |-> block'[q] ]
      /\ block'[p] \in [ BlocksOf(p) -> { "todo", "busy", "ok", "failed" } ]
      /\ \A x \in BlocksOf(p) : block'[p][x] = "ok" => block[p][x] = "ok"
      /\ \A q \in Pushes : q # p => block'[q] = block[q]
  <2>1. CASE failing # {} /\ client[p].round < MaxTry
    <3>1. /\ client' = [ client EXCEPT ![p].round = @ + 1 ]
          /\ block' = [ block EXCEPT ![p] = [ x \in BlocksOf(p) |->
                                IF x \in failing THEN "todo" ELSE @[x] ] ]
      BY <2>1 DEF RoundOver
    <3>2. client'[p] = [ client[p] EXCEPT !.round = client[p].round + 1 ]
          /\ client' = [ client EXCEPT ![p] = client'[p] ]
      BY <3>1 DEF PInv, Types
    <3>3. client'[p] \in Clients /\ client'[p].pc = "upload"
      BY <1>1, <1>2, <3>2 DEF Clients
    <3>4. block'[p] = [ x \in BlocksOf(p) |-> IF x \in failing THEN "todo" ELSE block[p][x] ]
          /\ (\A q \in Pushes : q # p => block'[q] = block[q])
          /\ block' = [ q \in Pushes |-> block'[q] ]
      BY <3>1 DEF PInv, Types
    <3>5. block[p] \in [ BlocksOf(p) -> { "todo", "busy", "ok", "failed" } ]
      BY DEF PInv, Types
    <3>. HIDE DEF failing
    <3>. QED BY <3>2, <3>3, <3>4, <3>5
  <2>2. CASE ~(failing # {} /\ client[p].round < MaxTry)
    <3>1. PICK c : /\ c = (IF failing # {} /\ client[p].tries = 0 THEN Client("failed", 0, 0, FALSE)
                           ELSE IF client[p].tries = MaxTry
                           THEN Client(IF client[p].ok THEN "succeeded" ELSE "failed", 0, 0, client[p].ok)
                           ELSE Client("commit", 0, client[p].tries, client[p].ok))
      OBVIOUS
    <3>2. client' = [ client EXCEPT ![p] = c ] /\ block' = block
      BY <2>2, <3>1 DEF RoundOver
    <3>3. c \in Clients /\ c.pc \in { "upload", "failed", "succeeded", "commit" }
      <4>1. c \in { Client("failed", 0, 0, FALSE), Client("succeeded", 0, 0, client[p].ok),
                    Client("failed", 0, 0, client[p].ok),
                    Client("commit", 0, client[p].tries, client[p].ok) }
        BY <3>1
      <4>2. \A pc \in { "failed", "succeeded", "commit" } : \A n \in Nat : \A b \in BOOLEAN :
                Client(pc, 0, n, b) \in Clients /\ Client(pc, 0, n, b).pc = pc
        BY DEF Client, Clients
      <4>3. FALSE \in BOOLEAN /\ 0 \in Nat
        OBVIOUS
      <4>4. /\ Client("failed", 0, 0, FALSE) \in Clients
            /\ Client("failed", 0, 0, FALSE).pc = "failed"
        BY <4>2, <4>3, Zenon
      <4>5. /\ Client("succeeded", 0, 0, client[p].ok) \in Clients
            /\ Client("succeeded", 0, 0, client[p].ok).pc = "succeeded"
            /\ Client("failed", 0, 0, client[p].ok) \in Clients
            /\ Client("failed", 0, 0, client[p].ok).pc = "failed"
        BY <1>2, <4>2, <4>3, Zenon
      <4>6. /\ Client("commit", 0, client[p].tries, client[p].ok) \in Clients
            /\ Client("commit", 0, client[p].tries, client[p].ok).pc = "commit"
        BY <1>2, <4>2, Zenon
      <4>. QED BY <4>1, <4>4, <4>5, <4>6
    <3>4. client'[p] = c
      BY <3>2 DEF PInv, Types
    <3>. QED BY <3>2, <3>3, <3>4 DEF PInv, Types
  <2>. QED BY <2>1, <2>2
<1>4. \A q \in Pushes : q # p => client'[q] = client[q]
  BY <1>3 DEF PInv, Types
<1>5. Types'
  <2>1. client' \in [ Pushes -> Clients ]
    BY <1>3 DEF PInv, Types
  <2>. QED BY <1>1, <1>3, <2>1 DEF PInv, Types
<1>6. OneSound(p)'
  BY <1>1, <1>3, ClientMoves DEF PInv, OneSound, CommitSound
<1>7. \A q \in Pushes : q # p => OneSound(q)'
  BY <1>1, <1>3, <1>4, OthersKept DEF PInv
<1>8. InfoSound'
  BY <1>1, <1>4, InfoKept DEF PInv
<1>9. CleanSound' /\ PublishedWhole' /\ LostOnlyWhenCut'
  BY <1>1, CleanKept, PublishedKept, LostKept DEF PInv
<1>. QED BY <1>5, <1>6, <1>7, <1>8, <1>9 DEF PInv

\* Then the commit is sent.
LEMMA SendCommitKeeps ==
    ASSUME PInv, NEW p \in Pushes, SendCommit(p)
    PROVE  PInv'
<1>. USE DEF SendCommit, CommitBegin, diskVars, cleanVars, ghostVars
<1>1. info \in Pushes
  BY DEF PInv, Types, InfoSound
<1>2. PICK c \in Commits : c = [ at |-> "check", info |-> info ]
  BY <1>1 DEF Commits
<1>3. /\ commit'[p] = c /\ c.at = "check" /\ c.info = info
      /\ \A q \in Pushes : q # p => commit'[q] = commit[q]
  BY <1>2 DEF PInv, Types
<1>4. /\ client'[p] = Client("wait", 0, client[p].tries + 1, client[p].ok)
      /\ \A q \in Pushes : q # p => client'[q] = client[q]
  BY DEF PInv, Types
<1>5. client'[p].pc = "wait"
  BY <1>4 DEF Client
<1>6. Types'
  <2>1. commit' \in [ Pushes -> Commits \cup { None } ]
    BY <1>2 DEF PInv, Types
  <2>2. client' \in [ Pushes -> Clients ]
    BY DEF PInv, Types, Client, Clients
  <2>. QED BY <2>1, <2>2 DEF PInv, Types
<1>7. OneSound(p)'
  <2>1. DirSound(p)' /\ MergeSound(p)'
    BY DirKept, MergeKept DEF PInv, OneSound
  <2>2. CommitSound(p)'
    BY <1>1, <1>3, <1>5 DEF CommitSound, Replacing, At
  <2>3. PushSound(p)'
    BY <1>5, PushKept DEF PInv, OneSound
  <2>4. Acknowledged(p)'
    BY <1>5, AcknowledgedStay, KeptStays DEF PInv, OneSound
  <2>. QED BY <2>1, <2>2, <2>3, <2>4 DEF OneSound
<1>8. \A q \in Pushes : q # p => OneSound(q)'
  BY <1>3, <1>4, OthersKept DEF PInv
<1>9. InfoSound'
  BY <1>4, InfoKept DEF PInv
<1>10. \A q \in Pushes : At(q, "removing") \/ At(q, "rename") => commit'[q] = commit[q]
  BY <1>3 DEF At, PInv, OneSound, CommitSound
<1>11. CleanSound' /\ PublishedWhole' /\ LostOnlyWhenCut'
  BY <1>10, CleanKept, PublishedKept, LostKept DEF PInv
<1>. QED BY <1>6, <1>7, <1>8, <1>9, <1>11 DEF PInv

\* A commit that is refused, or whose request fails.
LEMMA CommitNotServed ==
    ASSUME PInv, NEW p \in Pushes, CommitRefused(p) \/ CommitLost(p)
    PROVE  PInv'
<1>. USE DEF hubVars, diskVars, taskVars, cleanVars, ghostVars
<1>1. /\ client[p].pc \in { "commit", "wait" } /\ block' = block
      /\ UNCHANGED << diskVars, taskVars, cleanVars, ghostVars >>
      /\ CommitRefused(p) => client[p].pc = "commit"
  BY DEF CommitRefused, CommitLost
<1>2. client[p] \in Clients /\ client[p].tries + 1 \in Nat
  BY DEF PInv, Types, Clients
<1>3. /\ client'[p] \in Clients /\ client'[p].pc \in { "failed", "commit" }
      /\ client' = [ client EXCEPT ![p] = client'[p] ]
      /\ CommitLost(p) => client'[p].pc = "failed"
  <2>1. CASE CommitRefused(p) /\ ~CommitLost(p)
    <3>1. PICK c : c = Client(IF client[p].tries + 1 = MaxTry THEN "failed" ELSE "commit", 0,
                              client[p].tries + 1, FALSE)
      OBVIOUS
    <3>2. client' = [ client EXCEPT ![p] = c ]
      BY <2>1, <3>1 DEF CommitRefused, TriesAgain
    <3>3. c \in Clients /\ c.pc \in { "failed", "commit" }
      BY <1>2, <3>1 DEF Client, Clients
    <3>4. client'[p] = c
      BY <3>2 DEF PInv, Types
    <3>. QED BY <2>1, <3>2, <3>3, <3>4
  <2>2. CASE CommitLost(p)
    <3>1. client' = [ client EXCEPT ![p].pc = "failed" ]
      BY <2>2 DEF CommitLost, Goes
    <3>2. client'[p] = [ client[p] EXCEPT !.pc = "failed" ]
          /\ client' = [ client EXCEPT ![p] = client'[p] ]
      BY <3>1 DEF PInv, Types
    <3>3. client'[p] \in Clients /\ client'[p].pc = "failed"
      BY <1>2, <3>2 DEF Clients
    <3>. QED BY <3>2, <3>3
  <2>. QED BY <2>1, <2>2
<1>4. \A q \in Pushes : q # p => client'[q] = client[q]
  BY <1>3 DEF PInv, Types
<1>5. Types'
  <2>1. client' \in [ Pushes -> Clients ]
    BY <1>3 DEF PInv, Types
  <2>. QED BY <1>1, <2>1 DEF PInv, Types
<1>6. commit[p] # None => CommitLost(p)
  BY <1>1 DEF CommitRefused, PInv, OneSound, CommitSound
<1>7. OneSound(p)'
  BY <1>1, <1>3, <1>6, ClientMoves DEF PInv, OneSound, CommitSound
<1>8. \A q \in Pushes : q # p => OneSound(q)'
  BY <1>1, <1>4, OthersKept DEF PInv
<1>9. InfoSound'
  BY <1>1, <1>4, InfoKept DEF PInv
<1>10. CleanSound' /\ PublishedWhole' /\ LostOnlyWhenCut'
  BY <1>1, CleanKept, PublishedKept, LostKept DEF PInv
<1>. QED BY <1>5, <1>7, <1>8, <1>9, <1>10 DEF PInv

-----------------------------------------------------------------------------
(* Blocks that are received *)

\* A block is stored before it is acknowledged.
LEMMA BlockStoredKeeps ==
    ASSUME PInv, NEW p \in Pushes, NEW h \in handlers[p], BlockStored(p, h)
    PROVE  PInv'
<1>. USE DEF BlockStored, StoreBlock, cleanVars
<1>1. PICK f \in Files, b \in Nat : f = h.file /\ b = h.seq
  BY DEF PInv, Types, Handlers
<1>2. << f, b >> \in BlocksOf(p) /\ b \in 1 .. Blocks[p][f]
  BY <1>1, BlockNames DEF PInv, Types
<1>3. temp[p] # None /\ temp[p] \in Dirs
  BY DEF PInv, Types, OneSound, PushSound
<1>4. temp[p][f].parts \in SUBSET Parts
  BY <1>3 DEF Dirs
<1>5. << b >> \in Data /\ Part(b, FALSE, << b >>) \in Parts
  BY DEF Data, Parts, Part
<1>6. PICK y \in Parts : y = Part(b, FALSE, << b >>)
  BY <1>5
<1>7. y.seq = b /\ y.merged = FALSE /\ y.data = << b >>
  BY <1>6 DEF Part
<1>8. PICK S \in SUBSET Parts :
          S = { x \in temp[p][f].parts : x.seq # b \/ x.merged } \cup { y }
  BY <1>4, Zenon
<1>9. temp' = [ temp EXCEPT ![p][f].parts = S ]
  BY <1>1, <1>6, <1>8
<1>10. /\ temp' \in [ Pushes -> Dirs \cup { None } ] /\ temp'[p] # None
       /\ temp'[p][f].parts = S /\ temp'[p][f].whole = temp[p][f].whole
       /\ \A g \in Files : g # f => temp'[p][g] = temp[p][g]
       /\ \A q \in Pushes : q # p => temp'[q] = temp[q]
  <2>1. Types
    BY DEF PInv
  <2>2. p \in Pushes /\ f \in Files /\ S \in SUBSET Parts
    OBVIOUS
  <2>3. temp[p] # None
    BY <1>3
  <2>4. /\ temp' \in [ Pushes -> Dirs \cup { None } ] /\ temp'[p] \in Dirs /\ temp'[p] # None
        /\ temp'[p][f].parts = S /\ temp'[p][f].whole = temp[p][f].whole
        /\ \A g \in Files : g # f => temp'[p][g] = temp[p][g]
        /\ \A q \in Pushes : q # p => temp'[q] = temp[q]
    BY <1>9, <2>1, <2>2, <2>3, PartsSet
  <2>. QED BY <2>4
<1>11. handlers'[p] \subseteq handlers[p] /\ \A q \in Pushes : q # p => handlers'[q] = handlers[q]
  BY DEF PInv, Types
<1>12. /\ \A q \in Pushes : q # p => block'[q] = block[q]
       /\ block' = [ q \in Pushes |-> block'[q] ]
       /\ block'[p] \in [ BlocksOf(p) -> { "todo", "busy", "ok", "failed" } ]
       /\ \A x \in BlocksOf(p) : x # << f, b >> => block'[p][x] = block[p][x]
  BY <1>1, <1>2 DEF Answered, PInv, Types
<1>13. Types'
  <2>1. taskMap' \in [ Pushes -> { None, "active", "idle" } ]
    BY DEF PInv, Types
  <2>2. handlers' \in [ Pushes -> SUBSET Handlers ]
    BY DEF PInv, Types
  <2>3. pending' \in [ Pushes -> SUBSET Files ]
    BY <1>1 DEF PInv, Types
  <2>. QED BY <1>10, <1>11, <1>12, <2>1, <2>2, <2>3 DEF PInv, Types
<1>14. damaged \subseteq damaged'
  OBVIOUS
<1>15. OneSound(p)'
  <2>1. \A x \in S : x = y \/ (x \in PartsOf(p, f) /\ (x.seq # b \/ x.merged))
    BY <1>8 DEF PartsOf
  <2>2. ASSUME NEW g \in Files PROVE PartsNamed(p, g)' /\ DataSound(p, g)'
    <3>1. PartsNamed(p, g) /\ DataSound(p, g)
      BY <1>3 DEF PInv, OneSound, DirSound
    <3>2. CASE g # f
      <4>1. temp'[p][g] = temp[p][g] /\ merging' = merging
        BY <1>10, <3>2
      <4>. QED BY <3>1, <4>1, <1>14, ZenonT(60) DEF PartsNamed, DataSound, PartData, IsHead, BeingMerged,
                              PartsOf, Merged, WholeData
    <3>3. CASE g = f
      <4>1. PartsOf(p, f)' = S /\ merging' = merging
        BY <1>10 DEF PartsOf
      <4>2. \A x \in S : x.seq \in 1 .. Blocks[p][f]
        BY <1>2, <1>7, <2>1, <3>1, <3>3 DEF PartsNamed
      <4>3. \A x, z \in S : x.merged = z.merged /\ (x.merged \/ x.seq = z.seq) => x = z
        <5> SUFFICES ASSUME NEW x \in S, NEW z \in S,
                            x.merged = z.merged, x.merged \/ x.seq = z.seq
                     PROVE  x = z
          OBVIOUS
        <5>1. CASE x # y /\ z # y
          BY <5>1, <2>1, <3>1, <3>3 DEF PartsNamed
        <5>2. CASE x = y \/ z = y
          BY <5>2, <1>7, <2>1
        <5>. QED BY <5>1, <5>2
      <4>4. \A x \in S : x.merged => x \in Merged(p, f)
        BY <1>7, <2>1 DEF Merged
      <4>5. BeingMerged(p, f)' /\ ~merging[p].head.merged => Merged(p, f)' = {}
        BY <3>1, <3>3, <4>1, <4>4 DEF PartsNamed, BeingMerged, Merged
      <4>6. PartsNamed(p, f)'
        BY <4>1, <4>2, <4>3, <4>5 DEF PartsNamed
      <4>7. ASSUME << p, f >> \notin damaged' PROVE DataSound(p, f)'
        <5>1. ~Appending(p, f, b) /\ << p, f >> \notin damaged
          BY <1>1, <4>7
        <5>2. \A x \in PartsOf(p, f) : x.data = PartData(p, f, x)
          BY <3>1, <3>3, <5>1 DEF DataSound
        <5>3. \A x \in S : x # y => x.data = PartData(p, f, x)
          BY <2>1, <5>2
        <5>4. ~IsHead(p, f, y)
          BY <1>7, <5>1 DEF IsHead, BeingMerged, Appending
        <5>5. y.data = PartData(p, f, y)
          BY <1>7, <5>4 DEF PartData
        <5>6. \A x \in S : x.data = PartData(p, f, x)'
          BY <4>1, <5>3, <5>5 DEF PartData, IsHead, BeingMerged
        <5>7. temp'[p][f].whole # None => temp'[p][f].whole = WholeData(p, f)
          BY <1>10, <3>1, <3>3, <5>1 DEF DataSound
        <5>. QED BY <4>1, <5>6, <5>7 DEF DataSound, WholeData
      <4>8. DataSound(p, f)'
        BY <4>7 DEF DataSound
      <4>. QED BY <3>3, <4>6, <4>8
    <3>. QED BY <3>2, <3>3
  <2>3. DirSound(p)'
    BY <2>2 DEF DirSound
  <2>4. MergeSound(p)'
    BY <1>14, MergeKept DEF PInv, OneSound
  <2>5. \A g \in Files : temp[p][g].whole = temp'[p][g].whole
    BY <1>10
  <2>6. CommitSound(p)'
    <3>1. CommitSound(p)
      BY DEF PInv, OneSound
    <3>2. commit'[p] = commit[p] /\ cut' = cut /\ client'[p] = client[p]
      OBVIOUS
    <3>. HIDE DEF BlockStored, StoreBlock, cleanVars
    <3>3. commit[p] # None => client[p].pc \in { "wait", "failed" }
      BY <3>1 DEF CommitSound
    <3>4. commit'[p] \in { commit[p], None } /\ cut \subseteq cut'
      BY <3>2
    <3>. QED BY <1>3, <1>10, <2>5, <3>1, <3>2, <3>3, <3>4, CommitKept
  <2>7. PushSound(p)'
    BY <1>10, <1>11 DEF PInv, OneSound, PushSound
  <2>8. ASSUME NEW x \in BlocksOf(p), Kept(p, x) PROVE Kept(p, x)'
    <3>1. x[1] \in Files /\ temp'[p][x[1]].whole = temp[p][x[1]].whole
      BY <2>5, BlockNames
    <3>2. CASE temp[p][x[1]].whole # None
      BY <1>10, <3>1, <3>2 DEF Kept
    <3>3. CASE temp[p][x[1]].whole = None
      <4>1. PICK z \in PartsOf(p, x[1]) : z.seq = x[2] \/ (z.merged /\ z.seq > x[2])
        BY <2>8, <3>3 DEF Kept
      <4>2. CASE z \in PartsOf(p, x[1])'
        BY <1>10, <4>1, <4>2 DEF Kept
      <4>3. CASE z \notin PartsOf(p, x[1])'
        <5>1. x[1] = f
          BY <1>10, <3>1, <4>1, <4>3 DEF PartsOf
        <5>2. z.seq = b /\ ~z.merged
          BY <1>8, <1>10, <4>1, <4>3, <5>1 DEF PartsOf
        <5>3. y \in PartsOf(p, x[1])' /\ y.seq = x[2]
          BY <1>7, <1>8, <1>10, <4>1, <5>1, <5>2 DEF PartsOf
        <5>. QED BY <1>10, <5>3 DEF Kept
      <4>. QED BY <4>2, <4>3
    <3>. QED BY <3>2, <3>3
  <2>9. Kept(p, << f, b >>)'
    BY <1>7, <1>8, <1>10 DEF Kept, PartsOf
  <2>10. Acknowledged(p)'
    BY <1>12, <1>14, <2>8, <2>9 DEF PInv, OneSound, Acknowledged
  <2>. QED BY <2>3, <2>4, <2>6, <2>7, <2>10 DEF OneSound
<1>16. \A q \in Pushes : q # p => OneSound(q)'
  BY <1>10, <1>11, <1>12, <1>14, OthersKept DEF PInv
<1>17. InfoSound'
  BY InfoKept DEF PInv
<1>18. CleanSound'
  <2>1. \A q \in Pushes : taskMap'[q] \in { taskMap[q], "active" }
    BY DEF PInv, Types
  <2>. QED BY <2>1, CleanKept DEF PInv
<1>19. PublishedWhole' /\ LostOnlyWhenCut'
  BY <1>14, PublishedKept, LostKept DEF PInv
<1>. QED BY <1>13, <1>15, <1>16, <1>17, <1>18, <1>19 DEF PInv

\* One that fails is not acknowledged.
LEMMA BlockFailsKeeps ==
    ASSUME PInv, NEW p \in Pushes, NEW h \in handlers[p], BlockFails(p, h)
    PROVE  PInv'
<1>. USE DEF BlockFails, StoreFails, diskVars, cleanVars, ghostVars
<1>1. << h.file, h.seq >> \in BlocksOf(p)
  BY DEF PInv, Types
<1>2. handlers'[p] \subseteq handlers[p] /\ \A q \in Pushes : q # p => handlers'[q] = handlers[q]
  BY DEF PInv, Types
<1>3. /\ \A q \in Pushes : q # p => block'[q] = block[q]
      /\ block' = [ q \in Pushes |-> block'[q] ]
      /\ block'[p] \in [ BlocksOf(p) -> { "todo", "busy", "ok", "failed" } ]
      /\ \A x \in BlocksOf(p) : block'[p][x] = "ok" => block[p][x] = "ok"
  BY <1>1 DEF Answered, PInv, Types
<1>4. Types'
  <2>1. handlers' \in [ Pushes -> SUBSET Handlers ]
    BY DEF PInv, Types
  <2>. QED BY <1>2, <1>3, <2>1 DEF PInv, Types
<1>5. client[p].pc \notin { "init", "task" }
  BY DEF PInv, OneSound, PushSound
<1>6. OneSound(p)'
  BY <1>2, <1>3, <1>5, ClientMoves DEF PInv, OneSound, CommitSound
<1>7. \A q \in Pushes : q # p => OneSound(q)'
  BY <1>2, <1>3, OthersKept DEF PInv
<1>8. InfoSound'
  BY InfoKept DEF PInv
<1>9. CleanSound' /\ PublishedWhole' /\ LostOnlyWhenCut'
  BY CleanKept, PublishedKept, LostKept DEF PInv
<1>. QED BY <1>4, <1>6, <1>7, <1>8, <1>9 DEF PInv

\* Nor is one whose answer is lost.
LEMMA AnswerLostKeeps ==
    ASSUME PInv, NEW p \in Pushes, NEW h \in handlers[p], AnswerLost(p, h)
    PROVE  PInv'
<1>. USE DEF AnswerLost, diskVars, cleanVars, ghostVars
<1>1. << h.file, h.seq >> \in BlocksOf(p) /\ h \in Handlers
  BY DEF PInv, Types
<1>2. /\ [ h EXCEPT !.late = TRUE ] \in Handlers
      /\ [ h EXCEPT !.late = TRUE ].file = h.file /\ [ h EXCEPT !.late = TRUE ].seq = h.seq
      /\ [ h EXCEPT !.late = TRUE ].held = h.held
  BY <1>1 DEF Handlers
<1>3. PICK g \in Handlers : /\ g = [ h EXCEPT !.late = TRUE ]
                            /\ g.file = h.file /\ g.seq = h.seq /\ g.held = h.held
  BY <1>2
<1>4. /\ handlers'[p] = (handlers[p] \ { h }) \cup { g }
      /\ \A q \in Pushes : q # p => handlers'[q] = handlers[q]
  BY <1>3 DEF PInv, Types
<1>5. /\ \A q \in Pushes : q # p => block'[q] = block[q]
      /\ block' = [ q \in Pushes |-> block'[q] ]
      /\ block'[p] \in [ BlocksOf(p) -> { "todo", "busy", "ok", "failed" } ]
      /\ \A x \in BlocksOf(p) : block'[p][x] = "ok" => block[p][x] = "ok"
  BY <1>1 DEF PInv, Types
<1>6. Types'
  <2>1. handlers' \in [ Pushes -> SUBSET Handlers ]
    BY <1>3 DEF PInv, Types
  <2>2. \A q \in Pushes : \A k \in handlers'[q] : << k.file, k.seq >> \in BlocksOf(q)
    BY <1>1, <1>3, <1>4 DEF PInv, Types
  <2>. QED BY <1>5, <2>1, <2>2 DEF PInv, Types
<1>7. client[p].pc \notin { "init", "task" }
  BY DEF PInv, OneSound, PushSound
<1>8. OneSound(p)'
  <2>1. DirSound(p)' /\ MergeSound(p)'
    BY DirKept, MergeKept DEF PInv, OneSound
  <2>2. CommitSound(p)'
    BY CommitKept DEF PInv, OneSound, CommitSound
  <2>3. PushSound(p)'
    BY <1>3, <1>4, <1>7 DEF PInv, OneSound, PushSound
  <2>4. Acknowledged(p)'
    BY <1>5, AcknowledgedStay, KeptStays DEF PInv, OneSound
  <2>. QED BY <2>1, <2>2, <2>3, <2>4 DEF OneSound
<1>9. \A q \in Pushes : q # p => OneSound(q)'
  BY <1>4, <1>5, OthersKept DEF PInv
<1>10. InfoSound'
  BY InfoKept DEF PInv
<1>11. CleanSound' /\ PublishedWhole' /\ LostOnlyWhenCut'
  BY CleanKept, PublishedKept, LostKept DEF PInv
<1>. QED BY <1>6, <1>8, <1>9, <1>10, <1>11 DEF PInv

-----------------------------------------------------------------------------
(* Commits *)

\* Where a client is.
LEMMA ClientIs ==
    ASSUME NEW pc \in { "init", "task", "upload", "commit", "wait", "succeeded", "failed" },
           NEW n \in Nat, NEW m \in Nat, NEW b \in BOOLEAN
    PROVE  Client(pc, n, m, b) \in Clients /\ Client(pc, n, m, b).pc = pc
BY DEF Client, Clients

\* An answer moves the client of one push only.
LEMMA ClientAnswered ==
    ASSUME Types, NEW p \in Pushes, NEW c \in Clients, client' = [ client EXCEPT ![p] = c ]
    PROVE  /\ client' \in [ Pushes -> Clients ] /\ client'[p] = c
           /\ \A q \in Pushes : q # p => client'[q] = client[q]
BY DEF Types

\* The client tries again a number of times.
LEMMA TriesAgainTypes ==
    ASSUME Types, NEW p \in Pushes, NEW n \in Nat, TriesAgain(p, n)
    PROVE  /\ client' \in [ Pushes -> Clients ] /\ client'[p].pc \in { "failed", "commit" }
           /\ \A q \in Pushes : q # p => client'[q] = client[q]
<1>1. PICK c : c = Client(IF n = MaxTry THEN "failed" ELSE "commit", 0, n, FALSE)
  OBVIOUS
<1>2. c \in Clients /\ c.pc \in { "failed", "commit" }
  BY <1>1 DEF Client, Clients
<1>3. client' = [ client EXCEPT ![p] = c ]
  BY <1>1 DEF TriesAgain
<1>. QED BY <1>2, <1>3, ClientAnswered

\* It sends what the hub says is left.
LEMMA AnswerLeftKeeps ==
    ASSUME PInv, NEW p \in Pushes, AnswerLeft(p)
    PROVE  PInv'
<1>. USE DEF CommitLeft, CommitAnswered, diskVars, cleanVars, ghostVars
<1>1. commit' = [ commit EXCEPT ![p] = None ] /\ commit'[p] = None /\ At(p, "check")
      /\ (\A q \in Pushes : q # p => commit'[q] = commit[q])
      /\ UNCHANGED << diskVars, taskMap, handlers, pending, merging, cleanVars, ghostVars, faults >>
  BY DEF AnswerLeft, PInv, Types
<1>2. Types /\ client[p] \in Clients /\ client[p].tries \in Nat /\ client[p].ok \in BOOLEAN
      /\ block[p] \in [ BlocksOf(p) -> { "todo", "busy", "ok", "failed" } ]
      /\ block = [ q \in Pushes |-> block[q] ]
  BY DEF PInv, Types, Clients
<1>3. client[p].pc \in { "wait", "failed" }
  BY <1>1 DEF PInv, OneSound, CommitSound, At
<1>4. /\ client' \in [ Pushes -> Clients ]
      /\ \A q \in Pushes : q # p => client'[q] = client[q]
      /\ client'[p].pc \notin { "init", "task" }
      /\ client'[p].pc \in { "upload", "commit", "wait" } => client[p].pc = "wait"
      /\ block' = [ q \in Pushes |-> block'[q] ]
      /\ block'[p] \in [ BlocksOf(p) -> { "todo", "busy", "ok", "failed" } ]
      /\ \A x \in BlocksOf(p) : block'[p][x] = "ok" => block[p][x] = "ok"
      /\ \A q \in Pushes : q # p => block'[q] = block[q]
  <2>1. CASE client[p].pc # "wait"
    <3>1. UNCHANGED << client, block >>
      BY <2>1 DEF AnswerLeft
    <3>. QED BY <1>2, <1>3, <2>1, <3>1 DEF Types
  <2>2. CASE client[p].pc = "wait" /\ temp[p] = None
    <3>1. TriesAgain(p, client[p].tries) /\ UNCHANGED block
      BY <2>2 DEF AnswerLeft
    <3>. QED BY <1>2, <2>2, <3>1, TriesAgainTypes
  <2>3. CASE client[p].pc = "wait" /\ temp[p] # None
    <3>1. PICK c \in Clients : c = Client("upload", 1, client[p].tries, client[p].ok)
                                 /\ c.pc = "upload"
      <4>1. 1 \in Nat
        OBVIOUS
      <4>2. client[p].tries \in Nat /\ client[p].ok \in BOOLEAN
        BY <1>2
      <4>3. PICK n \in Nat, b \in BOOLEAN : n = client[p].tries /\ b = client[p].ok
        BY <4>2
      <4>4. Client("upload", 1, n, b) \in Clients /\ Client("upload", 1, n, b).pc = "upload"
        BY <4>1, ClientIs
      <4>. QED BY <4>3, <4>4
    <3>2. client' = [ client EXCEPT ![p] = c ]
      <4>1. client' = [ client EXCEPT ![p] = Client("upload", 1, @.tries, @.ok) ]
        BY <2>3 DEF AnswerLeft
      <4>. QED BY <3>1, <4>1
    <3>3. block' = [ block EXCEPT ![p] = [ x \in BlocksOf(p) |->
                       IF @[x] = "failed" \/ (x[1] \in Left(p) /\ x[2] \in Lack(p, x[1])) THEN "todo"
                       ELSE @[x] ] ]
      BY <2>3 DEF AnswerLeft
    <3>4. /\ block'[p] = [ x \in BlocksOf(p) |->
                       IF block[p][x] = "failed" \/ (x[1] \in Left(p) /\ x[2] \in Lack(p, x[1]))
                       THEN "todo" ELSE block[p][x] ]
          /\ block' = [ q \in Pushes |-> block'[q] ]
          /\ \A q \in Pushes : q # p => block'[q] = block[q]
      BY <1>2, <3>3
    <3>5. client' \in [ Pushes -> Clients ] /\ client'[p] = c
          /\ \A q \in Pushes : q # p => client'[q] = client[q]
      BY <1>2, <3>2, ClientAnswered
    <3>. QED BY <1>2, <2>3, <3>1, <3>4, <3>5
  <2>. QED BY <2>1, <2>2, <2>3
<1>5. Types'
  <2>1. commit' \in [ Pushes -> Commits \cup { None } ]
    BY <1>1, <1>2 DEF Types
  <2>. QED BY <1>1, <1>2, <1>4, <2>1 DEF Types
<1>6. OneSound(p)'
  BY <1>1, <1>4, ClientMoves DEF PInv
<1>7. \A q \in Pushes : q # p => OneSound(q)'
  BY <1>1, <1>4, OthersKept DEF PInv
<1>8. InfoSound'
  BY <1>1, <1>3, <1>4, InfoKept DEF PInv
<1>9. \A q \in Pushes : At(q, "removing") \/ At(q, "rename") => commit'[q] = commit[q]
  BY <1>1 DEF At
<1>10. CleanSound' /\ PublishedWhole' /\ LostOnlyWhenCut'
  BY <1>1, <1>9, CleanKept, PublishedKept, LostKept DEF PInv
<1>. QED BY <1>5, <1>6, <1>7, <1>8, <1>10 DEF PInv

\* It tries a commit again that failed.
LEMMA AnswerErrorKeeps ==
    ASSUME PInv, NEW p \in Pushes, AnswerError(p)
    PROVE  PInv'
<1>. USE DEF CommitAnswered, diskVars, cleanVars, ghostVars
<1>1. commit' = [ commit EXCEPT ![p] = None ] /\ commit'[p] = None /\ commit[p] # None
      /\ (\A q \in Pushes : q # p => commit'[q] = commit[q]) /\ block' = block
      /\ UNCHANGED << diskVars, taskMap, handlers, pending, merging, cleanVars, damaged, published >>
      /\ cut \subseteq cut'
  BY DEF AnswerError, CommitFails, RemoveFails, At, PInv, Types
<1>2. Types /\ client[p] \in Clients /\ client[p].tries \in Nat
  BY DEF PInv, Types, Clients
<1>3. client[p].pc \in { "wait", "failed" }
  BY <1>1 DEF PInv, OneSound, CommitSound
<1>4. /\ client' \in [ Pushes -> Clients ]
      /\ \A q \in Pushes : q # p => client'[q] = client[q]
      /\ client'[p].pc \notin { "init", "task" }
      /\ client'[p].pc \in { "upload", "commit", "wait" } => client[p].pc = "wait"
  <2>1. CASE client[p].pc # "wait"
    BY <1>2, <1>3, <2>1 DEF AnswerError, Types
  <2>2. CASE client[p].pc = "wait"
    BY <1>2, <2>2, TriesAgainTypes DEF AnswerError
  <2>. QED BY <2>1, <2>2
<1>5. Types'
  <2>1. commit' \in [ Pushes -> Commits \cup { None } ]
    BY <1>1, <1>2 DEF Types
  <2>. QED BY <1>1, <1>2, <1>4, <2>1 DEF Types
<1>6. OneSound(p)'
  BY <1>1, <1>4, ClientMoves DEF PInv
<1>7. \A q \in Pushes : q # p => OneSound(q)'
  BY <1>1, <1>4, OthersKept DEF PInv
<1>8. InfoSound'
  BY <1>1, <1>3, <1>4, InfoKept DEF PInv
<1>9. CleanSound' /\ PublishedWhole'
  BY <1>1, CleanKept, PublishedKept DEF PInv
<1>10. LostOnlyWhenCut'
  <2>1. CASE p \in cut' \/ At(p, "merge")
    <3>1. \A q \in Pushes : At(q, "removing") \/ At(q, "rename") =>
              commit'[q] = commit[q] \/ q \in cut'
      BY <1>1, <2>1 DEF At
    <3>. QED BY <1>1, <3>1, LostKept DEF PInv
  <2>2. CASE p \notin cut' /\ ~At(p, "merge")
    <3>1. CommitFails(p) /\ p \notin cut
      BY <1>1, <2>2 DEF AnswerError, RemoveFails
    <3>2. /\ project # None
          /\ project.torn => At(p, "rename") \/ \E q \in Pushes \ { p } : At(q, "removing")
      BY <2>2, <3>1 DEF CommitFails, PInv, OneSound, CommitSound, Replacing
    <3>3. ASSUME project.torn PROVE \E q \in Pushes : At(q, "removing")' \/ q \in cut'
      <4>1. LostOnlyWhenCut
        BY DEF PInv
      <4>2. PICK q \in Pushes : (q # p /\ At(q, "removing")) \/ q \in cut
        BY <3>2, <3>3, <4>1 DEF LostOnlyWhenCut, At
      <4>. QED BY <1>1, <4>2 DEF At
    <3>. QED BY <1>1, <3>2, <3>3 DEF LostOnlyWhenCut
  <2>. QED BY <2>1, <2>2
<1>. QED BY <1>5, <1>6, <1>7, <1>8, <1>9, <1>10 DEF PInv

\* The blocks that were being received lose their directory.
LEMMA HandlersLet ==
    ASSUME Types, NEW p \in Pushes,
           handlers' = [ handlers EXCEPT ![p] = { [ h EXCEPT !.held = FALSE ] : h \in @ } ]
    PROVE  /\ handlers' \in [ Pushes -> SUBSET Handlers ]
           /\ \A q \in Pushes : q # p => handlers'[q] = handlers[q]
           /\ \A h \in handlers'[p] : ~h.held
           /\ handlers[p] = {} => handlers'[p] = {}
           /\ \A q \in Pushes : \A h \in handlers'[q] : << h.file, h.seq >> \in BlocksOf(q)
<1>1. handlers \in [ Pushes -> SUBSET Handlers ]
  BY DEF Types
<1>2. /\ handlers'[p] = { [ h EXCEPT !.held = FALSE ] : h \in handlers[p] }
      /\ \A q \in Pushes : q # p => handlers'[q] = handlers[q]
      /\ handlers' = [ q \in Pushes |-> handlers'[q] ]
  BY <1>1
<1>3. ASSUME NEW h \in handlers[p]
      PROVE  /\ [ h EXCEPT !.held = FALSE ] \in Handlers /\ ~[ h EXCEPT !.held = FALSE ].held
             /\ << [ h EXCEPT !.held = FALSE ].file, [ h EXCEPT !.held = FALSE ].seq >> \in BlocksOf(p)
  <2>1. h \in Handlers /\ << h.file, h.seq >> \in BlocksOf(p)
    BY DEF Types
  <2>. QED BY <2>1 DEF Handlers
<1>4. \A h \in handlers'[p] : h \in Handlers /\ ~h.held /\ << h.file, h.seq >> \in BlocksOf(p)
  BY <1>2, <1>3
<1>5. handlers' \in [ Pushes -> SUBSET Handlers ]
  <2>1. \A q \in Pushes : handlers'[q] \in SUBSET Handlers
    BY <1>1, <1>2, <1>4
  <2>. QED BY <1>2, <2>1
<1>6. \A q \in Pushes : \A h \in handlers'[q] : << h.file, h.seq >> \in BlocksOf(q)
  BY <1>2, <1>4 DEF Types
<1>. QED BY <1>2, <1>4, <1>5, <1>6

\* The model is published, and the client told.
LEMMA AnswerDoneKeeps ==
    ASSUME PInv, NEW p \in Pushes, AnswerDone(p)
    PROVE  PInv'
<1>. USE DEF AnswerDone, CommitRename, CommitAnswered, cleanVars
<1>1. commit[p] # None /\ commit[p].at = "rename" /\ commit[p] \in Commits /\ commit[p].info \in Pushes
  BY DEF At, PInv, Types, OneSound, CommitSound
<1>2. temp[p] # None /\ temp[p] \in Dirs
  BY DEF PInv, Types
<1>3. temp'[p] = None /\ \A q \in Pushes : q # p => temp'[q] = temp[q]
  BY DEF PInv, Types
<1>4. commit'[p] = None /\ \A q \in Pushes : q # p => commit'[q] = commit[q]
  BY DEF PInv, Types
<1>5. PICK m \in Models : m = [ push |-> p, info |-> commit[p].info, dir |-> temp[p], torn |-> FALSE ]
  BY <1>1, <1>2 DEF Models
<1>6. project' = m /\ m # None /\ m.push = p /\ m.info = commit[p].info /\ m.dir = temp[p]
      /\ ~m.torn
  BY <1>5, NoneAssumption
<1>7. Types /\ client[p] \in Clients
  BY DEF PInv, Types
<1>8. /\ handlers' \in [ Pushes -> SUBSET Handlers ]
      /\ \A q \in Pushes : q # p => handlers'[q] = handlers[q]
      /\ \A h \in handlers'[p] : ~h.held
      /\ handlers[p] = {} => handlers'[p] = {}
      /\ \A q \in Pushes : \A h \in handlers'[q] : << h.file, h.seq >> \in BlocksOf(q)
  BY <1>7, HandlersLet
<1>9. /\ client' \in [ Pushes -> Clients ]
      /\ \A q \in Pushes : q # p => client'[q] = client[q]
      /\ client'[p].pc \in { "succeeded", "failed" }
  <2>1. CASE client[p].pc = "wait"
    <3>1. PICK c \in Clients : c = Client("succeeded", 0, 0, TRUE) /\ c.pc = "succeeded"
      <4>1. 0 \in Nat /\ TRUE \in BOOLEAN
        OBVIOUS
      <4>. QED BY <4>1, ClientIs, Zenon
    <3>. QED BY <1>7, <2>1, <3>1, ClientAnswered
  <2>2. CASE client[p].pc # "wait"
    BY <1>1, <1>7, <2>2 DEF Types, PInv, OneSound, CommitSound
  <2>. QED BY <2>1, <2>2
<1>10. Types'
  <2>1. temp' \in [ Pushes -> Dirs \cup { None } ] /\ commit' \in [ Pushes -> Commits \cup { None } ]
    BY <1>7 DEF Types
  <2>. QED BY <1>5, <1>6, <1>7, <1>8, <1>9, <2>1 DEF Types
<1>11. OneSound(p)'
  <2>1. DirSound(p)'
    BY <1>3 DEF DirSound
  <2>2. MergeSound(p)'
    BY MergeKept DEF PInv, OneSound
  <2>3. CommitSound(p)'
    BY <1>4 DEF CommitSound, Replacing, At
  <2>4. PushSound(p)'
    BY <1>8, <1>9 DEF PushSound
  <2>5. Acknowledged(p)'
    BY DEF Acknowledged
  <2>. QED BY <2>1, <2>2, <2>3, <2>4, <2>5 DEF OneSound
<1>12. \A q \in Pushes : q # p => OneSound(q)'
  BY <1>3, <1>4, <1>8, <1>9, OthersKept DEF PInv
<1>13. InfoSound'
  <2>1. client[p].pc # "init"
    BY <1>1 DEF PInv, OneSound, CommitSound
  <2>. QED BY <1>9, <2>1, InfoKept DEF PInv
<1>14. CleanSound'
  BY CleanKept DEF PInv
<1>15. PublishedWhole'
  <2>1. \A f \in Listed[m.info] : m.dir[f].whole # None
    BY <1>1, <1>2, <1>6 DEF PInv, OneSound, CommitSound
  <2>2. ASSUME NEW f \in Files, m.dir[f].whole # None
        PROVE  m.dir[f].whole = WholeData(p, f) \/ << p, f >> \in damaged
    BY <1>2, <1>6, <2>2 DEF PInv, OneSound, DirSound, DataSound
  <2>. QED BY <1>6, <2>1, <2>2 DEF PublishedWhole, WholeData
<1>16. LostOnlyWhenCut'
  BY <1>6 DEF LostOnlyWhenCut
<1>. QED BY <1>10, <1>11, <1>12, <1>13, <1>14, <1>15, <1>16 DEF PInv

\* A commit goes on to its next step.
LEMMA CommitGoesOn ==
    ASSUME Types, NEW p \in Pushes, NEW to \in { "merge", "remove", "removing", "rename" },
           commit[p] # None,
           commit' = [ commit EXCEPT ![p].at = to ]
    PROVE  /\ commit' \in [ Pushes -> Commits \cup { None } ]
           /\ commit'[p] # None /\ commit'[p].at = to /\ commit'[p].info = commit[p].info
           /\ \A q \in Pushes : q # p => commit'[q] = commit[q]
<1>1. commit[p] \in Commits /\ commit \in [ Pushes -> Commits \cup { None } ]
  BY DEF Types
<1>2. PICK c \in Commits : c = [ commit[p] EXCEPT !.at = to ] /\ c.at = to /\ c.info = commit[p].info
  <2>1. [ commit[p] EXCEPT !.at = to ] \in Commits
        /\ [ commit[p] EXCEPT !.at = to ].at = to
        /\ [ commit[p] EXCEPT !.at = to ].info = commit[p].info
    BY <1>1 DEF Commits
  <2>. QED BY <2>1
<1>3. commit' = [ commit EXCEPT ![p] = c ]
  BY <1>2
<1>4. c # None
  BY NoneAssumption
<1>. QED BY <1>1, <1>2, <1>3, <1>4

\* The commit goes on when every listed file is whole.
LEMMA CommitCheckedKeeps ==
    ASSUME PInv, NEW p \in Pushes, CommitChecked(p), UNCHANGED clientVars
    PROVE  PInv'
<1>. USE DEF CommitChecked, diskVars, cleanVars, ghostVars, clientVars
<1>1. Types /\ commit[p] # None /\ temp[p] # None
  BY DEF PInv, At
<1>2. /\ commit' \in [ Pushes -> Commits \cup { None } ]
      /\ commit'[p] # None /\ commit'[p].at = "merge" /\ commit'[p].info = commit[p].info
      /\ \A q \in Pushes : q # p => commit'[q] = commit[q]
  BY <1>1, CommitGoesOn
<1>3. Types'
  BY <1>1, <1>2 DEF Types
<1>4. OneSound(p)'
  <2>1. DirSound(p)' /\ MergeSound(p)'
    BY DirKept, MergeKept DEF PInv, OneSound
  <2>2. CommitSound(p) /\ PushSound(p)
    BY DEF PInv, OneSound
  <2>3. \A f \in Listed[commit'[p].info] : temp'[p][f].whole # None
    BY <1>2 DEF Left
  <2>4. CommitSound(p)'
    BY <1>1, <1>2, <2>2, <2>3 DEF CommitSound, Replacing, At
  <2>5. PushSound(p)'
    BY <2>2 DEF PushSound
  <2>6. Acknowledged(p)'
    BY AcknowledgedStay, KeptStays DEF PInv, OneSound
  <2>. QED BY <2>1, <2>4, <2>5, <2>6 DEF OneSound
<1>5. \A q \in Pushes : q # p => OneSound(q)'
  BY <1>2, OthersKept DEF PInv
<1>6. InfoSound'
  BY InfoKept DEF PInv
<1>7. \A q \in Pushes : At(q, "removing") \/ At(q, "rename") => commit'[q] = commit[q]
  BY <1>2 DEF At
<1>8. CleanSound' /\ PublishedWhole' /\ LostOnlyWhenCut'
  BY <1>7, CleanKept, PublishedKept, LostKept DEF PInv
<1>. QED BY <1>3, <1>4, <1>5, <1>6, <1>8 DEF PInv

\* It removes the parts that are left of these files.
LEMMA CommitMergeKeeps ==
    ASSUME PInv, NEW p \in Pushes, CommitMerge(p), UNCHANGED clientVars
    PROVE  PInv'
<1>. USE DEF CommitMerge, cleanVars, ghostVars, clientVars
<1>1. Types /\ commit[p] # None /\ commit[p].at = "merge" /\ temp[p] # None /\ merging[p] = None
      /\ temp[p] \in Dirs /\ commit[p].info \in Pushes
  BY DEF PInv, At, MutexFree, Types, OneSound, CommitSound
<1>2. /\ commit' \in [ Pushes -> Commits \cup { None } ]
      /\ commit'[p] # None /\ commit'[p].at = "remove" /\ commit'[p].info = commit[p].info
      /\ \A q \in Pushes : q # p => commit'[q] = commit[q]
  BY <1>1, CommitGoesOn
<1>3. PICK L \in SUBSET Files : L = Listed[commit[p].info]
  BY <1>1, HubAssumption
<1>4. PICK d : d = [ f \in Files |-> IF f \in L THEN [ temp[p][f] EXCEPT !.parts = {} ] ELSE temp[p][f] ]
  OBVIOUS
<1>5. \A f \in Files :
          /\ temp[p][f] \in [ parts : SUBSET Parts, whole : Data \cup { None } ]
          /\ d[f] \in [ parts : SUBSET Parts, whole : Data \cup { None } ]
          /\ d[f].whole = temp[p][f].whole
          /\ d[f].parts = (IF f \in L THEN {} ELSE temp[p][f].parts)
  BY <1>1, <1>4 DEF Dirs
<1>6. d \in Dirs /\ d # None
  <2>1. d = [ f \in Files |-> d[f] ]
    BY <1>4
  <2>2. d \in Dirs
    BY <1>5, <2>1 DEF Dirs
  <2>. QED BY <2>2, NoneAssumption
<1>7. temp' = [ temp EXCEPT ![p] = d ]
  BY <1>3, <1>4
<1>8. /\ temp' \in [ Pushes -> Dirs \cup { None } ] /\ temp'[p] = d
      /\ \A q \in Pushes : q # p => temp'[q] = temp[q]
  BY <1>1, <1>6, <1>7, ZenonT(60) DEF Types
<1>9. Types'
  <2>1. taskMap' \in [ Pushes -> { None, "active", "idle" } ]
    BY <1>1 DEF Types
  <2>. QED BY <1>1, <1>2, <1>8, <2>1 DEF Types
<1>10. OneSound(p)'
  <2>1. DirSound(p) /\ CommitSound(p) /\ PushSound(p)
    BY DEF PInv, OneSound
  <2>2. ASSUME NEW f \in Files PROVE PartsNamed(p, f)' /\ DataSound(p, f)'
    <3>1. PartsNamed(p, f) /\ DataSound(p, f)
      BY <1>1, <2>1 DEF DirSound
    <3>2. temp'[p][f].whole = temp[p][f].whole /\ PartsOf(p, f)' \subseteq PartsOf(p, f)
      BY <1>5, <1>8 DEF PartsOf
    <3>3. PartsNamed(p, f)'
      BY <1>1, <3>1, <3>2 DEF PartsNamed, BeingMerged
    <3>4. DataSound(p, f)'
      BY <3>1, <3>2 DEF DataSound, PartData, IsHead, BeingMerged, WholeData
    <3>. QED BY <3>3, <3>4
  <2>3. DirSound(p)'
    BY <2>2 DEF DirSound
  <2>4. MergeSound(p)'
    BY MergeKept DEF PInv, OneSound
  <2>5. \A f \in L : temp[p][f].whole # None /\ d[f].whole # None
    BY <1>1, <1>3, <1>5, <2>1 DEF CommitSound
  <2>6. CommitSound(p)'
    BY <1>1, <1>2, <1>3, <1>6, <1>8, <2>1, <2>5 DEF CommitSound, Replacing, At
  <2>7. PushSound(p)'
    BY <1>6, <1>8, <2>1 DEF PushSound
  <2>8. ASSUME NEW x \in BlocksOf(p), Kept(p, x) PROVE Kept(p, x)'
    <3>1. x[1] \in Files
      BY BlockNames
    <3>2. CASE x[1] \in L
      BY <1>6, <1>8, <2>5, <3>2 DEF Kept
    <3>3. CASE x[1] \notin L
      <4>1. temp'[p][x[1]] = temp[p][x[1]]
        BY <1>4, <1>8, <3>1, <3>3
      <4>. QED BY <1>6, <1>8, <4>1, <2>8 DEF Kept, PartsOf
    <3>. QED BY <3>2, <3>3
  <2>9. Acknowledged(p)'
    BY <2>8, AcknowledgedStay DEF PInv, OneSound
  <2>. QED BY <2>3, <2>4, <2>6, <2>7, <2>9 DEF OneSound
<1>11. \A q \in Pushes : q # p => OneSound(q)'
  BY <1>2, <1>8, OthersKept DEF PInv
<1>12. InfoSound'
  BY InfoKept DEF PInv
<1>13. \A q \in Pushes : At(q, "removing") \/ At(q, "rename") => commit'[q] = commit[q]
  BY <1>1, <1>2 DEF At
<1>14. CleanSound'
  <2>1. \A q \in Pushes : taskMap'[q] \in { taskMap[q], "active" }
    BY <1>1 DEF Types
  <2>. QED BY <2>1, CleanKept DEF PInv
<1>15. PublishedWhole' /\ LostOnlyWhenCut'
  BY <1>13, PublishedKept, LostKept DEF PInv
<1>. QED BY <1>9, <1>10, <1>11, <1>12, <1>14, <1>15 DEF PInv

\* The commit begins to remove what is published.
LEMMA CommitRemoveKeeps ==
    ASSUME PInv, NEW p \in Pushes, CommitRemove(p), UNCHANGED clientVars
    PROVE  PInv'
<1>. USE DEF CommitRemove, diskVars, cleanVars, ghostVars, clientVars
<1>1. Types /\ commit[p] # None /\ commit[p].at = "remove"
  BY DEF PInv, At
<1>2. /\ commit' \in [ Pushes -> Commits \cup { None } ]
      /\ commit'[p] # None /\ commit'[p].at = "removing" /\ commit'[p].info = commit[p].info
      /\ \A q \in Pushes : q # p => commit'[q] = commit[q]
  BY <1>1, CommitGoesOn
<1>3. /\ handlers' \in [ Pushes -> SUBSET Handlers ]
      /\ \A q \in Pushes : q # p => handlers'[q] = handlers[q]
      /\ \A h \in handlers'[p] : ~h.held
      /\ handlers[p] = {} => handlers'[p] = {}
      /\ \A q \in Pushes : \A h \in handlers'[q] : << h.file, h.seq >> \in BlocksOf(q)
  BY <1>1, HandlersLet
<1>4. Types'
  BY <1>1, <1>2, <1>3 DEF Types
<1>5. OneSound(p)'
  <2>1. DirSound(p)' /\ MergeSound(p)'
    BY DirKept, MergeKept DEF PInv, OneSound
  <2>2. CommitSound(p) /\ PushSound(p)
    BY DEF PInv, OneSound
  <2>3. CommitSound(p)'
    BY <1>1, <1>2, <2>2 DEF CommitSound, Replacing, At
  <2>4. PushSound(p)'
    BY <1>3, <2>2 DEF PushSound
  <2>5. Acknowledged(p)'
    BY AcknowledgedStay, KeptStays DEF PInv, OneSound
  <2>. QED BY <2>1, <2>3, <2>4, <2>5 DEF OneSound
<1>6. \A q \in Pushes : q # p => OneSound(q)'
  BY <1>2, <1>3, OthersKept DEF PInv
<1>7. InfoSound' /\ CleanSound' /\ PublishedWhole'
  BY InfoKept, CleanKept, PublishedKept DEF PInv
<1>8. LostOnlyWhenCut'
  <2>1. \A q \in Pushes : At(q, "removing") \/ At(q, "rename") => commit'[q] = commit[q]
    BY <1>1, <1>2 DEF At
  <2>. QED BY <2>1, LostKept DEF PInv
<1>. QED BY <1>4, <1>5, <1>6, <1>7, <1>8 DEF PInv

\* It removes an entry of what is published.
LEMMA RemoveEntryKeeps ==
    ASSUME PInv, NEW p \in Pushes, RemoveEntry(p), UNCHANGED clientVars
    PROVE  PInv'
<1>. USE DEF RemoveEntry, taskVars, cleanVars, ghostVars, clientVars
<1>1. Types /\ project \in Models /\ project # None
  BY DEF PInv, Types
<1>2. PICK f \in Files : project' = [ project EXCEPT !.dir[f] = NoFile, !.torn = TRUE ]
  OBVIOUS
<1>3. PICK d \in Dirs : d = [ project.dir EXCEPT ![f] = NoFile ]
  <2>1. project.dir \in Dirs
    BY <1>1 DEF Models
  <2>2. NoFile \in [ parts : SUBSET Parts, whole : Data \cup { None } ]
    BY DEF NoFile
  <2>. QED BY <2>1, <2>2 DEF Dirs
<1>4. PICK m \in Models : m = [ project EXCEPT !.dir = d, !.torn = TRUE ] /\ m.torn
  <2>1. [ project EXCEPT !.dir = d, !.torn = TRUE ] \in Models
        /\ [ project EXCEPT !.dir = d, !.torn = TRUE ].torn = TRUE
    BY <1>1, <1>3 DEF Models
  <2>. QED BY <2>1
<1>5. project' = m
  <2>1. project' = [ project EXCEPT !.dir = [ project.dir EXCEPT ![f] = NoFile ], !.torn = TRUE ]
    BY <1>1, <1>2 DEF Models
  <2>. QED BY <1>3, <1>4, <2>1
<1>6. m # None
  BY NoneAssumption
<1>7. Types'
  BY <1>1, <1>4, <1>5 DEF Types
<1>8. \A q \in Pushes : OneSound(q)'
  BY OthersKept DEF PInv
<1>9. InfoSound' /\ CleanSound'
  BY InfoKept, CleanKept DEF PInv
<1>10. PublishedWhole'
  BY <1>4, <1>5 DEF PublishedWhole
<1>11. LostOnlyWhenCut'
  <2>1. At(p, "removing")'
    BY DEF At
  <2>. QED BY <1>5, <1>6, <2>1 DEF LostOnlyWhenCut
<1>. QED BY <1>7, <1>8, <1>9, <1>10, <1>11 DEF PInv

\* It finds nothing more to remove.
LEMMA RemoveEndsKeeps ==
    ASSUME PInv, NEW p \in Pushes, RemoveEnds(p), UNCHANGED clientVars
    PROVE  PInv'
<1>. USE DEF RemoveEnds, cleanVars, ghostVars, clientVars
<1>1. Types /\ commit[p] # None /\ commit[p].at = "removing"
  BY DEF PInv, At
<1>2. /\ commit' \in [ Pushes -> Commits \cup { None } ]
      /\ commit'[p] # None /\ commit'[p].at = "rename" /\ commit'[p].info = commit[p].info
      /\ \A q \in Pushes : q # p => commit'[q] = commit[q]
  BY <1>1, CommitGoesOn
<1>3. Types'
  BY <1>1, <1>2 DEF Types
<1>4. OneSound(p)'
  <2>1. DirSound(p)' /\ MergeSound(p)'
    BY DirKept, MergeKept DEF PInv, OneSound
  <2>2. CommitSound(p)
    BY DEF PInv, OneSound
  <2>3. CommitSound(p)'
    BY <1>1, <1>2, <2>2 DEF CommitSound, Replacing, At
  <2>4. PushSound(p)'
    BY PushKept DEF PInv, OneSound
  <2>5. Acknowledged(p)'
    BY AcknowledgedStay, KeptStays DEF PInv, OneSound
  <2>. QED BY <2>1, <2>3, <2>4, <2>5 DEF OneSound
<1>5. \A q \in Pushes : q # p => OneSound(q)'
  BY <1>2, OthersKept DEF PInv
<1>6. InfoSound' /\ CleanSound'
  BY InfoKept, CleanKept DEF PInv
<1>7. PublishedWhole'
  BY DEF PublishedWhole
<1>8. LostOnlyWhenCut'
  <2>1. At(p, "rename")'
    BY <1>2 DEF At
  <2>. QED BY <2>1 DEF LostOnlyWhenCut
<1>. QED BY <1>3, <1>4, <1>5, <1>6, <1>7, <1>8 DEF PInv

-----------------------------------------------------------------------------
(* The cleaner *)

\* The cleaner lists the pushes that are no longer alive.
LEMMA ListDeadKeeps ==
    ASSUME PInv, ListDead, UNCHANGED clientVars
    PROVE  PInv'
<1>. USE DEF ListDead, diskVars, taskVars, ghostVars, clientVars
<1>1. Types'
  BY DEF PInv, Types
<1>2. \A q \in Pushes : OneSound(q)'
  BY OthersKept DEF PInv
<1>3. InfoSound'
  BY InfoKept DEF PInv
<1>4. CleanSound'
  BY DEF PInv, CleanSound, Dead
<1>5. PublishedWhole' /\ LostOnlyWhenCut'
  BY PublishedKept, LostKept DEF PInv
<1>. QED BY <1>1, <1>2, <1>3, <1>4, <1>5 DEF PInv

\* It goes on with one of them that is still not alive.
LEMMA CleanCheckKeeps ==
    ASSUME PInv, NEW p \in Pushes, CleanCheck(p), UNCHANGED clientVars
    PROVE  PInv'
<1>. USE DEF CleanCheck, diskVars, taskVars, ghostVars, clientVars
<1>1. Types'
  BY DEF PInv, Types
<1>2. \A q \in Pushes : OneSound(q)'
  BY OthersKept DEF PInv
<1>3. InfoSound'
  BY InfoKept DEF PInv
<1>4. CleanSound'
  <2>1. CASE Cleanable(p)
    <3>1. p \in aged
      <4>1. taskMap[p] # None => taskMap[p] = "idle"
        BY <2>1 DEF Cleanable, IsAlive, PInv, Types
      <4>. QED BY <4>1 DEF PInv, CleanSound
    <3>2. cleaning' = [ push |-> p, at |-> "dir" ] /\ doomed' = doomed
      BY <2>1
    <3>. QED BY <3>1, <3>2 DEF PInv, CleanSound
  <2>2. CASE ~Cleanable(p)
    BY <2>2 DEF PInv, CleanSound
  <2>. QED BY <2>1, <2>2
<1>5. PublishedWhole' /\ LostOnlyWhenCut'
  BY PublishedKept, LostKept DEF PInv
<1>. QED BY <1>1, <1>2, <1>3, <1>4, <1>5 DEF PInv

\* It removes the directory, and a commit that was to publish it is cut.
LEMMA CleanDirKeeps ==
    ASSUME PInv, CleanDir, UNCHANGED clientVars
    PROVE  PInv'
<1>. USE DEF CleanDir, clientVars
<1>1. PICK p \in Pushes : p = cleaning.push /\ p \in aged
  BY DEF PInv, CleanSound
<1>2. Types /\ cut' = (IF Replacing(p) THEN cut \cup { p } ELSE cut)
      /\ temp' = [ temp EXCEPT ![p] = None ]
      /\ handlers' = [ handlers EXCEPT ![p] = { [ h EXCEPT !.held = FALSE ] : h \in @ } ]
  BY <1>1 DEF PInv
<1>3. /\ handlers' \in [ Pushes -> SUBSET Handlers ]
      /\ \A q \in Pushes : q # p => handlers'[q] = handlers[q]
      /\ \A h \in handlers'[p] : ~h.held
      /\ handlers[p] = {} => handlers'[p] = {}
      /\ \A q \in Pushes : \A h \in handlers'[q] : << h.file, h.seq >> \in BlocksOf(q)
  BY <1>2, HandlersLet
<1>4. /\ temp' \in [ Pushes -> Dirs \cup { None } ] /\ temp'[p] = None
      /\ \A q \in Pushes : q # p => temp'[q] = temp[q]
  BY <1>2 DEF Types
<1>5. Types'
  BY <1>2, <1>3, <1>4 DEF Types
<1>6. cut \subseteq cut'
  BY <1>2
<1>7. OneSound(p)'
  <2>1. DirSound(p)'
    BY <1>4 DEF DirSound
  <2>2. MergeSound(p)'
    BY MergeKept DEF PInv, OneSound
  <2>3. CommitSound(p) /\ PushSound(p)
    BY DEF PInv, OneSound
  <2>4. CommitSound(p)'
    BY <1>2, <1>4, <2>3 DEF CommitSound, Replacing, At
  <2>5. PushSound(p)'
    BY <1>3, <2>3 DEF PushSound
  <2>6. Acknowledged(p)'
    BY <1>1 DEF Acknowledged
  <2>. QED BY <2>1, <2>2, <2>4, <2>5, <2>6 DEF OneSound
<1>8. \A q \in Pushes : q # p => OneSound(q)'
  BY <1>3, <1>4, <1>6, OthersKept DEF PInv
<1>9. InfoSound'
  BY InfoKept DEF PInv
<1>10. CleanSound'
  BY DEF PInv, CleanSound
<1>11. PublishedWhole' /\ LostOnlyWhenCut'
  BY <1>6, PublishedKept, LostKept DEF PInv
<1>. QED BY <1>5, <1>7, <1>8, <1>9, <1>10, <1>11 DEF PInv

\* Then it removes the row.
LEMMA CleanRowKeeps ==
    ASSUME PInv, CleanRow, UNCHANGED clientVars
    PROVE  PInv'
<1>. USE DEF CleanRow, ghostVars, clientVars
<1>1. PICK p \in Pushes : p = cleaning.push
  BY DEF PInv, CleanSound
<1>2. Types'
  BY DEF PInv, Types
<1>3. \A q \in Pushes : OneSound(q)'
  BY OthersKept DEF PInv
<1>4. InfoSound'
  BY InfoKept DEF PInv
<1>5. CleanSound'
  <2>1. taskMap'[p] = None /\ \A q \in Pushes : q # p => taskMap'[q] = taskMap[q]
    BY <1>1 DEF PInv, Types
  <2>2. None # "idle"
    BY NoneAssumption
  <2>3. doomed' = doomed \ { p } /\ cleaning' = None
    BY <1>1
  <2>. QED BY <2>1, <2>2, <2>3 DEF PInv, CleanSound
<1>6. PublishedWhole' /\ LostOnlyWhenCut'
  BY PublishedKept, LostKept DEF PInv
<1>. QED BY <1>2, <1>3, <1>4, <1>5, <1>6 DEF PInv

-----------------------------------------------------------------------------
(* Time and restarts *)

\* A push becomes old.
LEMMA GrowOldKeeps ==
    ASSUME PInv, NEW p \in Pushes, GrowOld(p), UNCHANGED clientVars
    PROVE  PInv'
<1>. USE DEF GrowOld, diskVars, ghostVars, clientVars
<1>1. Types'
  BY DEF PInv, Types
<1>2. \A q \in Pushes : OneSound(q)'
  BY OthersKept DEF PInv
<1>3. InfoSound'
  BY InfoKept DEF PInv
<1>4. CleanSound'
  <2>1. /\ taskMap'[p] = IF taskMap[p] = None THEN None ELSE "idle"
        /\ \A q \in Pushes : q # p => taskMap'[q] = taskMap[q]
    BY DEF PInv, Types
  <2>2. None # "idle"
    BY NoneAssumption
  <2>. QED BY <2>1, <2>2 DEF PInv, CleanSound
<1>5. PublishedWhole' /\ LostOnlyWhenCut'
  BY PublishedKept, LostKept DEF PInv
<1>. QED BY <1>1, <1>2, <1>3, <1>4, <1>5 DEF PInv

\* A restart of the hub ends its handlers.
LEMMA HubRestartsKeeps ==
    ASSUME PInv, HubRestarts
    PROVE  PInv'
<1>. USE DEF HubRestarts, Restart, diskVars
<1>1. PICK c \in Clients : c = Client("failed", 0, 0, FALSE) /\ c.pc = "failed"
  <2>1. 0 \in Nat /\ FALSE \in BOOLEAN
    OBVIOUS
  <2>. QED BY <2>1, ClientIs, Zenon
<1>2. \A p \in Pushes :
          /\ client'[p] = (IF client[p].pc \in { "task", "wait" } THEN c ELSE client[p])
          /\ client'[p] \in Clients
  BY <1>1 DEF PInv, Types
<1>3. \A p \in Pushes :
          /\ block'[p] = [ x \in BlocksOf(p) |->
                               IF block[p][x] = "busy" THEN "failed" ELSE block[p][x] ]
          /\ block'[p] \in [ BlocksOf(p) -> { "todo", "busy", "ok", "failed" } ]
          /\ \A x \in BlocksOf(p) : block'[p][x] = "ok" => block[p][x] = "ok"
          /\ \A x \in BlocksOf(p) : block[p][x] = "todo" => block'[p][x] = "todo"
  BY DEF PInv, Types
<1>4. Types'
  <2>1. client' \in [ Pushes -> Clients ]
    BY <1>1, <1>2
  <2>2. block' = [ p \in Pushes |-> block'[p] ]
    BY <1>3
  <2>. QED BY <1>3, <2>1, <2>2 DEF PInv, Types
<1>5. damaged \subseteq damaged' /\ cut \subseteq cut' /\ published' = published /\ aged' = aged
  OBVIOUS
<1>6. ASSUME NEW p \in Pushes PROVE OneSound(p)'
  <2>1. merging'[p] = None /\ commit'[p] = None /\ handlers'[p] = {} /\ temp'[p] = temp[p]
    OBVIOUS
  <2>2. DirSound(p) /\ CommitSound(p) /\ PushSound(p) /\ Acknowledged(p)
    BY DEF PInv, OneSound
  <2>3. ASSUME NEW f \in Files, temp[p] # None PROVE PartsNamed(p, f)' /\ DataSound(p, f)'
    <3>1. PartsNamed(p, f) /\ DataSound(p, f)
      BY <2>2, <2>3 DEF DirSound
    <3>2. PartsNamed(p, f)'
      BY <2>1, <3>1 DEF PartsNamed, BeingMerged, PartsOf
    <3>3. CASE BeingMerged(p, f)
      <4>1. << p, f >> \in damaged'
        BY <3>3 DEF BeingMerged
      <4>. QED BY <3>2, <4>1 DEF DataSound
    <3>4. CASE ~BeingMerged(p, f)
      <4>1. \A x : ~IsHead(p, f, x) /\ ~IsHead(p, f, x)'
        BY <2>1, <3>4 DEF IsHead, BeingMerged
      <4>2. \A x : PartData(p, f, x)' = PartData(p, f, x)
        BY <4>1 DEF PartData
      <4>3. DataSound(p, f)'
        BY <1>5, <2>1, <3>1, <4>2 DEF DataSound, PartsOf, WholeData
      <4>. QED BY <3>2, <4>3
    <3>. QED BY <3>3, <3>4
  <2>4. DirSound(p)'
    BY <2>1, <2>3 DEF DirSound
  <2>5. MergeSound(p)'
    BY <2>1 DEF MergeSound
  <2>6. CommitSound(p)'
    BY <2>1 DEF CommitSound, Replacing, At
  <2>7. PushSound(p)'
    BY <1>1, <1>2, <1>3, <2>1, <2>2 DEF PushSound
  <2>8. Acknowledged(p)'
    BY <1>1, <1>2, <1>3, <1>5, <2>1, AcknowledgedStay, KeptStays DEF PInv, OneSound
  <2>. QED BY <2>4, <2>5, <2>6, <2>7, <2>8 DEF OneSound
<1>7. InfoSound'
  BY <1>2, InfoKept DEF PInv
<1>8. CleanSound'
  <2>1. None # "idle"
    BY NoneAssumption
  <2>. QED BY <2>1 DEF CleanSound
<1>9. PublishedWhole'
  BY <1>5, PublishedKept DEF PInv
<1>10. LostOnlyWhenCut'
  <2>1. \A q \in Pushes : At(q, "removing") \/ At(q, "rename") => q \in cut'
    OBVIOUS
  <2>. QED BY <1>5, <2>1, LostKept DEF PInv
<1>. QED BY <1>4, <1>6, <1>7, <1>8, <1>9, <1>10 DEF PInv

-----------------------------------------------------------------------------
(* Merges *)

\* The part a merge begins with: the merged one, or the first block if none is.
LEMMA HeadIs ==
    ASSUME Types, NEW p \in Pushes, NEW f \in Files, temp[p] # None, HasHead(p, f)
    PROVE  /\ Head1(p, f) \in PartsOf(p, f) /\ Head1(p, f) \in Parts
           /\ Head1(p, f).merged \/ (Head1(p, f).seq = 1 /\ Merged(p, f) = {})
<1>1. \E x \in PartsOf(p, f) : x.merged \/ (x.seq = 1 /\ Merged(p, f) = {})
  BY DEF HasHead, Merged, SeqsOf
<1>2. PICK y : y = Head1(p, f)
  OBVIOUS
<1>3. y \in PartsOf(p, f) /\ (y.merged \/ (y.seq = 1 /\ Merged(p, f) = {}))
  BY <1>1, <1>2 DEF Head1
<1>4. PartsOf(p, f) \subseteq Parts
  BY DEF Types, Dirs, PartsOf
<1>. QED BY <1>2, <1>3, <1>4

\* While no merge holds the mutex, it holds the blocks up to its own unless one of its
\* merges went wrong.
LEMMA HeadData ==
    ASSUME PInv, NEW p \in Pushes, NEW f \in Files, temp[p] # None, merging[p] = None,
           NEW x \in PartsOf(p, f), x.merged \/ x.seq = 1, << p, f >> \notin damaged
    PROVE  x.data = Upto(x.seq)
<1>1. x.data = PartData(p, f, x)
  BY DEF PInv, OneSound, DirSound, DataSound
<1>2. ~IsHead(p, f, x)
  BY DEF IsHead, BeingMerged
<1>3. CASE x.merged
  BY <1>1, <1>2, <1>3 DEF PartData
<1>4. CASE ~x.merged
  <2>1. x.data = << x.seq >> /\ x.seq = 1
    BY <1>1, <1>2, <1>4 DEF PartData
  <2>. QED BY <2>1, UptoOne
<1>. QED BY <1>3, <1>4

\* A merge with nothing to append leaves parts or whole files as they should be.
LEMMA MergeSettledKeeps ==
    ASSUME PInv, NEW p \in Pushes, NEW f \in Files, MergeSettled(p, f), UNCHANGED clientVars
    PROVE  PInv'
<1>. USE DEF MergeSettled, cleanVars, ghostVars, clientVars
<1>1. Types /\ merging[p] = None /\ DirSound(p)
  BY DEF PInv, MutexFree, OneSound
<1>2. /\ temp' \in [ Pushes -> Dirs \cup { None } ]
      /\ \A q \in Pushes : q # p => temp'[q] = temp[q]
      /\ DirSound(p)'
      /\ temp'[p] = None <=> temp[p] = None
      /\ temp[p] # None => \A g \in Files : temp[p][g].whole # None => temp'[p][g].whole # None
      /\ \A x \in BlocksOf(p) : Kept(p, x) => Kept(p, x)'
  <2>1. ASSUME UNCHANGED temp PROVE <1>2!:
    <3>1. \A x \in BlocksOf(p) : Kept(p, x) => Kept(p, x)'
      BY <2>1, KeptStays
    <3>2. DirSound(p)'
      BY <2>1, DirKept DEF PInv, OneSound
    <3>. QED BY <1>1, <2>1, <3>1, <3>2 DEF Types
  <2>2. ASSUME temp[p] # None, NEW w \in Data \cup { None },
               temp'[p][f].parts = {}, temp'[p][f].whole = w, w # None,
               << p, f >> \notin damaged => w = WholeData(p, f),
               temp' \in [ Pushes -> Dirs \cup { None } ], temp'[p] # None,
               \A g \in Files : g # f => temp'[p][g] = temp[p][g],
               \A q \in Pushes : q # p => temp'[q] = temp[q]
        PROVE <1>2!:
    <3>1. ASSUME NEW g \in Files PROVE PartsNamed(p, g)' /\ DataSound(p, g)'
      <4>1. CASE g = f
        <5>1. PartsNamed(p, f)'
          BY <2>2 DEF PartsNamed, PartsOf, Merged
        <5>2. DataSound(p, f)'
          BY <2>2 DEF DataSound, PartsOf, WholeData
        <5>. QED BY <4>1, <5>1, <5>2
      <4>2. CASE g # f
        BY <1>1, <2>2, <4>2 DEF DirSound, PartsNamed, DataSound, PartData, IsHead, BeingMerged,
                                PartsOf, Merged, WholeData
      <4>. QED BY <4>1, <4>2
    <3>2. DirSound(p)'
      BY <3>1 DEF DirSound
    <3>3. \A g \in Files : temp[p][g].whole # None => temp'[p][g].whole # None
      BY <2>2
    <3>4. ASSUME NEW x \in BlocksOf(p), Kept(p, x) PROVE Kept(p, x)'
      <4>1. x[1] \in Files
        BY BlockNames
      <4>2. CASE x[1] = f
        BY <2>2, <4>2 DEF Kept
      <4>3. CASE x[1] # f
        BY <2>2, <3>4, <4>1, <4>3 DEF Kept, PartsOf
      <4>. QED BY <4>2, <4>3
    <3>. QED BY <2>2, <3>2, <3>3, <3>4
  <2>3. CASE temp[p] # None /\ temp[p][f].whole # None /\ temp' = [ temp EXCEPT ![p][f].parts = {} ]
    <3>1. PICK S \in SUBSET Parts : S = {}
      OBVIOUS
    <3>2. temp' = [ temp EXCEPT ![p][f].parts = S ]
      BY <2>3, <3>1
    <3>3. /\ temp' \in [ Pushes -> Dirs \cup { None } ] /\ temp'[p] \in Dirs /\ temp'[p] # None
          /\ temp'[p][f].parts = S /\ temp'[p][f].whole = temp[p][f].whole
          /\ \A g \in Files : g # f => temp'[p][g] = temp[p][g]
          /\ \A q \in Pushes : q # p => temp'[q] = temp[q]
      BY <1>1, <2>3, <3>2, PartsSet
    <3>4. temp[p][f].whole \in Data \cup { None }
      BY <1>1, <2>3 DEF Types, Dirs
    <3>5. << p, f >> \notin damaged => temp[p][f].whole = WholeData(p, f)
      BY <1>1, <2>3 DEF DirSound, DataSound
    <3>. QED BY <2>2, <2>3, <3>1, <3>3, <3>4, <3>5
  <2>4. CASE /\ temp[p] # None /\ temp[p][f].whole = None
             /\ Blocks[p][f] = 1 /\ 1 \in SeqsOf(p, f)
             /\ temp' = [ temp EXCEPT ![p][f] = [ parts |-> {}, whole |-> Head1(p, f).data ] ]
    <3>1. HasHead(p, f)
      BY <2>4 DEF HasHead
    <3>2. PICK x \in Parts : x = Head1(p, f) /\ x \in PartsOf(p, f)
                               /\ (x.merged \/ (x.seq = 1 /\ Merged(p, f) = {}))
      BY <1>1, <2>4, <3>1, HeadIs
    <3>3. x.data \in Data /\ x.data # None
      BY <3>2, NoneAssumption DEF Parts
    <3>4. x.seq \in 1 .. 1
      BY <1>1, <2>4, <3>2 DEF DirSound, PartsNamed
    <3>5. x.seq = 1
      BY <3>4
    <3>6. << p, f >> \notin damaged => x.data = Upto(1)
      BY <1>1, <2>4, <3>2, <3>5, HeadData
    <3>7. << p, f >> \notin damaged => x.data = WholeData(p, f)
      BY <2>4, <3>6 DEF WholeData, Upto
    <3>8. PICK r \in [ parts : SUBSET Parts, whole : Data \cup { None } ] :
              r = [ parts |-> {}, whole |-> x.data ] /\ r.parts = {} /\ r.whole = x.data
      <4>1. [ parts |-> {}, whole |-> x.data ] \in [ parts : SUBSET Parts, whole : Data \cup { None } ]
        BY <3>3
      <4>. QED BY <4>1
    <3>9. temp' = [ temp EXCEPT ![p][f] = r ]
      BY <2>4, <3>2, <3>8
    <3>10. /\ temp' \in [ Pushes -> Dirs \cup { None } ] /\ temp'[p] \in Dirs /\ temp'[p] # None
           /\ temp'[p][f] = r
           /\ \A g \in Files : g # f => temp'[p][g] = temp[p][g]
           /\ \A q \in Pushes : q # p => temp'[q] = temp[q]
      <4>1. p \in Pushes /\ f \in Files /\ temp[p] # None
            /\ r \in [ parts : SUBSET Parts, whole : Data \cup { None } ]
        BY <2>4
      <4>. QED BY <1>1, <3>9, <4>1, FileSet
    <3>. QED BY <2>2, <2>4, <3>3, <3>7, <3>8, <3>10
  <2>. QED BY <2>1, <2>3, <2>4
<1>3. \A q \in Pushes : taskMap'[q] \in { taskMap[q], "active" }
  BY <1>1 DEF Types
<1>4. Types'
  <2>1. taskMap' \in [ Pushes -> { None, "active", "idle" } ]
    BY <1>1 DEF Types
  <2>2. pending' \in [ Pushes -> SUBSET Files ]
    BY <1>1 DEF Types
  <2>. QED BY <1>1, <1>2, <2>1, <2>2 DEF Types
<1>5. OneSound(p)'
  <2>1. MergeSound(p)'
    BY MergeKept DEF PInv, OneSound
  <2>2. CommitSound(p)'
    BY <1>2, CommitKept DEF PInv, OneSound, CommitSound
  <2>3. PushSound(p)'
    BY <1>2, PushKept DEF PInv, OneSound
  <2>4. Acknowledged(p)'
    BY <1>2, AcknowledgedStay DEF PInv, OneSound
  <2>. QED BY <1>2, <2>1, <2>2, <2>3, <2>4 DEF OneSound
<1>6. \A q \in Pushes : q # p => OneSound(q)'
  BY <1>2, OthersKept DEF PInv
<1>7. InfoSound'
  BY InfoKept DEF PInv
<1>8. CleanSound' /\ PublishedWhole' /\ LostOnlyWhenCut'
  BY <1>3, CleanKept, PublishedKept, LostKept DEF PInv
<1>. QED BY <1>4, <1>5, <1>6, <1>7, <1>8 DEF PInv

\* A merge appends what follows its head as far as it goes, no further than the file.
LEMMA RunIs ==
    ASSUME PInv, NEW p \in Pushes, NEW f \in Files, temp[p] # None, HasHead(p, f)
    PROVE  RunEnd(p, f) \in Head1(p, f).seq .. Blocks[p][f]
<1>1. PICK x \in Parts : x = Head1(p, f) /\ x \in PartsOf(p, f)
  BY HeadIs DEF PInv
<1>2. PartsNamed(p, f) /\ Blocks[p][f] \in Nat /\ PartsOf(p, f) \subseteq Parts
  BY HubAssumption DEF PInv, OneSound, DirSound, Types, Dirs, PartsOf
<1>3. PICK n \in Nat : n = Blocks[p][f]
  BY <1>2
<1>4. PICK s \in Nat : s = x.seq /\ s <= n
  BY <1>1, <1>2, <1>3 DEF PartsNamed
<1>5. PICK S \in SUBSET Nat : S = SeqsOf(p, f)
  BY <1>2 DEF SeqsOf, Parts
<1>6. n + 1 \notin S
  BY <1>2, <1>3, <1>5 DEF PartsNamed, SeqsOf
<1>7. \E k \in s .. n : (\A i \in s + 1 .. k : i \in S) /\ k + 1 \notin S
  BY <1>4, <1>6, RunEnds
<1>8. RunEnd(p, f) = CHOOSE k \in s .. n : (\A i \in s + 1 .. k : i \in S) /\ k + 1 \notin S
  BY <1>1, <1>3, <1>4, <1>5 DEF RunEnd
<1>9. RunEnd(p, f) \in s .. n
  BY <1>7, <1>8
<1>. QED BY <1>1, <1>3, <1>4, <1>9

\* A merge begins to append to the first part of its run.
LEMMA MergeBeginKeeps ==
    ASSUME PInv, NEW p \in Pushes, NEW f \in Files, MergeBegin(p, f), UNCHANGED clientVars
    PROVE  PInv'
<1>. USE DEF cleanVars, ghostVars, clientVars
<1>1. /\ Types /\ merging[p] = None /\ DirSound(p) /\ temp[p] # None /\ temp[p] \in Dirs
      /\ temp[p][f].whole = None /\ HasHead(p, f) /\ RunEnd(p, f) > Head1(p, f).seq
      /\ pending' = [ pending EXCEPT ![p] = @ \ { f } ]
      /\ taskMap' = [ taskMap EXCEPT ![p] = IF @ = None THEN @ ELSE "active" ]
      /\ UNCHANGED << info, rows, project, handlers, commit, cleanVars, ghostVars, faults, clientVars >>
  BY DEF MergeBegin, PInv, MutexFree, OneSound, Mergeable, Types
<1>2. PICK x \in Parts : x = Head1(p, f) /\ x \in PartsOf(p, f)
                           /\ (x.merged \/ (x.seq = 1 /\ Merged(p, f) = {}))
  BY <1>1, HeadIs
<1>3. x.seq \in Nat /\ x.data \in Data /\ x.merged \in BOOLEAN
  BY <1>2 DEF Parts
<1>4. PICK k \in Nat : k = RunEnd(p, f) /\ x.seq < k /\ k <= Blocks[p][f]
  <2>1. Blocks[p][f] \in Nat
    BY HubAssumption
  <2>2. RunEnd(p, f) \in x.seq .. Blocks[p][f]
    BY <1>1, <1>2, RunIs
  <2>. QED BY <1>1, <1>2, <1>3, <2>1, <2>2
<1>5. PICK m : m = [ file |-> f, head |-> x, last |-> k,
                     data |-> x.data \o [ i \in 1 .. k - x.seq |-> x.seq + i ] ]
  OBVIOUS
<1>6. m \in Merges /\ m.file = f /\ m.head = x /\ m.last = k
        /\ m.data = x.data \o [ i \in 1 .. k - x.seq |-> x.seq + i ]
  <2>1. PICK a \in Seq(Nat \cup { Torn }) : a = x.data
    BY <1>3 DEF Data
  <2>2. [ i \in 1 .. k - x.seq |-> x.seq + i ] \in Seq(Nat \cup { Torn })
    <3>1. k - x.seq \in Nat /\ \A i \in 1 .. k - x.seq : x.seq + i \in Nat \cup { Torn }
      BY <1>3, <1>4
    <3>. QED BY <3>1
  <2>3. PICK b \in Seq(Nat \cup { Torn }) : b = [ i \in 1 .. k - x.seq |-> x.seq + i ]
    BY <2>2
  <2>4. a \o b \in Data
    BY DEF Data
  <2>. QED BY <1>2, <1>5, <2>1, <2>3, <2>4 DEF Merges
<1>7. PICK y : y = [ x EXCEPT !.data = Append(x.data, Torn) ]
  OBVIOUS
<1>8. y \in Parts /\ y.seq = x.seq /\ y.merged = x.merged /\ y.data = Append(x.data, Torn)
  <2>1. PICK a \in Seq(Nat \cup { Torn }) : a = x.data
    BY <1>3 DEF Data
  <2>2. Append(a, Torn) \in Data
    BY DEF Data
  <2>. QED BY <1>2, <1>7, <2>1, <2>2 DEF Parts
<1>9. PICK S \in SUBSET Parts : S = (PartsOf(p, f) \ { x }) \cup { y }
  <2>1. PartsOf(p, f) \subseteq Parts
    BY <1>1 DEF Dirs, PartsOf
  <2>. QED BY <1>8, <2>1
<1>10. /\ merging' = [ merging EXCEPT ![p] = m ]
       /\ temp' = [ temp EXCEPT ![p][f].parts = S ]
  <2>1. /\ merging' = [ merging EXCEPT ![p] =
                        [ file |-> f, head |-> Head1(p, f), last |-> RunEnd(p, f),
                          data |-> Head1(p, f).data \o
                            [ i \in 1 .. RunEnd(p, f) - Head1(p, f).seq |-> Head1(p, f).seq + i ] ] ]
        /\ temp' = [ temp EXCEPT ![p][f].parts =
                        WithData(p, f, Head1(p, f), Append(Head1(p, f).data, Torn)) ]
    BY Zenon DEF MergeBegin
  <2>. QED BY <1>2, <1>4, <1>5, <1>7, <1>9, <2>1 DEF WithData
<1>11. /\ merging' \in [ Pushes -> Merges \cup { None } ] /\ merging'[p] = m /\ m # None
       /\ \A q \in Pushes : q # p => merging'[q] = merging[q]
  BY <1>1, <1>6, <1>10, NoneAssumption DEF Types
<1>12. /\ temp' \in [ Pushes -> Dirs \cup { None } ] /\ temp'[p] # None
       /\ temp'[p][f].parts = S /\ temp'[p][f].whole = None
       /\ \A g \in Files : g # f => temp'[p][g] = temp[p][g]
       /\ \A q \in Pushes : q # p => temp'[q] = temp[q]
  <2>1. p \in Pushes /\ f \in Files /\ S \in SUBSET Parts /\ temp[p] # None
    BY <1>1
  <2>2. /\ temp' \in [ Pushes -> Dirs \cup { None } ] /\ temp'[p] \in Dirs /\ temp'[p] # None
        /\ temp'[p][f].parts = S /\ temp'[p][f].whole = temp[p][f].whole
        /\ \A g \in Files : g # f => temp'[p][g] = temp[p][g]
        /\ \A q \in Pushes : q # p => temp'[q] = temp[q]
    BY <1>1, <1>10, <2>1, PartsSet
  <2>. QED BY <1>1, <2>2
<1>13. Types'
  <2>1. taskMap' \in [ Pushes -> { None, "active", "idle" } ]
    BY <1>1 DEF Types
  <2>2. pending' \in [ Pushes -> SUBSET Files ]
    BY <1>1 DEF Types
  <2>. QED BY <1>1, <1>11, <1>12, <2>1, <2>2 DEF Types
<1>14. OneSound(p)'
  <2>1. \A z \in S : z = y \/ (z \in PartsOf(p, f) /\ z # x)
    BY <1>9
  <2>2. PartsNamed(p, f) /\ DataSound(p, f)
    BY <1>1 DEF DirSound
  <2>3. /\ PartsOf(p, f)' = S
        /\ \A z : IsHead(p, f, z)' <=> z.seq = x.seq /\ z.merged = x.merged
    BY <1>6, <1>11, <1>12 DEF PartsOf, IsHead, BeingMerged
  <2>4. \A z \in PartsOf(p, f) : z # x => ~(z.seq = x.seq /\ z.merged = x.merged)
                                          /\ ~(z.merged /\ x.merged)
    BY <1>2, <2>2 DEF PartsNamed
  <2>5. PartsNamed(p, f)'
    <3>1. \A z \in S : z.seq \in 1 .. Blocks[p][f]
      BY <1>2, <1>8, <2>1, <2>2 DEF PartsNamed
    <3>2. \A z, w \in S : z.merged = w.merged /\ (z.merged \/ z.seq = w.seq) => z = w
      BY <1>8, <2>1, <2>2, <2>4 DEF PartsNamed
    <3>3. BeingMerged(p, f)' /\ ~m.head.merged => Merged(p, f)' = {}
      BY <1>2, <1>6, <1>8, <2>1, <2>3 DEF Merged
    <3>. QED BY <1>11, <2>3, <3>1, <3>2, <3>3 DEF PartsNamed
  <2>6. DataSound(p, f)'
    <3> SUFFICES ASSUME << p, f >> \notin damaged
                 PROVE  \A z \in S : z.data = PartData(p, f, z)'
      BY <1>1, <1>12, <2>3 DEF DataSound
    <3>1. y.data = PartData(p, f, y)'
      BY <1>6, <1>8, <1>11, <2>3 DEF PartData
    <3>2. ASSUME NEW z \in PartsOf(p, f), z # x PROVE z.data = PartData(p, f, z)'
      <4>1. z.data = PartData(p, f, z)
        BY <2>2 DEF DataSound
      <4>2. ~IsHead(p, f, z)
        BY <1>1 DEF IsHead, BeingMerged
      <4>3. ~IsHead(p, f, z)'
        BY <2>3, <2>4, <3>2
      <4>. QED BY <4>1, <4>2, <4>3 DEF PartData
    <3>. QED BY <2>1, <3>1, <3>2
  <2>7. ASSUME NEW g \in Files, g # f PROVE PartsNamed(p, g)' /\ DataSound(p, g)'
    <3>1. PartsNamed(p, g) /\ DataSound(p, g)
      BY <1>1 DEF DirSound
    <3>2. temp'[p][g] = temp[p][g] /\ ~BeingMerged(p, g) /\ ~BeingMerged(p, g)'
      BY <1>1, <1>6, <1>11, <1>12, <2>7 DEF BeingMerged
    <3>3. \A z : ~IsHead(p, g, z) /\ ~IsHead(p, g, z)'
      BY <3>2 DEF IsHead
    <3>. QED BY <1>1, <3>1, <3>2, <3>3 DEF PartsNamed, DataSound, PartData, PartsOf, Merged, WholeData
  <2>8. DirSound(p)'
    BY <2>5, <2>6, <2>7 DEF DirSound
  <2>9. MergeSound(p)'
    <3>1. << p, f >> \notin damaged => m.data = Upto(k)
      <4>1. << p, f >> \notin damaged => x.data = Upto(x.seq)
        BY <1>1, <1>2, HeadData
      <4>2. Upto(x.seq) \o [ i \in 1 .. k - x.seq |-> x.seq + i ] = Upto(k)
        <5>1. PICK s \in Nat : s = x.seq /\ s <= k
          BY <1>3, <1>4
        <5>2. Upto(s) \o [ i \in 1 .. k - s |-> s + i ] = Upto(k)
          BY <5>1, UptoJoins
        <5>. QED BY <5>1, <5>2
      <4>. QED BY <1>6, <4>1, <4>2
    <3>. QED BY <1>1, <1>4, <1>6, <1>11, <3>1 DEF MergeSound
  <2>10. \A g \in Files : temp'[p][g].whole = temp[p][g].whole
    BY <1>1, <1>12
  <2>11. CommitSound(p)'
    BY <1>1, <1>12, <2>10, CommitKept DEF PInv, OneSound, CommitSound
  <2>12. PushSound(p)'
    BY <1>1, <1>12, PushKept DEF PInv, OneSound
  <2>13. ASSUME NEW b \in BlocksOf(p), Kept(p, b) PROVE Kept(p, b)'
    <3>1. b[1] \in Files
      BY BlockNames
    <3>2. CASE b[1] # f
      BY <1>12, <2>13, <3>1, <3>2 DEF Kept, PartsOf
    <3>3. CASE b[1] = f
      <4>1. PICK z \in PartsOf(p, f) : z.seq = b[2] \/ (z.merged /\ z.seq > b[2])
        BY <1>1, <2>13, <3>3 DEF Kept
      <4>2. CASE z = x
        BY <1>8, <1>9, <1>12, <2>3, <3>3, <4>1, <4>2 DEF Kept
      <4>3. CASE z # x
        BY <1>9, <1>12, <2>3, <3>3, <4>1, <4>3 DEF Kept
      <4>. QED BY <4>2, <4>3
    <3>. QED BY <3>2, <3>3
  <2>14. Acknowledged(p)'
    BY <1>1, <2>13, AcknowledgedStay DEF PInv, OneSound
  <2>. QED BY <2>8, <2>9, <2>11, <2>12, <2>14 DEF OneSound
<1>15. \A q \in Pushes : q # p => OneSound(q)'
  BY <1>1, <1>11, <1>12, OthersKept DEF PInv
<1>16. InfoSound'
  BY <1>1, InfoKept DEF PInv
<1>17. CleanSound'
  <2>1. \A q \in Pushes : taskMap'[q] \in { taskMap[q], "active" }
    BY <1>1 DEF Types
  <2>. QED BY <1>1, <2>1, CleanKept DEF PInv
<1>18. PublishedWhole' /\ LostOnlyWhenCut'
  BY <1>1, PublishedKept, LostKept DEF PInv
<1>. QED BY <1>13, <1>14, <1>15, <1>16, <1>17, <1>18 DEF PInv

\* It ends with a merged part, or with the whole file.
LEMMA MergeEndKeeps ==
    ASSUME PInv, NEW p \in Pushes, MergeEnd(p), UNCHANGED clientVars
    PROVE  PInv'
<1>. USE DEF cleanVars, ghostVars, clientVars
<1>1. /\ Types /\ merging[p] # None /\ DirSound(p)
      /\ merging' = [ merging EXCEPT ![p] = None ]
      /\ UNCHANGED << info, rows, project, taskMap, handlers, pending, commit, cleanVars,
                      ghostVars, faults, clientVars >>
  BY DEF MergeEnd, PInv, OneSound
<1>2. PICK m \in Merges : m = merging[p]
  BY <1>1 DEF Types
<1>3. /\ m.file \in Files /\ m.head \in Parts /\ m.last \in Nat /\ m.data \in Data
      /\ m.head.seq \in Nat /\ m.head.seq < m.last /\ m.last <= Blocks[p][m.file]
      /\ << p, m.file >> \notin damaged => m.data = Upto(m.last)
  BY <1>1, <1>2 DEF PInv, OneSound, MergeSound, Merges, Parts
<1>4. PICK f \in Files, k \in Nat : f = m.file /\ k = m.last
  BY <1>3
<1>5. /\ merging' \in [ Pushes -> Merges \cup { None } ] /\ merging'[p] = None
      /\ \A q \in Pushes : q # p => merging'[q] = merging[q]
  BY <1>1 DEF Types
<1>6. \A z : IsHead(p, f, z) <=> z.seq = m.head.seq /\ z.merged = m.head.merged
  BY <1>1, <1>2, <1>4 DEF IsHead, BeingMerged
<1>7. \A g \in Files : ~BeingMerged(p, g)' /\ \A z : ~IsHead(p, g, z)'
  BY <1>5 DEF BeingMerged, IsHead
<1>8. temp[p] # None => temp[p] \in Dirs /\ PartsOf(p, f) \subseteq Parts
  BY <1>1 DEF Types, Dirs, PartsOf
<1>9. \A g \in Files : g # f => ~BeingMerged(p, g)
  BY <1>2, <1>4 DEF BeingMerged
<1>10. /\ temp' \in [ Pushes -> Dirs \cup { None } ]
       /\ \A q \in Pushes : q # p => temp'[q] = temp[q]
       /\ DirSound(p)'
       /\ temp'[p] = None <=> temp[p] = None
       /\ temp[p] # None => \A g \in Files : temp[p][g].whole # None => temp'[p][g].whole # None
       /\ \A x \in BlocksOf(p) : Kept(p, x) => Kept(p, x)'
  <2>1. CASE temp[p] # None /\ \E z \in PartsOf(p, f) : IsHead(p, f, z)
    <3>1. PICK y \in Parts :
            /\ y = (CHOOSE z \in PartsOf(p, f) : z.seq = m.head.seq /\ z.merged = m.head.merged)
            /\ y \in PartsOf(p, f) /\ y.seq = m.head.seq /\ y.merged = m.head.merged
      BY <1>6, <1>8, <2>1
    <3>2. PICK d : d = IF y.data = Append(m.head.data, Torn) THEN m.data ELSE y.data
      OBVIOUS
    <3>3. d \in Data /\ d # None
      BY <1>3, <3>1, <3>2, NoneAssumption DEF Parts
    <3>4. PartsNamed(p, f) /\ DataSound(p, f)
      BY <1>1, <2>1 DEF DirSound
    <3>5. << p, f >> \notin damaged => d = Upto(k)
      <4>1. << p, f >> \notin damaged => y.data = Append(m.head.data, Torn)
        BY <1>2, <1>6, <3>1, <3>4 DEF DataSound, PartData
      <4>. QED BY <1>3, <1>4, <3>2, <4>1
    <3>6. \A z \in PartsOf(p, f) : z # y => ~IsHead(p, f, z) /\ ~z.merged
      <4>1. \A z \in PartsOf(p, f) : z # y => ~IsHead(p, f, z)
        BY <1>6, <3>1, <3>4 DEF PartsNamed
      <4>2. CASE m.head.merged
        BY <3>1, <3>4, <4>1, <4>2 DEF PartsNamed, Parts
      <4>3. CASE ~m.head.merged
        <5>1. Merged(p, f) = {}
          BY <1>1, <1>2, <1>4, <3>4, <4>3 DEF PartsNamed, BeingMerged
        <5>. QED BY <4>1, <5>1 DEF Merged
      <4>. QED BY <4>1, <4>2, <4>3
    <3>7. /\ k = Blocks[p][f] => temp' = [ temp EXCEPT ![p][f] = [ parts |-> {}, whole |-> d ] ]
          /\ k # Blocks[p][f] => temp' = [ temp EXCEPT ![p][f].parts =
                                             (@ \ { y }) \cup { Part(k, TRUE, d) } ]
      <4>1. temp[p] # None /\ \E z \in PartsOf(p, merging[p].file) :
                z.seq = merging[p].head.seq /\ z.merged = merging[p].head.merged
        BY <1>2, <1>4, <1>6, <2>1
      <4>2. MergeEnd(p)
        OBVIOUS
      <4>3. LET now  == CHOOSE z \in PartsOf(p, merging[p].file) :
                            z.seq = merging[p].head.seq /\ z.merged = merging[p].head.merged
                data == IF now.data = Append(merging[p].head.data, Torn)
                        THEN merging[p].data ELSE now.data
            IN  IF merging[p].last = Blocks[p][merging[p].file]
                THEN temp' = [ temp EXCEPT ![p][merging[p].file] =
                                [ parts |-> {}, whole |-> data ] ]
                ELSE temp' = [ temp EXCEPT ![p][merging[p].file].parts =
                                (@ \ { now }) \cup { Part(merging[p].last, TRUE, data) } ]
        BY <4>1, <4>2, Zenon DEF MergeEnd
      <4>4. y = CHOOSE z \in PartsOf(p, merging[p].file) :
                    z.seq = merging[p].head.seq /\ z.merged = merging[p].head.merged
        BY <1>2, <1>4, <3>1
      <4>5. d = IF y.data = Append(merging[p].head.data, Torn) THEN merging[p].data ELSE y.data
        BY <1>2, <3>2
      <4>6. IF merging[p].last = Blocks[p][merging[p].file]
            THEN temp' = [ temp EXCEPT ![p][merging[p].file] = [ parts |-> {}, whole |-> d ] ]
            ELSE temp' = [ temp EXCEPT ![p][merging[p].file].parts =
                            (@ \ { y }) \cup { Part(merging[p].last, TRUE, d) } ]
        BY <4>3, <4>4, <4>5
      <4>7. merging[p].file = f /\ merging[p].last = k
        BY <1>2, <1>4
      <4>. QED BY <4>6, <4>7
    <3>8. CASE k = Blocks[p][f]
      <4>1. PICK r \in [ parts : SUBSET Parts, whole : Data \cup { None } ] :
                r = [ parts |-> {}, whole |-> d ] /\ r.parts = {} /\ r.whole = d
        <5>1. [ parts |-> {}, whole |-> d ] \in [ parts : SUBSET Parts, whole : Data \cup { None } ]
          BY <3>3
        <5>. QED BY <5>1
      <4>2. temp' = [ temp EXCEPT ![p][f] = r ]
        BY <3>7, <3>8, <4>1
      <4>3. p \in Pushes /\ f \in Files /\ temp[p] # None
            /\ r \in [ parts : SUBSET Parts, whole : Data \cup { None } ]
        BY <2>1
      <4>4. /\ temp' \in [ Pushes -> Dirs \cup { None } ] /\ temp'[p] \in Dirs /\ temp'[p] # None
            /\ temp'[p][f] = r
            /\ \A g \in Files : g # f => temp'[p][g] = temp[p][g]
            /\ \A q \in Pushes : q # p => temp'[q] = temp[q]
        BY <1>1, <4>2, <4>3, FileSet
      <4>5. PartsNamed(p, f)'
        BY <4>1, <4>4 DEF PartsNamed, PartsOf, Merged
      <4>6. DataSound(p, f)'
        BY <1>1, <3>5, <3>8, <4>1, <4>4 DEF DataSound, PartsOf, WholeData, Upto
      <4>7. ASSUME NEW g \in Files, g # f PROVE PartsNamed(p, g)' /\ DataSound(p, g)'
        BY <1>1, <1>7, <1>9, <2>1, <4>4, <4>7 DEF DirSound, PartsNamed, DataSound, PartData, IsHead,
                                      PartsOf, Merged, WholeData
      <4>8. DirSound(p)'
        BY <4>5, <4>6, <4>7 DEF DirSound
      <4>9. \A g \in Files : temp[p][g].whole # None => temp'[p][g].whole # None
        BY <3>3, <4>1, <4>4
      <4>10. ASSUME NEW x \in BlocksOf(p), Kept(p, x) PROVE Kept(p, x)'
        <5>1. x[1] \in Files
          BY BlockNames
        <5>2. CASE x[1] = f
          BY <3>3, <4>1, <4>4, <5>2 DEF Kept
        <5>3. CASE x[1] # f
          BY <4>4, <4>10, <5>1, <5>3 DEF Kept, PartsOf
        <5>. QED BY <5>2, <5>3
      <4>. QED BY <2>1, <4>4, <4>8, <4>9, <4>10
    <3>9. CASE k # Blocks[p][f]
      <4>1. PICK w \in Parts : w = Part(k, TRUE, d) /\ w.seq = k /\ w.merged = TRUE /\ w.data = d
        <5>1. Part(k, TRUE, d) \in Parts
          BY <3>3 DEF Part, Parts
        <5>. QED BY <5>1 DEF Part
      <4>2. PICK S \in SUBSET Parts : S = (PartsOf(p, f) \ { y }) \cup { w }
        BY <1>8, <2>1
      <4>3. temp' = [ temp EXCEPT ![p][f].parts = S ]
        BY <3>7, <3>9, <4>1, <4>2 DEF PartsOf
      <4>4. p \in Pushes /\ f \in Files /\ S \in SUBSET Parts /\ temp[p] # None
        BY <2>1
      <4>5. /\ temp' \in [ Pushes -> Dirs \cup { None } ] /\ temp'[p] \in Dirs /\ temp'[p] # None
            /\ temp'[p][f].parts = S /\ temp'[p][f].whole = temp[p][f].whole
            /\ \A g \in Files : g # f => temp'[p][g] = temp[p][g]
            /\ \A q \in Pushes : q # p => temp'[q] = temp[q]
        BY <1>1, <4>3, <4>4, PartsSet
      <4>6. \A z \in S : z = w \/ (z \in PartsOf(p, f) /\ z # y)
        BY <4>2
      <4>7. PartsOf(p, f)' = S
        BY <4>5 DEF PartsOf
      <4>8. k \in 1 .. Blocks[p][f]
        <5>1. Blocks[p][f] \in Nat
          BY HubAssumption
        <5>. QED BY <1>3, <1>4, <5>1
      <4>9. PartsNamed(p, f)'
        <5>1. \A z \in S : z.seq \in 1 .. Blocks[p][f]
          BY <3>4, <4>1, <4>6, <4>8 DEF PartsNamed
        <5>2. \A z, v \in S : z.merged = v.merged /\ (z.merged \/ z.seq = v.seq) => z = v
          BY <3>4, <3>6, <4>1, <4>6 DEF PartsNamed
        <5>. QED BY <1>7, <4>7, <5>1, <5>2 DEF PartsNamed
      <4>10. DataSound(p, f)'
        <5> SUFFICES ASSUME << p, f >> \notin damaged
                     PROVE  /\ temp[p][f].whole # None => temp[p][f].whole = WholeData(p, f)
                            /\ \A z \in S : z.data = PartData(p, f, z)'
          BY <1>1, <4>5, <4>7 DEF DataSound, WholeData
        <5>1. temp[p][f].whole # None => temp[p][f].whole = WholeData(p, f)
          BY <3>4 DEF DataSound
        <5>2. w.data = PartData(p, f, w)'
          BY <1>7, <3>5, <4>1 DEF PartData
        <5>3. ASSUME NEW z \in PartsOf(p, f), z # y PROVE z.data = PartData(p, f, z)'
          <6>1. z.data = PartData(p, f, z)
            BY <3>4 DEF DataSound
          <6>2. ~IsHead(p, f, z) /\ ~IsHead(p, f, z)'
            BY <1>7, <3>6, <5>3
          <6>. QED BY <6>1, <6>2 DEF PartData
        <5>. QED BY <4>6, <5>1, <5>2, <5>3
      <4>11. ASSUME NEW g \in Files, g # f PROVE PartsNamed(p, g)' /\ DataSound(p, g)'
        BY <1>1, <1>7, <1>9, <2>1, <4>5, <4>11 DEF DirSound, PartsNamed, DataSound, PartData, IsHead,
                                      PartsOf, Merged, WholeData
      <4>12. DirSound(p)'
        BY <4>9, <4>10, <4>11 DEF DirSound
      <4>13. \A g \in Files : temp[p][g].whole # None => temp'[p][g].whole # None
        BY <4>5
      <4>14. ASSUME NEW x \in BlocksOf(p), Kept(p, x) PROVE Kept(p, x)'
        <5>1. x[1] \in Files /\ x[2] \in Nat
          BY BlockNames
        <5>2. CASE x[1] = f
          <6>1. CASE temp[p][f].whole # None
            BY <4>5, <5>2, <6>1 DEF Kept
          <6>2. CASE temp[p][f].whole = None
            <7>1. PICK z \in PartsOf(p, f) : z.seq = x[2] \/ (z.merged /\ z.seq > x[2])
              BY <4>14, <5>2, <6>2 DEF Kept
            <7>2. CASE z = y
              <8>1. k > x[2]
                BY <1>3, <1>4, <3>1, <5>1, <7>1, <7>2
              <8>2. w \in PartsOf(p, f)'
                BY <4>2, <4>7
              <8>. QED BY <4>1, <4>5, <5>2, <8>1, <8>2 DEF Kept
            <7>3. CASE z # y
              BY <4>2, <4>5, <4>7, <5>2, <7>1, <7>3 DEF Kept
            <7>. QED BY <7>2, <7>3
          <6>. QED BY <6>1, <6>2
        <5>3. CASE x[1] # f
          BY <4>5, <4>14, <5>1, <5>3 DEF Kept, PartsOf
        <5>. QED BY <5>2, <5>3
      <4>. QED BY <2>1, <4>5, <4>12, <4>13, <4>14
    <3>. QED BY <3>8, <3>9
  <2>2. CASE ~(temp[p] # None /\ \E z \in PartsOf(p, f) : IsHead(p, f, z))
    <3>1. temp' = temp
      <4>1. ~(temp[p] # None /\ \E z \in PartsOf(p, m.file) :
                                    z.seq = m.head.seq /\ z.merged = m.head.merged)
        BY <1>4, <1>6, <2>2
      <4>. QED BY <1>2, <4>1, Zenon DEF MergeEnd
    <3>2. ASSUME NEW g \in Files, temp[p] # None PROVE PartsNamed(p, g)' /\ DataSound(p, g)'
      <4>1. \A z \in PartsOf(p, g) : ~IsHead(p, g, z) /\ ~IsHead(p, g, z)'
        BY <1>7, <1>9, <2>2, <3>2 DEF IsHead
      <4>2. PartsNamed(p, g) /\ DataSound(p, g)
        BY <1>1, <3>2 DEF DirSound
      <4>. QED BY <1>1, <1>7, <3>1, <4>1, <4>2 DEF PartsNamed, DataSound, PartData, PartsOf, WholeData
    <3>3. DirSound(p)'
      BY <3>1, <3>2 DEF DirSound
    <3>4. \A x \in BlocksOf(p) : Kept(p, x) => Kept(p, x)'
      BY <3>1, KeptStays
    <3>. QED BY <1>1, <3>1, <3>3, <3>4 DEF Types
  <2>. QED BY <2>1, <2>2
<1>11. Types'
  BY <1>1, <1>5, <1>10 DEF Types
<1>12. OneSound(p)'
  <2>1. MergeSound(p)'
    BY <1>5 DEF MergeSound
  <2>2. CommitSound(p)'
    BY <1>1, <1>10, CommitKept DEF PInv, OneSound, CommitSound
  <2>3. PushSound(p)'
    BY <1>1, <1>10, PushKept DEF PInv, OneSound
  <2>4. Acknowledged(p)'
    BY <1>1, <1>10, AcknowledgedStay DEF PInv, OneSound
  <2>. QED BY <1>10, <2>1, <2>2, <2>3, <2>4 DEF OneSound
<1>13. \A q \in Pushes : q # p => OneSound(q)'
  BY <1>1, <1>5, <1>10, OthersKept DEF PInv
<1>14. InfoSound'
  BY <1>1, InfoKept DEF PInv
<1>15. CleanSound' /\ PublishedWhole' /\ LostOnlyWhenCut'
  BY <1>1, CleanKept, PublishedKept, LostKept DEF PInv
<1>. QED BY <1>11, <1>12, <1>13, <1>14, <1>15 DEF PInv

\* An error ends it: what it was appending to is not counted on any more.
LEMMA MergeFailsKeeps ==
    ASSUME PInv, NEW p \in Pushes, MergeFails(p), UNCHANGED clientVars
    PROVE  PInv'
<1>. USE DEF cleanVars, clientVars
<1>1. /\ Types /\ merging[p] # None /\ DirSound(p)
      /\ merging' = [ merging EXCEPT ![p] = None ]
      /\ UNCHANGED << info, rows, project, taskMap, handlers, pending, commit, cleanVars,
                      cut, published, clientVars >>
  BY DEF MergeFails, PInv, OneSound
<1>2. PICK f \in Files, h \in Parts : f = merging[p].file /\ h = merging[p].head
  BY <1>1 DEF Types, Merges
<1>3. damaged' = damaged \cup { << p, f >> }
  BY <1>2 DEF MergeFails
<1>4. /\ merging' \in [ Pushes -> Merges \cup { None } ] /\ merging'[p] = None
      /\ \A q \in Pushes : q # p => merging'[q] = merging[q]
  BY <1>1 DEF Types
<1>5. \A g \in Files : g # f => ~BeingMerged(p, g) /\ \A z : ~IsHead(p, g, z)
  BY <1>2 DEF BeingMerged, IsHead
<1>6. \A g \in Files : ~BeingMerged(p, g)' /\ \A z : ~IsHead(p, g, z)'
  BY <1>4 DEF BeingMerged, IsHead
<1>7. /\ temp' \in [ Pushes -> Dirs \cup { None } ]
      /\ \A q \in Pushes : q # p => temp'[q] = temp[q]
      /\ temp'[p] = None <=> temp[p] = None
      /\ temp[p] # None => \A g \in Files :
            /\ temp'[p][g].whole = temp[p][g].whole
            /\ temp'[p][g].parts \subseteq temp[p][g].parts
            /\ g # f => temp'[p][g].parts = temp[p][g].parts
  <2>1. CASE temp' = temp
    BY <1>1, <2>1 DEF Types
  <2>2. CASE temp' # temp
    <3>1. temp[p] # None /\ temp[p] \in Dirs
      BY <1>1, <2>2 DEF MergeFails, Types
    <3>2. PICK P \in SUBSET Parts : P = { x \in temp[p][f].parts : x.seq # h.seq \/ x.merged # h.merged }
      BY <3>1 DEF Dirs
    <3>3. temp' = [ temp EXCEPT ![p][f].parts = P ]
      BY <1>1, <1>2, <2>2, <3>2 DEF MergeFails
    <3>4. /\ temp' \in [ Pushes -> Dirs \cup { None } ] /\ temp'[p] \in Dirs /\ temp'[p] # None
          /\ temp'[p][f].parts = P /\ temp'[p][f].whole = temp[p][f].whole
          /\ \A g \in Files : g # f => temp'[p][g] = temp[p][g]
          /\ \A q \in Pushes : q # p => temp'[q] = temp[q]
      BY <1>1, <3>1, <3>3, PartsSet
    <3>. QED BY <3>1, <3>2, <3>4
  <2>. QED BY <2>1, <2>2
<1>8. Types'
  BY <1>1, <1>4, <1>7 DEF Types
<1>9. DirSound(p)'
  <2>1. ASSUME NEW g \in Files, temp[p] # None PROVE PartsNamed(p, g)' /\ DataSound(p, g)'
    <3>1. PartsNamed(p, g) /\ DataSound(p, g)
      BY <1>1, <2>1 DEF DirSound
    <3>2. PartsNamed(p, g)'
      BY <1>6, <1>7, <2>1, <3>1 DEF PartsNamed, PartsOf
    <3>3. CASE g = f
      BY <1>3, <3>2, <3>3 DEF DataSound
    <3>4. CASE g # f
      <4>1. \A x : PartData(p, g, x)' = PartData(p, g, x)
        BY <1>5, <1>6, <3>4 DEF PartData
      <4>. QED BY <1>3, <1>7, <2>1, <3>1, <3>2, <3>4, <4>1 DEF DataSound, PartsOf, WholeData
    <3>. QED BY <3>3, <3>4
  <2>. QED BY <1>7, <2>1 DEF DirSound
<1>10. OneSound(p)'
  <2>1. MergeSound(p)'
    BY <1>4 DEF MergeSound
  <2>2. CommitSound(p)'
    BY <1>1, <1>7, CommitKept DEF PInv, OneSound, CommitSound
  <2>3. PushSound(p)'
    BY <1>1, <1>7, PushKept DEF PInv, OneSound
  <2>4. ASSUME NEW x \in BlocksOf(p), Kept(p, x), << p, x[1] >> \notin damaged'
        PROVE  Kept(p, x)'
    <3>1. x[1] \in Files /\ x[1] # f
      BY <1>3, <2>4, BlockNames
    <3>. QED BY <1>7, <2>4, <3>1 DEF Kept, PartsOf
  <2>5. Acknowledged(p)'
    BY <1>1, <1>3, <2>4, AcknowledgedStay DEF PInv, OneSound
  <2>. QED BY <1>9, <2>1, <2>2, <2>3, <2>5 DEF OneSound
<1>11. \A q \in Pushes : q # p => OneSound(q)'
  BY <1>1, <1>3, <1>4, <1>7, OthersKept DEF PInv
<1>12. InfoSound'
  BY <1>1, InfoKept DEF PInv
<1>13. CleanSound' /\ PublishedWhole' /\ LostOnlyWhenCut'
  BY <1>1, <1>3, CleanKept, PublishedKept, LostKept DEF PInv
<1>. QED BY <1>8, <1>10, <1>11, <1>12, <1>13 DEF PInv

-----------------------------------------------------------------------------
(* The invariant, and what follows from it *)

\* The invariant holds at first.
LEMMA InitSound == Init => PInv
<1> SUFFICES ASSUME Init PROVE PInv
  OBVIOUS
<1>. USE DEF Init, HubInit
<1>1. Client("init", 0, 0, TRUE) \in Clients /\ Client("init", 0, 0, TRUE).pc = "init"
  <2>1. 0 \in Nat /\ TRUE \in BOOLEAN
    OBVIOUS
  <2>. QED BY <2>1, ClientIs
<1>2. Types
  BY <1>1 DEF Types
<1>3. ASSUME NEW p \in Pushes PROVE OneSound(p)
  <2>1. DirSound(p) /\ MergeSound(p) /\ CommitSound(p)
    BY DEF DirSound, MergeSound, CommitSound, Replacing, At
  <2>2. PushSound(p)
    BY DEF PushSound
  <2>3. Acknowledged(p)
    BY DEF Acknowledged
  <2>. QED BY <2>1, <2>2, <2>3 DEF OneSound
<1>4. InfoSound
  BY <1>1 DEF InfoSound
<1>5. CleanSound
  BY NoneAssumption DEF CleanSound
<1>6. PublishedWhole /\ LostOnlyWhenCut
  BY DEF PublishedWhole, LostOnlyWhenCut
<1>. QED BY <1>2, <1>3, <1>4, <1>5, <1>6 DEF PInv

\* It is about the state only.
LEMMA StutterSound == PInv /\ UNCHANGED vars => PInv'
<1> SUFFICES ASSUME PInv, UNCHANGED vars PROVE PInv'
  OBVIOUS
<1>. USE DEF vars, hubVars, diskVars, taskVars, cleanVars, ghostVars, clientVars
<1>1. Types'
  BY DEF PInv, Types
<1>2. \A q \in Pushes : OneSound(q)'
  BY OthersKept DEF PInv
<1>3. InfoSound' /\ CleanSound' /\ PublishedWhole' /\ LostOnlyWhenCut'
  BY InfoKept, CleanKept, PublishedKept, LostKept DEF PInv
<1>. QED BY <1>1, <1>2, <1>3 DEF PInv

\* Every step of a client, of the hub, of its cleaner and of what fails keeps the
\* invariant.
THEOREM Invariance == Spec => []PInv
<1>1. ASSUME PInv, [Next]_vars PROVE PInv'
  <2>1. CASE UNCHANGED vars
    BY <1>1, <2>1, StutterSound
  <2>2. ASSUME NEW p \in Pushes, ClientStep(p) PROVE PInv'
    BY <1>1, <2>2, InitUploadKeeps, TaskCreatedKeeps, SendBlockKeeps, BlockNotSent,
       RoundOverKeeps, SendCommitKeeps, CommitNotServed DEF ClientStep
  <2>3. ASSUME NEW p \in Pushes, Serve(p) PROVE PInv'
    <3>1. ASSUME NEW h \in handlers[p], BlockStored(p, h) \/ BlockFails(p, h) PROVE PInv'
      BY <1>1, <3>1, BlockStoredKeeps, BlockFailsKeeps
    <3>2. ASSUME AnswerLeft(p) \/ AnswerDone(p) \/ AnswerError(p) PROVE PInv'
      BY <1>1, <3>2, AnswerLeftKeeps, AnswerDoneKeeps, AnswerErrorKeeps
    <3>3. ASSUME NEW f \in Files, MergeSettled(p, f) \/ MergeBegin(p, f), UNCHANGED clientVars
          PROVE  PInv'
      BY <1>1, <3>3, MergeSettledKeeps, MergeBeginKeeps
    <3>4. ASSUME MergeEnd(p) \/ CommitChecked(p) \/ CommitMerge(p), UNCHANGED clientVars
          PROVE  PInv'
      BY <1>1, <3>4, MergeEndKeeps, CommitCheckedKeeps, CommitMergeKeeps
    <3>5. ASSUME CommitRemove(p) \/ RemoveEntry(p) \/ RemoveEnds(p), UNCHANGED clientVars
          PROVE  PInv'
      BY <1>1, <3>5, CommitRemoveKeeps, RemoveEntryKeeps, RemoveEndsKeeps
    <3>. QED BY <2>3, <3>1, <3>2, <3>3, <3>4, <3>5 DEF Serve
  <2>4. CASE Clean
    BY <1>1, <2>4, ListDeadKeeps, CleanCheckKeeps, CleanDirKeeps, CleanRowKeeps DEF Clean
  <2>5. CASE Fault
    BY <1>1, <2>5, BlockNotSent, AnswerLostKeeps, CommitNotServed, MergeFailsKeeps, GrowOldKeeps,
       HubRestartsKeeps DEF Fault
  <2>. QED BY <1>1, <2>1, <2>2, <2>3, <2>4, <2>5 DEF Next
<1>. QED BY <1>1, InitSound, PTL DEF Spec

\* Commit publishes a directory only with every file of its info whole, and every whole
\* file in it is the blocks of its push in their order, unless a merge of it failed, a
\* restart cut one short or a block stored again overtook one; and it stays so until the
\* first entry of it is removed.
THEOREM PublishedIsWhole == Spec => []PublishedWhole
<1>1. PInv => PublishedWhole
  BY DEF PInv
<1>. QED BY <1>1, Invariance, PTL

\* A model that has been published is there until a commit is about to rename its own
\* directory to its place, and all of it until a commit is removing it, unless the disk
\* fails, the hub dies or the cleaner removes that directory between Commit's removal and
\* its rename.
THEOREM ModelsLostOnlyWhenCut == Spec => []LostOnlyWhenCut
<1>1. PInv => LostOnlyWhenCut
  BY DEF PInv
<1>. QED BY <1>1, Invariance, PTL

\* No block is lost that UploadFile answered for: stores, merges, failed commits and
\* restarts leave it in the directory of its task until the model is published.
THEOREM AcknowledgedBlocksKept == Spec => []AcknowledgedKept
<1>1. PInv => AcknowledgedKept
  BY DEF PInv, OneSound, Acknowledged, Kept, AcknowledgedKept
<1>. QED BY <1>1, Invariance, PTL

=============================================================================
