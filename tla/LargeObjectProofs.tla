------------------------- MODULE LargeObjectProofs -------------------------
(***************************************************************************)
(* Proofs about LargeObject, for every number of writers, readers, parts   *)
(* and failures: the payload that is current is complete, and the two      *)
(* operations together implement an atomic object.                         *)
(***************************************************************************)
EXTENDS LargeObject, FiniteSetTheorems, TLAPS

\* There is a newest of the ready versions.
NewestExists == ready # {} => \E v \in ready : \A u \in ready : u <= v

\* Only payloads that were begun exist.
BegunOnly ==
    /\ roots \subseteq 1 .. seq /\ ready \subseteq 1 .. seq
    /\ \A v \in Versions : v > seq => parts[v] = {}

\* The version a writer writes is its own, is not ready before all its parts are
\* set, and its parts are there for as long as nothing newer is ready; a writer
\* collects only what is older than its own version, which something ready is not.
WriterSound(w) ==
    LET r == writers[w] IN
    /\ IF r.at = "idle" THEN r.version = 0 /\ r.root = 0 ELSE r.version \in 1 .. seq
    /\ r.at = "parts" =>
         /\ r.version \notin ready /\ r.part <= size[r.version]
         /\ (\A u \in ready : u < r.version) =>
               r.version \in roots /\ parts[r.version] = 0 .. r.part - 1
    /\ r.at \in { "listReady", "gcReady", "gcRoots" } =>
         \E u \in ready : r.version <= u
    /\ \A v \in r.todo : v < r.version
    /\ r.todo # {} => r.at \in { "gcReady", "gcRoots" }
    /\ r.root # 0 => r.root \in r.todo /\ r.at = "gcRoots"

WritersSound ==
    /\ \A w \in Writers : WriterSound(w)
    /\ \A w, x \in Writers : writers[w].at # "idle" /\ writers[x].at # "idle" /\ w # x =>
          writers[w].version # writers[x].version

\* A read whose version is still the newest has found all it has looked for.
ReaderSound(r) ==
    LET s == readers[r]  v == readers[r].version IN
    /\ s.at # "idle" => returned[r] = None
    /\ s.at = "latest" => s.part = 0 /\ ~s.corrupt
    /\ s.at \in { "list", "read", "check" } =>
         /\ \E u \in ready : v <= u
         /\ v \in ready /\ (\A u \in ready : u <= v) =>
               /\ ~s.corrupt
               /\ s.at = "list" => s.part = 0
               /\ s.at = "read" => s.listed = PayloadOf(v) /\ s.part <= size[v]
               /\ s.at = "check" => s.part = size[v]

ReadersSound == \A r \in Readers : ReaderSound(r)

\* The inductive invariant.
LInv ==
    /\ TypeOK
    /\ NewestExists
    /\ BegunOnly
    /\ WritersSound
    /\ LatestComplete
    /\ ReadersSound

-----------------------------------------------------------------------------
(* The newest version *)

\* Newest, as a function of what is ready.
NewestIn(s) == IF s = {} THEN 0 ELSE CHOOSE v \in s : \A u \in s : u <= v

\* Newest is about the names that are ready.
LEMMA NewestIsIn == Newest = NewestIn(ready) /\ Newest' = NewestIn(ready')
BY DEF Newest, NewestIn

\* It is the greatest, if there is one.
LEMMA Greatest ==
    ASSUME NEW s \in SUBSET Nat, NEW v \in s, \A u \in s : u <= v
    PROVE  NewestIn(s) = v
<1>1. PICK n \in s : n = NewestIn(s) /\ \A u \in s : u <= n
  BY DEF NewestIn
<1>. QED BY <1>1

\* What the invariant says of it.
LEMMA NewestFacts ==
    ASSUME LInv
    PROVE  /\ ready = {} => Newest = 0
           /\ ready # {} => Newest \in ready /\ Newest \in roots /\ parts[Newest] = PayloadOf(Newest)
           /\ \A u \in ready : u <= Newest
           /\ Newest \in 0 .. seq /\ Newest \in 0 .. MaxVersion
<1>1. seq \in 0 .. MaxVersion /\ MaxVersion \in Nat /\ ready \subseteq 1 .. seq
  BY LargeObjectAssumption DEF LInv, TypeOK, BegunOnly
<1>2. CASE ready = {}
  <2>1. Newest = 0
    BY <1>2 DEF Newest
  <2>. QED BY <1>1, <1>2, <2>1
<1>3. CASE ready # {}
  <2>1. PICK v \in ready : \A u \in ready : u <= v
    BY <1>3 DEF LInv, NewestExists
  <2>2. Newest = v
    BY <1>1, <2>1, Greatest, NewestIsIn
  <2>. QED BY <1>1, <1>3, <2>1, <2>2 DEF LInv, LatestComplete
<1>. QED BY <1>2, <1>3

\* Removing what is not the newest does not change it.
LEMMA NewestKept ==
    ASSUME LInv, ready' \subseteq ready,
           \A v \in ready : \E u \in ready' : v <= u
    PROVE  /\ Newest' = Newest /\ NewestExists'
           /\ ready' # {} <=> ready # {}
<1>1. seq \in Nat /\ ready \subseteq 1 .. seq
  BY LargeObjectAssumption DEF LInv, TypeOK, BegunOnly
<1>2. CASE ready = {}
  BY <1>2, NewestIsIn DEF NewestExists
<1>3. CASE ready # {}
  <2>1. Newest \in ready /\ \A u \in ready : u <= Newest
    BY <1>3, NewestFacts
  <2>2. PICK n \in ready' : Newest <= n
    BY <2>1
  <2>3. n = Newest
    BY <1>1, <2>1, <2>2
  <2>4. \A u \in ready' : u <= Newest
    BY <2>1
  <2>5. Newest' = Newest
    BY <1>1, <2>2, <2>3, <2>4, Greatest, NewestIsIn
  <2>. QED BY <1>3, <2>2, <2>3, <2>4, <2>5 DEF NewestExists
<1>. QED BY <1>2, <1>3

\* The newest payload is left complete by whoever leaves its parts alone.
LEMMA CompleteKept ==
    ASSUME LInv, ready' \subseteq ready,
           \A v \in ready : \E u \in ready' : v <= u,
           ready # {} => /\ Newest \in roots'
                         /\ parts'[Newest] = parts[Newest] /\ size'[Newest] = size[Newest]
    PROVE  NewestExists' /\ LatestComplete'
<1>1. Newest' = Newest /\ NewestExists' /\ (ready' # {} <=> ready # {})
  BY NewestKept
<1>2. ready # {} => parts[Newest] = 0 .. size[Newest] - 1
  BY NewestFacts DEF PayloadOf
<1>3. LatestComplete' <=> (ready' # {} => Newest' \in roots' /\ parts'[Newest'] = 0 .. size'[Newest'] - 1)
  BY DEF LatestComplete, PayloadOf
<1>. QED BY <1>1, <1>2, <1>3

-----------------------------------------------------------------------------
(* Frames of the steps *)

\* A step of one writer.
LEMMA WriteKeeps ==
    ASSUME LInv, TypeOK', NEW w \in Writers, NEW new,
           writers' = [ writers EXCEPT ![w] = new ],
           UNCHANGED << readers, returned >>, seq <= seq',
           \A v \in 1 .. seq : size'[v] = size[v],
           \A v \in ready : \E u \in ready' : v <= u,
           ready' \subseteq ready \cup { writers[w].version },
           \A v \in 1 .. seq : v # writers[w].version /\ (\A u \in ready : u < v) =>
               /\ v \in roots => v \in roots'
               /\ parts'[v] = parts[v],
           new.at # "idle" => new.version > seq \/
               (new.version = writers[w].version /\ writers[w].at # "idle"),
           WriterSound(w)', NewestExists', BegunOnly', LatestComplete'
    PROVE  LInv'
<1>1. /\ seq \in Nat /\ seq' \in Nat /\ ready \subseteq 1 .. seq /\ ready' \subseteq 1 .. seq'
      /\ writers \in [ Writers -> WriterStates ] /\ writers' \in [ Writers -> WriterStates ]
  BY LargeObjectAssumption DEF LInv, TypeOK, BegunOnly
<1>2. /\ writers'[w] = new
      /\ \A x \in Writers : x # w => writers'[x] = writers[x]
  BY <1>1
<1>3. ASSUME NEW x \in Writers, x # w
      PROVE  WriterSound(x)'
  <2>. DEFINE r == writers[x]
  <2>1. WriterSound(x) /\ writers'[x] = r /\ r \in WriterStates
    BY <1>1, <1>2, <1>3 DEF LInv, WritersSound
  <2>2. r.at = "idle" => r.version = 0 /\ r.root = 0
    BY <2>1 DEF WriterSound
  <2>3. r.at # "idle" => r.version \in 1 .. seq /\ r.version \in 1 .. seq'
    BY <1>1, <2>1 DEF WriterSound
  <2>4. r.at # "idle" => r.version # writers[w].version
    <3>1. CASE writers[w].at = "idle"
      <4>1. WriterSound(w)
        BY DEF LInv, WritersSound
      <4>2. writers[w].version = 0
        BY <3>1, <4>1 DEF WriterSound
      <4>. QED BY <2>3, <4>2, <1>1
    <3>2. CASE writers[w].at # "idle"
      BY <1>3, <3>2 DEF LInv, WritersSound
    <3>. QED BY <3>1, <3>2
  <2>5. CASE r.at = "parts"
    <3>1. /\ r.version \notin ready /\ r.part <= size[r.version]
          /\ (\A u \in ready : u < r.version) =>
                r.version \in roots /\ parts[r.version] = 0 .. r.part - 1
          /\ \A v \in r.todo : v < r.version
          /\ r.todo # {} => r.at \in { "gcReady", "gcRoots" }
          /\ r.root # 0 => r.root \in r.todo /\ r.at = "gcRoots"
      BY <2>1, <2>5 DEF WriterSound
    <3>2. r.version \notin ready' /\ r.part <= size'[r.version]
      BY <2>3, <2>4, <2>5, <3>1
    <3>3. (\A u \in ready' : u < r.version) => \A u \in ready : u < r.version
      <4>1. r.version \in Nat
        BY <2>3, <2>5, <1>1
      <4>. QED BY <1>1, <4>1
    <3>4. (\A u \in ready' : u < r.version) =>
              r.version \in roots' /\ parts'[r.version] = 0 .. r.part - 1
      BY <2>3, <2>4, <2>5, <3>1, <3>3
    <3>. QED BY <2>1, <2>3, <2>5, <3>1, <3>2, <3>4 DEF WriterSound
  <2>6. CASE r.at # "parts"
    <3>1. /\ r.at \in { "listReady", "gcReady", "gcRoots" } => \E u \in ready : r.version <= u
          /\ \A v \in r.todo : v < r.version
          /\ r.todo # {} => r.at \in { "gcReady", "gcRoots" }
          /\ r.root # 0 => r.root \in r.todo /\ r.at = "gcRoots"
      BY <2>1, <2>6 DEF WriterSound
    <3>2. r.at \in { "listReady", "gcReady", "gcRoots" } => \E u \in ready' : r.version <= u
      <4>. SUFFICES ASSUME r.at \in { "listReady", "gcReady", "gcRoots" }
                    PROVE  \E u \in ready' : r.version <= u
        OBVIOUS
      <4>1. PICK u \in ready : r.version <= u
        BY <3>1
      <4>2. PICK n \in ready' : u <= n
        BY <4>1
      <4>3. r.version \in Nat /\ u \in Nat /\ n \in Nat
        BY <1>1, <2>3
      <4>. QED BY <4>1, <4>2, <4>3
    <3>. QED BY <2>1, <2>2, <2>3, <2>6, <3>1, <3>2 DEF WriterSound
  <2>. QED BY <2>5, <2>6
<1>4. ASSUME NEW x \in Writers, NEW y \in Writers, x # y,
             writers'[x].at # "idle", writers'[y].at # "idle"
      PROVE  writers'[x].version # writers'[y].version
  <2>1. \A z \in Writers : z # w /\ writers[z].at # "idle" =>
           /\ writers[z].version \in 1 .. seq
           /\ writers[w].at # "idle" => writers[z].version # writers[w].version
    BY DEF LInv, WritersSound, WriterSound
  <2>2. CASE x # w /\ y # w
    BY <1>2, <1>4, <2>2 DEF LInv, WritersSound
  <2>3. CASE x = w
    <3>1. y # w /\ writers'[y] = writers[y] /\ writers'[x] = new
      BY <1>2, <1>4, <2>3
    <3>2. /\ writers[y].version \in 1 .. seq
          /\ writers[w].at # "idle" => writers[y].version # writers[w].version
      BY <1>4, <2>1, <3>1
    <3>3. new.at # "idle"
      BY <1>4, <3>1
    <3>. QED BY <1>1, <3>1, <3>2, <3>3
  <2>4. CASE y = w
    <3>1. x # w /\ writers'[x] = writers[x] /\ writers'[y] = new
      BY <1>2, <1>4, <2>4
    <3>2. /\ writers[x].version \in 1 .. seq
          /\ writers[w].at # "idle" => writers[x].version # writers[w].version
      BY <1>4, <2>1, <3>1
    <3>3. new.at # "idle"
      BY <1>4, <3>1
    <3>. QED BY <1>1, <3>1, <3>2, <3>3
  <2>. QED BY <2>2, <2>3, <2>4
<1>5. WritersSound'
  BY <1>3, <1>4 DEF WritersSound
<1>6. ASSUME NEW r \in Readers
      PROVE  ReaderSound(r)'
  <2>. DEFINE s == readers[r]
  <2>1. ReaderSound(r) /\ readers'[r] = s /\ returned'[r] = returned[r] /\ s \in ReaderStates
    BY DEF LInv, ReadersSound, TypeOK
  <2>2. /\ s.at # "idle" => returned[r] = None
        /\ s.at = "latest" => s.part = 0 /\ ~s.corrupt
    BY <2>1 DEF ReaderSound
  <2>3. ASSUME s.at \in { "list", "read", "check" }
        PROVE  /\ \E u \in ready' : s.version <= u
               /\ s.version \in ready' /\ (\A u \in ready' : u <= s.version) =>
                     /\ ~s.corrupt
                     /\ s.at = "list" => s.part = 0
                     /\ s.at = "read" => s.listed = 0 .. size'[s.version] - 1 /\ s.part <= size'[s.version]
                     /\ s.at = "check" => s.part = size'[s.version]
    <3>1. /\ \E u \in ready : s.version <= u
          /\ s.version \in ready /\ (\A u \in ready : u <= s.version) =>
                     /\ ~s.corrupt
                     /\ s.at = "list" => s.part = 0
                     /\ s.at = "read" => s.listed = 0 .. size[s.version] - 1 /\ s.part <= size[s.version]
                     /\ s.at = "check" => s.part = size[s.version]
      BY <2>1, <2>3 DEF ReaderSound, PayloadOf
    <3>2. PICK u \in ready : s.version <= u
      BY <3>1
    <3>3. PICK n \in ready' : u <= n
      OBVIOUS
    <3>4. s.version \in Nat /\ u \in Nat /\ n \in Nat
      BY <1>1, <2>1 DEF ReaderStates
    <3>5. s.version <= n
      BY <3>2, <3>3, <3>4
    <3>6. ASSUME s.version \in ready', \A x \in ready' : x <= s.version
          PROVE  /\ s.version \in ready /\ (\A x \in ready : x <= s.version)
                 /\ size'[s.version] = size[s.version]
      <4>1. s.version = u
        BY <3>2, <3>3, <3>4, <3>6
      <4>2. \A x \in ready : x <= s.version
        <5>1. SUFFICES ASSUME NEW x \in ready PROVE x <= s.version
          OBVIOUS
        <5>2. PICK y \in ready' : x <= y
          OBVIOUS
        <5>3. x \in Nat /\ y \in Nat /\ y <= s.version
          BY <1>1, <3>6
        <5>. QED BY <3>4, <5>2, <5>3
      <4>. QED BY <1>1, <4>1, <4>2
    <3>. QED BY <3>1, <3>5, <3>6
  <2>. QED BY <2>1, <2>2, <2>3 DEF ReaderSound, PayloadOf
<1>7. ReadersSound'
  BY <1>6 DEF ReadersSound
<1>. QED BY <1>5, <1>7 DEF LInv

\* A step of one reader.
LEMMA ReadKeeps ==
    ASSUME LInv, TypeOK', NEW r \in Readers, NEW new, NEW result,
           readers' = [ readers EXCEPT ![r] = new ],
           returned' = [ returned EXCEPT ![r] = result ],
           UNCHANGED << zkVars, writers, acked >>,
           ReaderSound(r)'
    PROVE  LInv'
<1>1. UNCHANGED << seq, size, roots, parts, ready, writers >>
  BY DEF zkVars
<1>2. NewestExists' /\ BegunOnly' /\ WritersSound'
  BY <1>1 DEF LInv, NewestExists, BegunOnly, WritersSound, WriterSound
<1>3. LatestComplete'
  BY <1>1 DEF LInv, LatestComplete, Newest, PayloadOf
<1>4. \A x \in Readers : x # r => readers'[x] = readers[x] /\ returned'[x] = returned[x]
  BY DEF LInv, TypeOK
<1>5. ASSUME NEW x \in Readers, x # r
      PROVE  ReaderSound(x)'
  <2>1. ReaderSound(x)
    BY DEF LInv, ReadersSound
  <2>. QED BY <1>1, <1>4, <1>5, <2>1 DEF ReaderSound, PayloadOf
<1>. QED BY <1>2, <1>3, <1>5 DEF LInv, ReadersSound

-----------------------------------------------------------------------------
(* The steps of a writer *)

\* What a step may assume of its writer.
LEMMA WriterFacts ==
    ASSUME LInv, NEW w \in Writers
    PROVE  /\ writers[w] \in WriterStates /\ WriterSound(w)
           /\ seq \in Nat /\ seq \in 0 .. MaxVersion /\ MaxVersion \in Nat
           /\ ready \subseteq 1 .. seq /\ roots \subseteq 1 .. seq
           /\ writers \in [ Writers -> WriterStates ]
BY LargeObjectAssumption DEF LInv, TypeOK, BegunOnly, WritersSound

\* A step that only changes what the writer knows.
LEMMA ThinkKeeps ==
    ASSUME LInv, NEW w \in Writers, NEW new \in WriterStates,
           writers' = [ writers EXCEPT ![w] = new ],
           UNCHANGED zkVars, UNCHANGED writerVars,
           acked' \subseteq Versions, failures' \in 0 .. MaxFailures,
           new.at # "idle" => new.version = writers[w].version /\ writers[w].at # "idle",
           WriterSound(w)'
    PROVE  LInv'
<1>1. UNCHANGED << seq, size, roots, parts, ready, readers, returned >>
  BY DEF zkVars, writerVars
<1>2. TypeOK'
  <2>1. writers' \in [ Writers -> WriterStates ]
    BY WriterFacts
  <2>. QED BY <1>1, <2>1 DEF LInv, TypeOK
<1>3. NewestExists' /\ BegunOnly'
  BY <1>1 DEF LInv, NewestExists, BegunOnly
<1>4. LatestComplete'
  BY <1>1 DEF LInv, LatestComplete, Newest, PayloadOf
<1>5. seq <= seq' /\ \A v \in ready : v <= v
  BY <1>1, WriterFacts
<1>. QED BY <1>1, <1>2, <1>3, <1>4, <1>5, WriteKeeps

\* A writer that ends or dies.
LEMMA StopKeeps ==
    ASSUME LInv, NEW w \in Writers, writers' = [ writers EXCEPT ![w] = NoWriter ],
           UNCHANGED zkVars, UNCHANGED writerVars,
           acked' \subseteq Versions, failures' \in 0 .. MaxFailures
    PROVE  LInv'
<1>1. NoWriter \in WriterStates /\ NoWriter.at = "idle"
  BY LargeObjectAssumption DEF NoWriter, WriterStates
<1>2. writers'[w] = NoWriter
  BY WriterFacts
<1>3. WriterSound(w)'
  BY <1>2 DEF WriterSound, NoWriter
<1>. QED BY <1>1, <1>3, ThinkKeeps

\* A version is begun.
LEMMA BeginWriteKeeps == ASSUME LInv, NEW w \in Writers, BeginWrite(w) PROVE LInv'
<1>. DEFINE new == [ NoWriter EXCEPT !.at = "parts", !.version = seq + 1 ]
<1>1. /\ writers[w].at = "idle" /\ seq < MaxVersion /\ seq' = seq + 1
      /\ roots' = roots \cup { seq + 1 }
      /\ writers' = [ writers EXCEPT ![w] = new ]
      /\ UNCHANGED << parts, ready, acked, failures, readers, returned >>
  BY DEF BeginWrite, writerVars
<1>2. PICK n \in 1 .. MaxParts : size' = [ size EXCEPT ![seq + 1] = n ]
  BY <1>1 DEF BeginWrite
<1>3. /\ seq \in Nat /\ seq + 1 \in 1 .. MaxVersion /\ MaxVersion \in Nat /\ MaxParts \in Nat
      /\ ready \subseteq 1 .. seq /\ roots \subseteq 1 .. seq
  BY <1>1, WriterFacts, LargeObjectAssumption
<1>4. /\ new \in WriterStates /\ new.at = "parts" /\ new.version = seq + 1 /\ new.part = 0
      /\ new.todo = {} /\ new.root = 0
  <2>1. seq + 1 \in 0 .. MaxVersion /\ 0 \in 0 .. MaxParts /\ 0 \in 0 .. MaxVersion
    BY <1>3
  <2>a. /\ NoWriter \in WriterStates
        /\ NoWriter.part = 0 /\ NoWriter.todo = {} /\ NoWriter.root = 0
    BY <2>1 DEF NoWriter, WriterStates
  <2>2. PICK b \in WriterStates : b = NoWriter /\ b.part = 0 /\ b.todo = {} /\ b.root = 0
    BY <2>a
  <2>3. new = [ b EXCEPT !.at = "parts", !.version = seq + 1 ]
    BY <2>2
  <2>. QED BY <2>1, <2>2, <2>3 DEF WriterStates
<1>5. TypeOK'
  <2>1. writers' \in [ Writers -> WriterStates ]
    BY <1>1, <1>4, WriterFacts
  <2>2. size' \in [ Versions -> 0 .. MaxParts ]
    <3>1. n \in 0 .. MaxParts /\ size \in [ Versions -> 0 .. MaxParts ]
      BY <1>3 DEF LInv, TypeOK
    <3>. QED BY <1>2, <3>1
  <2>3. roots' \subseteq Versions
    BY <1>1, <1>3 DEF LInv, TypeOK, Versions
  <2>4. seq' \in 0 .. MaxVersion
    BY <1>1, <1>3
  <2>. QED BY <1>1, <2>1, <2>2, <2>3, <2>4 DEF LInv, TypeOK
<1>6. /\ size'[seq + 1] = n
      /\ \A v \in Versions : v # seq + 1 => size'[v] = size[v]
  BY <1>2, <1>3 DEF LInv, TypeOK, Versions
<1>7. parts[seq + 1] = {}
  <2>1. seq + 1 \in Versions /\ seq + 1 > seq
    BY <1>3 DEF Versions
  <2>. QED BY <2>1 DEF LInv, BegunOnly
<1>8. BegunOnly'
  <2>1. \A v \in Versions : v > seq + 1 => v > seq
    BY <1>3 DEF Versions
  <2>. QED BY <1>1, <1>3, <2>1 DEF LInv, BegunOnly
<1>9. \A v \in 1 .. seq : v \in Versions /\ v # seq + 1 /\ size'[v] = size[v]
  <2>1. \A v \in 1 .. seq : v \in Versions /\ v # seq + 1
    BY <1>3 DEF Versions
  <2>. QED BY <1>6, <2>1
<1>10. \A v \in ready : v \in ready' /\ v <= v
  BY <1>1, <1>3
<1>11. NewestExists' /\ LatestComplete'
  <2>1. ready # {} => Newest \in 1 .. seq /\ Newest \in roots
    BY <1>3, NewestFacts
  <2>. QED BY <1>1, <1>9, <1>10, <2>1, CompleteKept
<1>12. WriterSound(w)'
  <2>1. writers'[w] = new
    BY <1>1, WriterFacts
  <2>2. 0 .. 0 - 1 = {} /\ 0 <= n
    OBVIOUS
  <2>3. seq + 1 \in 1 .. seq' /\ seq + 1 \notin ready' /\ seq + 1 \in roots'
    BY <1>1, <1>3
  <2>4. parts'[seq + 1] = 0 .. 0 - 1 /\ size'[seq + 1] = n
    BY <1>1, <1>6, <1>7, <2>2
  <2>. QED BY <1>4, <2>1, <2>2, <2>3, <2>4 DEF WriterSound
<1>. HIDE DEF new
<1>13. seq <= seq' /\ new.version > seq
  BY <1>1, <1>3, <1>4
<1>. QED BY <1>1, <1>5, <1>8, <1>9, <1>10, <1>11, <1>12, <1>13, WriteKeeps

\* A part is set.
LEMMA SetPartKeeps == ASSUME LInv, NEW w \in Writers, SetPart(w) PROVE LInv'
<1>. DEFINE v == writers[w].version
            p == writers[w].part
            new == [ writers[w] EXCEPT !.part = p + 1 ]
<1>1. /\ writers[w].at = "parts" /\ p < size[v] /\ v \in roots
      /\ parts' = [ parts EXCEPT ![v] = @ \cup { p } ]
      /\ writers' = [ writers EXCEPT ![w] = new ]
      /\ UNCHANGED << seq, size, roots, ready, acked, failures, readers, returned >>
  BY DEF SetPart, writerVars
<1>2. /\ writers[w] \in WriterStates /\ v \in 1 .. seq /\ v \notin ready
      /\ seq \in Nat /\ seq <= MaxVersion /\ MaxVersion \in Nat
      /\ ready \subseteq 1 .. seq /\ roots \subseteq 1 .. seq
      /\ (\A u \in ready : u < v) => parts[v] = 0 .. p - 1
      /\ writers[w].todo = {} /\ writers[w].root = 0
  BY <1>1, WriterFacts DEF WriterSound
<1>3. v \in Versions /\ p \in Nat /\ size[v] \in 0 .. MaxParts /\ MaxParts \in Nat
  BY <1>2, LargeObjectAssumption DEF LInv, TypeOK, Versions, WriterStates
<1>4. p \in Indices /\ p + 1 \in 0 .. MaxParts /\ p + 1 <= size[v]
  BY <1>1, <1>3 DEF Indices
<1>5. /\ new \in WriterStates /\ new.at = "parts" /\ new.version = v /\ new.part = p + 1
      /\ new.todo = {} /\ new.root = 0
  BY <1>1, <1>2, <1>4 DEF WriterStates
<1>6. /\ parts'[v] = parts[v] \cup { p }
      /\ \A u \in Versions : u # v => parts'[u] = parts[u]
      /\ parts' \in [ Versions -> SUBSET Indices ]
  BY <1>1, <1>3, <1>4 DEF LInv, TypeOK
<1>7. TypeOK'
  <2>1. writers' \in [ Writers -> WriterStates ]
    BY <1>1, <1>5, WriterFacts
  <2>. QED BY <1>1, <1>6, <2>1 DEF LInv, TypeOK
<1>8. BegunOnly'
  <2>1. \A u \in Versions : u > seq => u # v
    BY <1>2
  <2>. QED BY <1>1, <1>6, <2>1 DEF LInv, BegunOnly
<1>9. \A u \in 1 .. seq : u \in Versions
  BY <1>2 DEF Versions
<1>10. \A u \in ready : u \in ready' /\ u <= u
  BY <1>1, <1>2
<1>11. NewestExists' /\ LatestComplete'
  <2>1. ready # {} => Newest \in roots /\ Newest \in Versions /\ Newest # v
    BY <1>2, <1>9, NewestFacts
  <2>. QED BY <1>1, <1>6, <1>10, <2>1, CompleteKept
<1>12. WriterSound(w)'
  <2>1. writers'[w] = new
    BY <1>1, WriterFacts
  <2>2. (0 .. p - 1) \cup { p } = 0 .. (p + 1) - 1
    BY <1>3
  <2>3. (\A u \in ready' : u < v) => parts'[v] = 0 .. (p + 1) - 1
    BY <1>1, <1>2, <1>6, <2>2
  <2>4. v \in 1 .. seq' /\ v \notin ready' /\ p + 1 <= size'[v] /\ v \in roots'
    BY <1>1, <1>2, <1>4
  <2>. HIDE DEF new
  <2>. QED BY <1>5, <2>1, <2>3, <2>4 DEF WriterSound
<1>13. seq <= seq'
  BY <1>1, <1>2
<1>. QED BY <1>1, <1>5, <1>6, <1>7, <1>8, <1>9, <1>10, <1>11, <1>12, <1>13, WriteKeeps

\* A version is announced.
LEMMA AddReadyKeeps ==
    ASSUME LInv, NEW w \in Writers, AddReady(w)
    PROVE  LInv' /\ Newest' = (IF writers[w].version > Newest THEN writers[w].version ELSE Newest)
<1>. DEFINE v == writers[w].version
            new == [ writers[w] EXCEPT !.at = "listReady" ]
<1>1. /\ writers[w].at = "parts" /\ writers[w].part = size[v] /\ ready' = ready \cup { v }
      /\ writers' = [ writers EXCEPT ![w] = new ]
      /\ UNCHANGED << seq, size, roots, parts, acked, failures, readers, returned >>
  BY DEF AddReady, writerVars
<1>2. /\ writers[w] \in WriterStates /\ v \in 1 .. seq /\ v \notin ready
      /\ seq \in Nat /\ seq <= MaxVersion /\ MaxVersion \in Nat
      /\ ready \subseteq 1 .. seq /\ roots \subseteq 1 .. seq
      /\ (\A u \in ready : u < v) => v \in roots /\ parts[v] = 0 .. size[v] - 1
      /\ writers[w].todo = {} /\ writers[w].root = 0
  BY <1>1, WriterFacts DEF WriterSound
<1>3. /\ new \in WriterStates /\ new.at = "listReady" /\ new.version = v
      /\ new.todo = {} /\ new.root = 0
  BY <1>1, <1>2 DEF WriterStates
<1>4. v \in Versions
  BY <1>2 DEF Versions
<1>5. TypeOK'
  <2>1. writers' \in [ Writers -> WriterStates ]
    BY <1>1, <1>3, WriterFacts
  <2>. QED BY <1>1, <1>4, <2>1 DEF LInv, TypeOK
<1>6. BegunOnly'
  BY <1>1, <1>2 DEF LInv, BegunOnly
<1>7. /\ \A u \in ready : u <= Newest
      /\ Newest \in Nat
      /\ ready # {} => Newest \in ready /\ Newest \in roots /\ parts[Newest] = 0 .. size[Newest] - 1
      /\ ready = {} => Newest = 0
  BY <1>2, NewestFacts DEF PayloadOf
<1>8. ready' \in SUBSET Nat
  BY <1>1, <1>2
<1>11. /\ NewestExists' /\ LatestComplete'
       /\ Newest' = (IF v > Newest THEN v ELSE Newest)
  <2>1. CASE v > Newest
    <3>1. \A u \in ready' : u <= v
      BY <1>1, <1>2, <1>7, <2>1
    <3>2. Newest' = v /\ v \in ready'
      BY <1>1, <1>8, <3>1, Greatest, NewestIsIn
    <3>3. \A u \in ready : u < v
      BY <1>1, <1>2, <1>7, <2>1
    <3>4. NewestExists' /\ LatestComplete'
      BY <1>1, <1>2, <3>1, <3>2, <3>3 DEF NewestExists, LatestComplete, PayloadOf
    <3>. QED BY <2>1, <3>2, <3>4
  <2>2. CASE ~(v > Newest)
    <3>1. v <= Newest /\ ready # {}
      BY <1>2, <1>7, <2>2
    <3>2. \A u \in ready' : u <= Newest
      BY <1>1, <1>7, <3>1
    <3>3. Newest' = Newest /\ Newest \in ready'
      BY <1>1, <1>7, <1>8, <3>1, <3>2, Greatest, NewestIsIn
    <3>4. NewestExists' /\ LatestComplete'
      BY <1>1, <1>7, <3>1, <3>2, <3>3 DEF NewestExists, LatestComplete, PayloadOf
    <3>. QED BY <2>2, <3>3, <3>4
  <2>. QED BY <2>1, <2>2
<1>12. WriterSound(w)'
  <2>1. writers'[w] = new
    BY <1>1, WriterFacts
  <2>2. v \in ready' /\ v <= v
    BY <1>1, <1>2
  <2>. QED BY <1>1, <1>2, <1>3, <2>1, <2>2 DEF WriterSound
<1>13. seq <= seq' /\ \A u \in ready : u \in ready' /\ u <= u
  BY <1>1, <1>2
<1>14. LInv'
  BY <1>1, <1>3, <1>5, <1>6, <1>11, <1>12, <1>13, WriteKeeps
<1>. QED BY <1>11, <1>14

\* The older ready versions are listed.
LEMMA ListReadyKeeps == ASSUME LInv, NEW w \in Writers, ListReady(w) PROVE LInv'
<1>. DEFINE v == writers[w].version
            old == Older(ready, v)
            new == [ writers[w] EXCEPT !.at = "gcReady", !.todo = old ]
<1>1. /\ writers[w].at = "listReady" /\ UNCHANGED << zkVars, acked, failures, writerVars >>
      /\ writers' = [ writers EXCEPT ![w] = new ]
  BY DEF ListReady
<1>2. /\ writers[w] \in WriterStates /\ v \in 1 .. seq /\ \E u \in ready : v <= u
      /\ writers[w].root = 0 /\ ready \subseteq 1 .. seq /\ seq \in 0 .. MaxVersion
  BY <1>1, WriterFacts DEF WriterSound
<1>3. old \subseteq Versions /\ \A u \in old : u < v
  BY <1>2 DEF LInv, TypeOK, Older
<1>4. /\ new \in WriterStates /\ new.at = "gcReady" /\ new.version = v /\ new.todo = old
      /\ new.root = 0
  BY <1>2, <1>3 DEF WriterStates
<1>5. writers'[w] = new
  BY <1>1, WriterFacts
<1>6. WriterSound(w)'
  <2>. HIDE DEF new, old
  <2>1. UNCHANGED << seq, ready >>
    BY <1>1 DEF zkVars
  <2>. QED BY <1>2, <1>3, <1>4, <1>5, <2>1 DEF WriterSound
<1>. QED BY <1>1, <1>4, <1>6, ThinkKeeps DEF LInv, TypeOK

\* What a writer that collects knows.
LEMMA CollectorFacts ==
    ASSUME LInv, NEW w \in Writers, writers[w].at \in { "gcReady", "gcRoots" }
    PROVE  /\ writers[w].version \in 1 .. seq /\ Newest \in ready /\ writers[w].version <= Newest
           /\ \A v \in writers[w].todo : v \in Versions /\ v < Newest
           /\ writers[w].root # 0 => writers[w].root \in writers[w].todo
<1>1. /\ writers[w] \in WriterStates /\ WriterSound(w) /\ seq \in Nat /\ ready \subseteq 1 .. seq
  BY WriterFacts
<1>2. /\ writers[w].version \in 1 .. seq
      /\ \A v \in writers[w].todo : v < writers[w].version
      /\ writers[w].root # 0 => writers[w].root \in writers[w].todo
      /\ \E u \in ready : writers[w].version <= u
  BY <1>1 DEF WriterSound
<1>3. PICK u \in ready : writers[w].version <= u
  BY <1>2
<1>4. Newest \in ready /\ u <= Newest
  BY NewestFacts
<1>5. writers[w].todo \subseteq Versions
  BY <1>1 DEF WriterStates
<1>6. MaxVersion \in Nat /\ writers[w].version \in Nat /\ u \in Nat /\ Newest \in Nat
  BY <1>1, <1>2, <1>4, LargeObjectAssumption
<1>7. writers[w].version <= Newest
  BY <1>3, <1>4, <1>6
<1>8. \A v \in writers[w].todo : v \in Nat /\ v < Newest
  BY <1>2, <1>5, <1>6, <1>7 DEF Versions
<1>. QED BY <1>2, <1>4, <1>5, <1>7, <1>8

\* A collecting writer forgets some of what it has to collect, or goes on to a root.
LEMMA CollectKeeps ==
    ASSUME LInv, NEW w \in Writers, NEW new \in WriterStates,
           writers' = [ writers EXCEPT ![w] = new ],
           writers[w].at \in { "gcReady", "gcRoots" }, new.at \in { "gcReady", "gcRoots" },
           new.version = writers[w].version, \A v \in new.todo : v < new.version,
           new.root # 0 => new.root \in new.todo /\ new.at = "gcRoots",
           TypeOK', BegunOnly', UNCHANGED << readers, returned, seq, size >>,
           ready' \subseteq ready, \A v \in ready : v = Newest => v \in ready',
           \A v \in 1 .. seq : v >= Newest => /\ v \in roots => v \in roots'
                                              /\ parts'[v] = parts[v]
    PROVE  LInv' /\ Newest' = Newest
<1>1. /\ seq \in Nat /\ ready \subseteq 1 .. seq
      /\ writers[w].version \in 1 .. seq /\ Newest \in ready /\ writers[w].version <= Newest
  BY WriterFacts, CollectorFacts
<1>2. \A v \in ready : v <= Newest /\ Newest \in ready'
  BY <1>1, NewestFacts
<1>3. Newest' = Newest
  BY <1>2, NewestKept
<1>4. Newest \in 1 .. seq /\ Newest >= Newest /\ Newest \in roots
  BY <1>1, NewestFacts
<1>5. NewestExists' /\ LatestComplete'
  BY <1>2, <1>4, CompleteKept
<1>6. WriterSound(w)'
  <2>1. writers'[w] = new
    BY WriterFacts
  <2>. QED BY <1>1, <1>2, <2>1 DEF WriterSound
<1>7. \A v \in 1 .. seq : (\A u \in ready : u < v) => v >= Newest
  BY <1>1
<1>8. seq <= seq' /\ new.at # "idle" /\ writers[w].at # "idle"
  BY <1>1
<1>9. LInv'
  BY <1>2, <1>5, <1>6, <1>7, <1>8, WriteKeeps
<1>. QED BY <1>3, <1>9

\* A ready version is removed.
LEMMA DeleteReadyKeeps ==
    ASSUME LInv, NEW w \in Writers, DeleteReady(w) PROVE LInv' /\ Newest' = Newest
<1>1. PICK v \in writers[w].todo :
         /\ ready' = ready \ { v }
         /\ writers' = [ writers EXCEPT ![w] = [ writers[w] EXCEPT !.todo = writers[w].todo \ { v } ] ]
  BY DEF DeleteReady
<1>. DEFINE new == [ writers[w] EXCEPT !.todo = writers[w].todo \ { v } ]
<1>2. /\ writers[w].at = "gcReady"
      /\ UNCHANGED << seq, size, roots, parts, acked, failures, readers, returned >>
  BY DEF DeleteReady, writerVars
<1>3. /\ writers[w] \in WriterStates /\ writers[w].root = 0
      /\ \A u \in writers[w].todo : u < writers[w].version
  BY <1>2, WriterFacts DEF WriterSound
<1>4. /\ new \in WriterStates /\ new.at = "gcReady" /\ new.version = writers[w].version
      /\ new.todo \subseteq writers[w].todo /\ new.root = 0
  BY <1>2, <1>3 DEF WriterStates
<1>5. v < Newest /\ Newest \in ready /\ Newest \in Nat
  BY <1>2, CollectorFacts, WriterFacts
<1>6. TypeOK'
  <2>1. writers' \in [ Writers -> WriterStates ]
    BY <1>1, <1>4, WriterFacts
  <2>. QED BY <1>1, <1>2, <2>1 DEF LInv, TypeOK
<1>7. BegunOnly'
  BY <1>1, <1>2 DEF LInv, BegunOnly
<1>8. v # Newest
  BY <1>5, WriterFacts
<1>. HIDE DEF new
<1>9. writers' = [ writers EXCEPT ![w] = new ]
  BY <1>1 DEF new
<1>. QED BY <1>1, <1>2, <1>3, <1>4, <1>6, <1>7, <1>8, <1>9, CollectKeeps

\* The older payloads are listed.
LEMMA ListRootsKeeps ==
    ASSUME LInv, NEW w \in Writers, ListRoots(w) PROVE LInv' /\ Newest' = Newest
<1>. DEFINE v == writers[w].version
            old == Older(roots, v)
            new == [ writers[w] EXCEPT !.at = "gcRoots", !.todo = old ]
<1>1. /\ writers[w].at = "gcReady" /\ UNCHANGED << zkVars, acked, failures, writerVars >>
      /\ writers' = [ writers EXCEPT ![w] = new ]
  BY DEF ListRoots
<1>2. /\ writers[w] \in WriterStates /\ writers[w].root = 0
  BY <1>1, WriterFacts DEF WriterSound
<1>3. old \subseteq Versions /\ \A u \in old : u < v
  BY DEF LInv, TypeOK, Older
<1>4. /\ new \in WriterStates /\ new.at = "gcRoots" /\ new.version = v /\ new.todo = old
      /\ new.root = 0
  BY <1>2, <1>3 DEF WriterStates
<1>5. UNCHANGED << seq, size, roots, parts, ready, readers, returned, acked, failures >>
  BY <1>1 DEF zkVars, writerVars
<1>6. TypeOK' /\ BegunOnly'
  <2>1. writers' \in [ Writers -> WriterStates ]
    BY <1>1, <1>4, WriterFacts
  <2>. QED BY <1>5, <2>1 DEF LInv, TypeOK, BegunOnly
<1>. HIDE DEF new
<1>. QED BY <1>1, <1>3, <1>4, <1>5, <1>6, CollectKeeps

\* The parts of a payload that is collected are listed, or it is gone already.
LEMMA ListPartsKeeps ==
    ASSUME LInv, NEW w \in Writers, ListParts(w) PROVE LInv' /\ Newest' = Newest
<1>1. /\ writers[w].at = "gcRoots" /\ writers[w].root = 0
      /\ UNCHANGED << zkVars, acked, failures, writerVars >>
  BY DEF ListParts
<1>2. PICK v \in writers[w].todo :
         writers' = [ writers EXCEPT ![w] =
              IF v \in roots THEN [ @ EXCEPT !.root = v, !.doomed = parts[v] ]
              ELSE [ @ EXCEPT !.todo = writers[w].todo \ { v } ] ]
  BY DEF ListParts
<1>. DEFINE new == IF v \in roots THEN [ writers[w] EXCEPT !.root = v, !.doomed = parts[v] ]
                   ELSE [ writers[w] EXCEPT !.todo = writers[w].todo \ { v } ]
<1>3. /\ writers[w] \in WriterStates
      /\ \A u \in writers[w].todo : u < writers[w].version /\ u \in Versions
  BY <1>1, WriterFacts DEF WriterSound, WriterStates
<1>4. v \in 0 .. MaxVersion /\ parts[v] \subseteq Indices
  BY <1>3 DEF LInv, TypeOK, Versions
<1>5. /\ new \in WriterStates /\ new.at = "gcRoots" /\ new.version = writers[w].version
      /\ new.todo \subseteq writers[w].todo
      /\ new.root # 0 => new.root \in new.todo
  <2>1. CASE v \in roots
    <3>1. new = [ writers[w] EXCEPT !.root = v, !.doomed = parts[v] ]
      BY <2>1
    <3>. HIDE DEF new
    <3>. QED BY <1>1, <1>3, <1>4, <3>1 DEF WriterStates
  <2>2. CASE v \notin roots
    <3>1. new = [ writers[w] EXCEPT !.todo = writers[w].todo \ { v } ]
      BY <2>2
    <3>. HIDE DEF new
    <3>. QED BY <1>1, <1>3, <3>1 DEF WriterStates
  <2>. QED BY <2>1, <2>2
<1>6. UNCHANGED << seq, size, roots, parts, ready, readers, returned, acked, failures >>
  BY <1>1 DEF zkVars, writerVars
<1>7. writers' = [ writers EXCEPT ![w] = new ]
  <2>1. CASE v \in roots
    <3>1. new = [ writers[w] EXCEPT !.root = v, !.doomed = parts[v] ]
      BY <2>1
    <3>2. writers' = [ writers EXCEPT ![w] = [ writers[w] EXCEPT !.root = v, !.doomed = parts[v] ] ]
      BY <1>2, <2>1
    <3>. QED BY <3>1, <3>2
  <2>2. CASE v \notin roots
    <3>1. new = [ writers[w] EXCEPT !.todo = writers[w].todo \ { v } ]
      BY <2>2
    <3>2. writers' = [ writers EXCEPT ![w] = [ writers[w] EXCEPT !.todo = writers[w].todo \ { v } ] ]
      BY <1>2, <2>2
    <3>. QED BY <3>1, <3>2
  <2>. QED BY <2>1, <2>2
<1>. HIDE DEF new
<1>8. TypeOK' /\ BegunOnly'
  <2>1. writers' \in [ Writers -> WriterStates ]
    BY <1>5, <1>7, WriterFacts
  <2>. QED BY <1>6, <2>1 DEF LInv, TypeOK, BegunOnly
<1>. QED BY <1>1, <1>3, <1>5, <1>6, <1>7, <1>8, CollectKeeps

\* A part is deleted.
LEMMA DeletePartKeeps ==
    ASSUME LInv, NEW w \in Writers, DeletePart(w) PROVE LInv' /\ Newest' = Newest
<1>. DEFINE v == writers[w].root
<1>1. v # 0 /\ UNCHANGED << seq, size, roots, ready, acked, failures, readers, returned >>
  BY DEF DeletePart, writerVars
<1>2. PICK p \in writers[w].doomed :
         /\ parts' = [ parts EXCEPT ![v] = parts[v] \ { p } ]
         /\ writers' = [ writers EXCEPT ![w] = [ writers[w] EXCEPT !.doomed = writers[w].doomed \ { p } ] ]
  BY DEF DeletePart
<1>. DEFINE new == [ writers[w] EXCEPT !.doomed = writers[w].doomed \ { p } ]
<1>3. /\ writers[w] \in WriterStates /\ v \in writers[w].todo /\ writers[w].at = "gcRoots"
      /\ \A u \in writers[w].todo : u < writers[w].version
  BY <1>1, WriterFacts DEF WriterSound
<1>4. v \in Versions /\ v < Newest /\ Newest \in Nat
  BY <1>1, <1>3, CollectorFacts, WriterFacts
<1>5. /\ new \in WriterStates /\ new.at = "gcRoots" /\ new.version = writers[w].version
      /\ new.todo = writers[w].todo /\ new.root = v
  BY <1>3 DEF WriterStates
<1>6. /\ parts' \in [ Versions -> SUBSET Indices ]
      /\ \A u \in Versions : u # v => parts'[u] = parts[u]
      /\ parts'[v] \subseteq parts[v]
  BY <1>2, <1>4 DEF LInv, TypeOK
<1>7. TypeOK'
  <2>1. writers' \in [ Writers -> WriterStates ]
    BY <1>2, <1>5, WriterFacts
  <2>. QED BY <1>1, <1>6, <2>1 DEF LInv, TypeOK
<1>8. BegunOnly'
  BY <1>1, <1>6 DEF LInv, BegunOnly
<1>9. \A u \in 1 .. seq : u >= Newest => u \in Versions /\ u # v
  BY <1>4, WriterFacts DEF Versions
<1>10. writers' = [ writers EXCEPT ![w] = new ]
  BY <1>2
<1>. HIDE DEF new
<1>. QED BY <1>1, <1>3, <1>5, <1>6, <1>7, <1>8, <1>9, <1>10, CollectKeeps

\* A payload root is deleted, unless it has got new children.
LEMMA DeleteRootKeeps ==
    ASSUME LInv, NEW w \in Writers, DeleteRoot(w) PROVE LInv' /\ Newest' = Newest
<1>. DEFINE v == writers[w].root
            left == IF parts[v] = {} THEN writers[w].todo \ { v } ELSE writers[w].todo
            new == [ writers[w] EXCEPT !.root = 0, !.todo = left ]
<1>1. /\ v # 0 /\ roots' = IF parts[v] = {} THEN roots \ { v } ELSE roots
      /\ writers' = [ writers EXCEPT ![w] = new ]
      /\ UNCHANGED << seq, size, parts, ready, acked, failures, readers, returned >>
  BY DEF DeleteRoot, writerVars
<1>2. /\ writers[w] \in WriterStates /\ v \in writers[w].todo /\ writers[w].at = "gcRoots"
      /\ \A u \in writers[w].todo : u < writers[w].version
      /\ MaxVersion \in Nat
  BY <1>1, WriterFacts DEF WriterSound
<1>3. v \in Versions /\ v < Newest /\ Newest \in Nat
  BY <1>1, <1>2, CollectorFacts, WriterFacts
<1>4. left \subseteq writers[w].todo
  OBVIOUS
<1>. HIDE DEF left
<1>5. /\ new \in WriterStates /\ new.at = "gcRoots" /\ new.version = writers[w].version
      /\ new.todo \subseteq writers[w].todo /\ new.root = 0
  <2>1. 0 \in 0 .. MaxVersion
    BY <1>2
  <2>. QED BY <1>2, <1>4, <2>1 DEF WriterStates
<1>6. roots' \subseteq roots /\ \A u \in roots : u # v => u \in roots'
  BY <1>1
<1>7. TypeOK' /\ BegunOnly'
  <2>1. writers' \in [ Writers -> WriterStates ]
    BY <1>1, <1>5, WriterFacts
  <2>. QED BY <1>1, <1>6, <2>1 DEF LInv, TypeOK, BegunOnly
<1>8. \A u \in 1 .. seq : u >= Newest => u # v
  BY <1>3, WriterFacts DEF Versions
<1>. HIDE DEF new
<1>. QED BY <1>1, <1>2, <1>5, <1>6, <1>7, <1>8, CollectKeeps

\* A collection that fails is given up.
LEMMA CollectionFailsKeeps ==
    ASSUME LInv, NEW w \in Writers, CollectionFails(w) PROVE LInv' /\ Newest' = Newest
<1>1. PICK v \in writers[w].todo :
         writers' = [ writers EXCEPT ![w] = [ writers[w] EXCEPT !.todo = writers[w].todo \ { v },
                                                                !.root = 0, !.doomed = {} ] ]
  BY DEF CollectionFails
<1>. DEFINE new == [ writers[w] EXCEPT !.todo = writers[w].todo \ { v },
                                       !.root = 0, !.doomed = {} ]
<1>2. /\ failures < MaxFailures /\ failures' = failures + 1
      /\ UNCHANGED << seq, size, roots, parts, ready, acked, readers, returned >>
  BY DEF CollectionFails, zkVars, writerVars
<1>3. /\ writers[w] \in WriterStates /\ writers[w].at \in { "gcReady", "gcRoots" }
      /\ \A u \in writers[w].todo : u < writers[w].version
      /\ MaxVersion \in Nat
  BY <1>1, WriterFacts DEF WriterSound
<1>4. /\ new \in WriterStates /\ new.at = writers[w].at /\ new.version = writers[w].version
      /\ new.todo \subseteq writers[w].todo /\ new.root = 0
  <2>1. 0 \in 0 .. MaxVersion
    BY <1>3
  <2>. QED BY <1>3, <2>1 DEF WriterStates
<1>5. TypeOK' /\ BegunOnly'
  <2>1. writers' \in [ Writers -> WriterStates ]
    BY <1>1, <1>4, WriterFacts
  <2>2. failures' \in 0 .. MaxFailures
    BY <1>2, LargeObjectAssumption DEF LInv, TypeOK
  <2>. QED BY <1>2, <2>1, <2>2 DEF LInv, TypeOK, BegunOnly
<1>6. writers' = [ writers EXCEPT ![w] = new ]
  BY <1>1
<1>. HIDE DEF new
<1>. QED BY <1>2, <1>3, <1>4, <1>5, <1>6, CollectKeeps

\* The steps that end a call.
LEMMA EndKeeps ==
    ASSUME LInv, NEW w \in Writers, GiveUp(w) \/ EndWrite(w) \/ WriterFails(w)
    PROVE  LInv' /\ ready' = ready
<1>1. /\ writers' = [ writers EXCEPT ![w] = NoWriter ]
      /\ UNCHANGED zkVars /\ UNCHANGED writerVars
      /\ acked' = acked \/ acked' = acked \cup { writers[w].version }
      /\ failures' = failures \/ (failures < MaxFailures /\ failures' = failures + 1)
      /\ acked' # acked => writers[w].at # "idle"
  BY DEF GiveUp, EndWrite, WriterFails
<1>2. writers[w].at # "idle" => writers[w].version \in Versions
  BY WriterFacts DEF WriterSound, Versions
<1>3. acked' \subseteq Versions
  BY <1>1, <1>2 DEF LInv, TypeOK
<1>4. failures' \in 0 .. MaxFailures
  BY <1>1, LargeObjectAssumption DEF LInv, TypeOK
<1>. QED BY <1>1, <1>3, <1>4, StopKeeps DEF zkVars

-----------------------------------------------------------------------------
(* The steps of a reader *)

\* What a step may assume of its reader.
LEMMA ReaderFacts ==
    ASSUME LInv, NEW r \in Readers
    PROVE  /\ readers[r] \in ReaderStates /\ ReaderSound(r)
           /\ readers \in [ Readers -> ReaderStates ]
           /\ returned \in [ Readers -> (0 .. MaxVersion) \cup { None, Corrupt, Torn } ]
           /\ MaxVersion \in Nat /\ MaxParts \in Nat \ { 0 } /\ Newest \in 0 .. MaxVersion
           /\ readers[r].version \in ready /\ (\A u \in ready : u <= readers[r].version)
                 <=> ready # {} /\ readers[r].version = Newest
<1>1. readers[r] \in ReaderStates /\ MaxVersion \in Nat /\ ready \subseteq Versions
  BY LargeObjectAssumption DEF LInv, TypeOK
<1>2. readers[r].version \in ready /\ (\A u \in ready : u <= readers[r].version)
          => ready # {} /\ readers[r].version = Newest
  <2>1. ready \subseteq Nat
    BY <1>1 DEF Versions
  <2>. QED BY <2>1, Greatest, NewestIsIn
<1>. QED BY <1>1, <1>2, NewestFacts, LargeObjectAssumption DEF LInv, TypeOK, ReadersSound

\* A reader starts again or is done.
LEMMA NoReaderTyped == NoReader \in ReaderStates /\ [ NoReader EXCEPT !.at = "latest" ] \in ReaderStates
<1>1. 0 \in 0 .. MaxVersion /\ 0 \in 0 .. MaxParts
  BY LargeObjectAssumption
<1>2. NoReader \in ReaderStates
  BY <1>1 DEF NoReader, ReaderStates
<1>3. PICK b \in ReaderStates : b = NoReader
  BY <1>2
<1>4. [ b EXCEPT !.at = "latest" ] \in ReaderStates
  BY DEF ReaderStates
<1>. QED BY <1>3, <1>4

\* A step in which a reader learns something, or that ends its call.
LEMMA LearnKeeps ==
    ASSUME LInv, NEW r \in Readers, NEW new \in ReaderStates,
           NEW result \in (0 .. MaxVersion) \cup { None, Corrupt, Torn },
           readers' = [ readers EXCEPT ![r] = new ],
           returned' = [ returned EXCEPT ![r] = result ],
           UNCHANGED readerVars, failures' \in 0 .. MaxFailures,
           new.at # "idle" => result = None,
           new.at = "latest" => new.part = 0 /\ ~new.corrupt,
           new.at \in { "list", "read", "check" } =>
             /\ new.version <= Newest /\ ready # {}
             /\ new.version = Newest =>
                  /\ ~new.corrupt
                  /\ new.at = "list" => new.part = 0
                  /\ new.at = "read" => new.listed = parts[Newest] /\ new.part <= size[Newest]
                  /\ new.at = "check" => new.part = size[Newest]
    PROVE  LInv' /\ Newest' = Newest
<1>1. UNCHANGED << zkVars, writers, acked >> /\ UNCHANGED << seq, size, roots, parts, ready >>
  BY DEF readerVars, zkVars
<1>2. readers'[r] = new /\ returned'[r] = result
  BY ReaderFacts
<1>3. TypeOK'
  <2>1. readers' \in [ Readers -> ReaderStates ]
    BY ReaderFacts
  <2>2. returned' \in [ Readers -> (0 .. MaxVersion) \cup { None, Corrupt, Torn } ]
    BY ReaderFacts
  <2>. QED BY <1>1, <2>1, <2>2 DEF LInv, TypeOK
<1>4. new.version \in Nat /\ ready \subseteq Nat
  BY DEF ReaderStates, LInv, TypeOK, Versions
<1>5. new.version \in ready /\ (\A u \in ready : u <= new.version) => new.version = Newest
  BY <1>4, Greatest, NewestIsIn
<1>6. ready # {} => parts[Newest] = PayloadOf(Newest) /\ Newest \in ready
  BY NewestFacts
<1>7. ReaderSound(r)'
  BY <1>1, <1>2, <1>5, <1>6 DEF ReaderSound, PayloadOf
<1>8. Newest' = Newest
  BY <1>1, NewestIsIn
<1>. QED BY <1>1, <1>3, <1>7, <1>8, ReadKeeps

\* A call begins.
LEMMA BeginReadKeeps == ASSUME LInv, NEW r \in Readers, BeginRead(r) PROVE LInv' /\ Newest' = Newest
<1>. DEFINE new == [ NoReader EXCEPT !.at = "latest" ]
<1>1. /\ readers' = [ readers EXCEPT ![r] = new ] /\ returned' = [ returned EXCEPT ![r] = None ]
      /\ UNCHANGED readerVars /\ failures' \in 0 .. MaxFailures
  BY DEF BeginRead, LInv, TypeOK
<1>2. new \in ReaderStates /\ new.at = "latest" /\ new.part = 0 /\ ~new.corrupt
  BY NoReaderTyped DEF NoReader
<1>. HIDE DEF new
<1>. QED BY <1>1, <1>2, LearnKeeps

\* What was returned stays when a step does not change it.
LEMMA SameResult ==
    ASSUME LInv, NEW r \in Readers, UNCHANGED returned
    PROVE  returned' = [ returned EXCEPT ![r] = returned[r] ]
BY ReaderFacts

\* A call goes on.
LEMMA GoOnKeeps ==
    ASSUME LInv, NEW r \in Readers, NEW new \in ReaderStates,
           readers[r].at # "idle", readers' = [ readers EXCEPT ![r] = new ],
           UNCHANGED readerVars, UNCHANGED returned, failures' \in 0 .. MaxFailures,
           new.at = "latest" => new.part = 0 /\ ~new.corrupt,
           new.at \in { "list", "read", "check" } =>
             /\ new.version <= Newest /\ ready # {}
             /\ new.version = Newest =>
                  /\ ~new.corrupt
                  /\ new.at = "list" => new.part = 0
                  /\ new.at = "read" => new.listed = parts[Newest] /\ new.part <= size[Newest]
                  /\ new.at = "check" => new.part = size[Newest]
    PROVE  LInv' /\ Newest' = Newest
<1>1. returned[r] = None
  BY ReaderFacts DEF ReaderSound
<1>2. returned' = [ returned EXCEPT ![r] = None ]
  BY <1>1, SameResult
<1>. QED BY <1>1, <1>2, LearnKeeps

\* The newest version is found.
LEMMA GetLatestKeeps == ASSUME LInv, NEW r \in Readers, GetLatest(r) PROVE LInv' /\ Newest' = Newest
<1>. DEFINE new == [ readers[r] EXCEPT !.at = "list", !.version = Newest ]
<1>1. /\ readers[r].at = "latest" /\ ready # {} /\ readers' = [ readers EXCEPT ![r] = new ]
      /\ UNCHANGED readerVars /\ UNCHANGED returned /\ failures' \in 0 .. MaxFailures
  BY DEF GetLatest, LInv, TypeOK
<1>2. /\ new \in ReaderStates /\ new.at = "list" /\ new.version = Newest
      /\ new.part = 0 /\ ~new.corrupt
  <2>1. readers[r].part = 0 /\ ~readers[r].corrupt
    BY <1>1, ReaderFacts DEF ReaderSound
  <2>. QED BY <2>1, ReaderFacts DEF ReaderStates
<1>3. Newest <= Newest
  BY ReaderFacts
<1>. HIDE DEF new
<1>. QED BY <1>1, <1>2, <1>3, GoOnKeeps

\* A read that has a version to read.
LEMMA InReadFacts ==
    ASSUME LInv, NEW r \in Readers, readers[r].at \in { "list", "read", "check" }
    PROVE  /\ readers[r].version <= Newest /\ ready # {} /\ readers[r].version \in Nat
           /\ readers[r].version = Newest =>
                /\ ~readers[r].corrupt
                /\ readers[r].at = "list" => readers[r].part = 0
                /\ readers[r].at = "read" => readers[r].listed = parts[Newest]
                                             /\ readers[r].part <= size[Newest]
                /\ readers[r].at = "check" => readers[r].part = size[Newest]
<1>1. /\ readers[r] \in ReaderStates /\ ReaderSound(r) /\ Newest \in Nat
      /\ ready \subseteq Nat
  BY ReaderFacts DEF LInv, TypeOK, Versions
<1>2. PICK u \in ready : readers[r].version <= u
  BY <1>1 DEF ReaderSound
<1>3. u <= Newest /\ readers[r].version \in Nat /\ u \in Nat
  BY <1>1, <1>2, NewestFacts DEF ReaderStates
<1>4. readers[r].version <= Newest
  BY <1>1, <1>2, <1>3
<1>5. readers[r].version = Newest =>
          readers[r].version \in ready /\ (\A x \in ready : x <= readers[r].version)
  BY <1>2, NewestFacts
<1>6. parts[Newest] = PayloadOf(Newest)
  BY <1>2, NewestFacts
<1>. QED BY <1>1, <1>2, <1>3, <1>4, <1>5, <1>6 DEF ReaderSound

\* Its payload is listed.
LEMMA ListPayloadKeeps ==
    ASSUME LInv, NEW r \in Readers, ListPayload(r) PROVE LInv' /\ Newest' = Newest
<1>. DEFINE v == readers[r].version
<1>1. /\ readers[r].at = "list"
      /\ UNCHANGED readerVars /\ UNCHANGED returned /\ failures' \in 0 .. MaxFailures
  BY DEF ListPayload, LInv, TypeOK
<1>2. /\ v <= Newest /\ ready # {}
      /\ v = Newest => ~readers[r].corrupt /\ readers[r].part = 0
  BY <1>1, InReadFacts
<1>3. ready # {} => Newest \in roots /\ Newest \in Versions
  BY NewestFacts DEF LInv, TypeOK
<1>4. CASE v \in roots
  <2>. DEFINE new == [ readers[r] EXCEPT !.at = "read", !.listed = parts[v] ]
  <2>1. readers' = [ readers EXCEPT ![r] = new ]
    BY <1>4 DEF ListPayload
  <2>2. parts[v] \subseteq Indices
    BY <1>4 DEF LInv, TypeOK
  <2>3. /\ new \in ReaderStates /\ new.at = "read" /\ new.version = v /\ new.listed = parts[v]
        /\ new.part = readers[r].part /\ new.corrupt = readers[r].corrupt
    BY <2>2, ReaderFacts DEF ReaderStates
  <2>4. ready # {} => 0 <= size[Newest]
    BY <1>3, ReaderFacts DEF LInv, TypeOK
  <2>. HIDE DEF new
  <2>. QED BY <1>1, <1>2, <2>1, <2>3, <2>4, GoOnKeeps
<1>5. CASE v \notin roots
  <2>. DEFINE new == [ readers[r] EXCEPT !.at = "check", !.corrupt = TRUE ]
  <2>1. readers' = [ readers EXCEPT ![r] = new ]
    BY <1>5 DEF ListPayload
  <2>2. new \in ReaderStates /\ new.at = "check" /\ new.version = v
    BY ReaderFacts DEF ReaderStates
  <2>3. v # Newest /\ ready # {}
    BY <1>1, <1>3, <1>5, InReadFacts
  <2>. HIDE DEF new
  <2>. QED BY <1>1, <1>2, <2>1, <2>2, <2>3, GoOnKeeps
<1>. QED BY <1>4, <1>5

\* So many parts have been listed.
LEMMA ListedParts ==
    ASSUME LInv, NEW r \in Readers
    PROVE  /\ Cardinality(readers[r].listed) \in 0 .. MaxParts
           /\ \A n \in Nat : readers[r].listed = 0 .. n - 1 => Cardinality(readers[r].listed) = n
<1>1. readers[r].listed \subseteq 0 .. MaxParts - 1 /\ MaxParts \in Nat \ { 0 }
  BY ReaderFacts DEF ReaderStates, Indices
<1>2. /\ IsFiniteSet(0 .. MaxParts - 1) /\ Cardinality(0 .. MaxParts - 1) = MaxParts
  BY <1>1, FS_Interval
<1>3. /\ IsFiniteSet(readers[r].listed)
      /\ Cardinality(readers[r].listed) <= Cardinality(0 .. MaxParts - 1)
  BY <1>1, <1>2, FS_Subset
<1>4. Cardinality(readers[r].listed) \in Nat
  BY <1>3, FS_CardinalityType
<1>5. ASSUME NEW n \in Nat, readers[r].listed = 0 .. n - 1
      PROVE  Cardinality(readers[r].listed) = n
  <2>1. Cardinality(0 .. n - 1) = IF 0 > n - 1 THEN 0 ELSE (n - 1) - 0 + 1
    BY FS_Interval
  <2>. QED BY <1>5, <2>1
<1>. QED BY <1>1, <1>2, <1>3, <1>4, <1>5

\* A part is read.
LEMMA GetPartKeeps == ASSUME LInv, NEW r \in Readers, GetPart(r) PROVE LInv' /\ Newest' = Newest
<1>. DEFINE v == readers[r].version
            p == readers[r].part
<1>1. /\ readers[r].at = "read" /\ p < Cardinality(readers[r].listed)
      /\ UNCHANGED readerVars /\ UNCHANGED returned /\ failures' \in 0 .. MaxFailures
  BY DEF GetPart, Remaining, LInv, TypeOK
<1>2. /\ v <= Newest /\ ready # {}
      /\ v = Newest => /\ ~readers[r].corrupt /\ readers[r].listed = parts[Newest]
                       /\ p <= size[Newest]
  BY <1>1, InReadFacts
<1>3. parts[Newest] = PayloadOf(Newest) /\ Newest \in Versions /\ size[Newest] \in Nat
  BY <1>2, NewestFacts, LargeObjectAssumption DEF LInv, TypeOK
<1>4. p \in Nat /\ p + 1 \in 0 .. MaxParts
  BY <1>1, ReaderFacts, ListedParts DEF ReaderStates
<1>5. v = Newest => Cardinality(readers[r].listed) = size[Newest]
  BY <1>2, <1>3, ListedParts DEF PayloadOf
<1>6. CASE p \in readers[r].listed \cap parts[v]
  <2>. DEFINE new == [ readers[r] EXCEPT !.part = p + 1 ]
  <2>1. readers' = [ readers EXCEPT ![r] = new ]
    BY <1>6 DEF GetPart
  <2>2. /\ new \in ReaderStates /\ new.at = "read" /\ new.version = v /\ new.part = p + 1
        /\ new.listed = readers[r].listed /\ new.corrupt = readers[r].corrupt
    BY <1>1, <1>4, ReaderFacts DEF ReaderStates
  <2>3. v = Newest => p + 1 <= size[Newest]
    BY <1>1, <1>3, <1>4, <1>5
  <2>. HIDE DEF new
  <2>. QED BY <1>1, <1>2, <2>1, <2>2, <2>3, GoOnKeeps
<1>7. CASE p \notin readers[r].listed \cap parts[v]
  <2>. DEFINE new == [ readers[r] EXCEPT !.at = "check", !.corrupt = TRUE ]
  <2>1. readers' = [ readers EXCEPT ![r] = new ]
    BY <1>7 DEF GetPart
  <2>2. new \in ReaderStates /\ new.at = "check" /\ new.version = v
    BY ReaderFacts DEF ReaderStates
  <2>3. v # Newest
    <3>1. SUFFICES ASSUME v = Newest PROVE p \in readers[r].listed \cap parts[v]
      BY <1>7
    <3>2. readers[r].listed = 0 .. size[Newest] - 1 /\ parts[v] = 0 .. size[Newest] - 1
      BY <1>2, <1>3, <3>1 DEF PayloadOf
    <3>3. p < size[Newest]
      BY <1>1, <1>5, <3>1
    <3>. QED BY <1>3, <1>4, <3>2, <3>3
  <2>. HIDE DEF new
  <2>. QED BY <1>1, <1>2, <2>1, <2>2, <2>3, GoOnKeeps
<1>. QED BY <1>6, <1>7

\* Every part that was listed has been read.
LEMMA GotPartsKeeps == ASSUME LInv, NEW r \in Readers, GotParts(r) PROVE LInv' /\ Newest' = Newest
<1>. DEFINE new == [ readers[r] EXCEPT !.at = "check" ]
<1>1. /\ readers[r].at = "read" /\ ~(readers[r].part < Cardinality(readers[r].listed))
      /\ readers' = [ readers EXCEPT ![r] = new ]
      /\ UNCHANGED readerVars /\ UNCHANGED returned /\ failures' \in 0 .. MaxFailures
  BY DEF GotParts, Remaining, LInv, TypeOK
<1>2. /\ readers[r].version <= Newest /\ ready # {}
      /\ readers[r].version = Newest =>
            /\ ~readers[r].corrupt /\ readers[r].listed = parts[Newest]
            /\ readers[r].part <= size[Newest]
  BY <1>1, InReadFacts
<1>3. parts[Newest] = PayloadOf(Newest) /\ Newest \in Versions /\ size[Newest] \in Nat
  BY <1>2, NewestFacts, LargeObjectAssumption DEF LInv, TypeOK
<1>4. readers[r].version = Newest => Cardinality(readers[r].listed) = size[Newest]
  BY <1>2, <1>3, ListedParts DEF PayloadOf
<1>5. /\ new \in ReaderStates /\ new.at = "check" /\ new.version = readers[r].version
      /\ new.part = readers[r].part /\ new.corrupt = readers[r].corrupt /\ new.part \in Nat
  BY ReaderFacts DEF ReaderStates
<1>6. readers[r].version = Newest => readers[r].part = size[Newest]
  BY <1>1, <1>2, <1>3, <1>4, <1>5
<1>. HIDE DEF new
<1>. QED BY <1>1, <1>2, <1>5, <1>6, GoOnKeeps

\* A read that ends returns what is newest.
LEMMA ReturnsNewest ==
    ASSUME LInv, NEW r \in Readers, readers[r].at = "check", readers[r].version = Newest
    PROVE  ResultOf(r) = Newest
<1>1. ~readers[r].corrupt /\ readers[r].part = size[Newest]
  BY InReadFacts
<1>. QED BY <1>1 DEF ResultOf

\* The newest version is looked at again.
LEMMA CheckKeeps == ASSUME LInv, NEW r \in Readers, Check(r) PROVE LInv' /\ Newest' = Newest
<1>1. /\ readers[r].at = "check"
      /\ UNCHANGED readerVars /\ failures' \in 0 .. MaxFailures
  BY DEF Check, LInv, TypeOK
<1>2. CASE readers[r].version = Newest
  <2>1. /\ readers' = [ readers EXCEPT ![r] = NoReader ]
        /\ returned' = [ returned EXCEPT ![r] = Newest ]
    BY <1>1, <1>2, ReturnsNewest DEF Check, Return
  <2>2. NoReader \in ReaderStates /\ NoReader.at = "idle"
    BY NoReaderTyped DEF NoReader
  <2>. QED BY <1>1, <2>1, <2>2, ReaderFacts, LearnKeeps
<1>3. CASE readers[r].version # Newest
  <2>. DEFINE new == [ NoReader EXCEPT !.at = "latest" ]
  <2>1. readers' = [ readers EXCEPT ![r] = new ] /\ UNCHANGED returned
    BY <1>3 DEF Check
  <2>2. new \in ReaderStates /\ new.at = "latest" /\ new.part = 0 /\ ~new.corrupt
    BY NoReaderTyped DEF NoReader
  <2>. HIDE DEF new
  <2>. QED BY <1>1, <2>1, <2>2, GoOnKeeps
<1>. QED BY <1>2, <1>3

\* There is nothing to read.
LEMMA NoneReadyKeeps == ASSUME LInv, NEW r \in Readers, NoneReady(r) PROVE LInv' /\ Newest' = Newest
<1>1. /\ readers' = [ readers EXCEPT ![r] = NoReader ] /\ returned' = [ returned EXCEPT ![r] = 0 ]
      /\ UNCHANGED readerVars /\ failures' \in 0 .. MaxFailures
  BY DEF NoneReady, Return, LInv, TypeOK
<1>2. NoReader \in ReaderStates /\ NoReader.at = "idle" /\ 0 \in 0 .. MaxVersion
  BY NoReaderTyped, ReaderFacts DEF NoReader
<1>. QED BY <1>1, <1>2, LearnKeeps

\* An exception ends a read, or starts it again.
LEMMA ReaderFailsKeeps ==
    ASSUME LInv, NEW r \in Readers, ReaderFails(r) PROVE LInv' /\ Newest' = Newest
<1>1. /\ readers[r].at # "idle" /\ failures < MaxFailures /\ failures' = failures + 1
      /\ UNCHANGED readerVars /\ UNCHANGED returned
  BY DEF ReaderFails
<1>2. failures' \in 0 .. MaxFailures
  BY <1>1, LargeObjectAssumption DEF LInv, TypeOK
<1>3. PICK new \in { NoReader, [ NoReader EXCEPT !.at = "latest" ] } :
         readers' = [ readers EXCEPT ![r] = new ]
  BY DEF ReaderFails
<1>4. new \in ReaderStates /\ new.at \in { "idle", "latest" } /\ new.part = 0 /\ ~new.corrupt
  <2>1. CASE new = NoReader
    BY <2>1, NoReaderTyped DEF NoReader
  <2>2. CASE new = [ NoReader EXCEPT !.at = "latest" ]
    BY <2>2, NoReaderTyped DEF NoReader
  <2>. QED BY <1>3, <2>1, <2>2
<1>. QED BY <1>1, <1>2, <1>3, <1>4, GoOnKeeps

-----------------------------------------------------------------------------
(* The theorems *)

\* The inductive invariant holds at first.
LEMMA InitLInv == Init => LInv
<1>. SUFFICES ASSUME Init PROVE LInv
  OBVIOUS
<1>1. TypeOK
  <2>1. NoWriter \in WriterStates
    BY LargeObjectAssumption DEF NoWriter, WriterStates
  <2>2. 0 \in 0 .. MaxVersion /\ 0 \in 0 .. MaxParts /\ 0 \in 0 .. MaxFailures
    BY LargeObjectAssumption
  <2>. QED BY <2>1, <2>2, NoReaderTyped DEF Init, TypeOK
<1>3. WritersSound
  BY DEF Init, WritersSound, WriterSound, NoWriter
<1>4. ReadersSound
  BY DEF Init, ReadersSound, ReaderSound, NoReader
<1>. QED BY <1>1, <1>3, <1>4 DEF Init, LInv, NewestExists, BegunOnly, LatestComplete

\* Every step keeps the inductive invariant; what is newest changes only when a
\* newer version is announced.
LEMMA NextLInv == ASSUME LInv, [Next]_vars PROVE LInv'
<1>1. ASSUME NEW w \in Writers, Write(w) \/ CollectionFails(w) \/ WriterFails(w)
      PROVE  LInv'
  BY <1>1, BeginWriteKeeps, SetPartKeeps, AddReadyKeeps, ListReadyKeeps, DeleteReadyKeeps,
     ListRootsKeeps, ListPartsKeeps, DeletePartKeeps, DeleteRootKeeps, CollectionFailsKeeps,
     EndKeeps DEF Write
<1>2. ASSUME NEW r \in Readers, BeginRead(r) \/ Reading(r) \/ ReaderFails(r)
      PROVE  LInv'
  BY <1>2, BeginReadKeeps, GetLatestKeeps, NoneReadyKeeps, ListPayloadKeeps, GetPartKeeps,
     GotPartsKeeps, CheckKeeps, ReaderFailsKeeps DEF Reading
<1>3. CASE UNCHANGED vars
  <2>1. /\ UNCHANGED << seq, size, roots, parts, ready >>
        /\ UNCHANGED << writers, readers, acked, returned, failures >>
    BY <1>3 DEF vars, zkVars
  <2>2. TypeOK' /\ NewestExists' /\ BegunOnly'
    BY <2>1 DEF LInv, TypeOK, NewestExists, BegunOnly
  <2>3. WritersSound' /\ ReadersSound'
    BY <2>1 DEF LInv, WritersSound, WriterSound, ReadersSound, ReaderSound, PayloadOf
  <2>4. LatestComplete'
    BY <2>1 DEF LInv, LatestComplete, Newest, PayloadOf
  <2>. QED BY <2>2, <2>3, <2>4 DEF LInv
<1>. QED BY <1>1, <1>2, <1>3 DEF Next

\* In every reachable state the inductive invariant holds.
THEOREM Invariance == Spec => []LInv
<1>. QED BY InitLInv, NextLInv, PTL DEF Spec

\* Every variable has its type.
THEOREM TypesHold == Spec => []TypeOK
<1>1. LInv => TypeOK
  BY DEF LInv
<1>. QED BY <1>1, Invariance, PTL

\* The payload of the latest ready version is complete at any time, however many
\* write, collect, die and overtake each other.
THEOREM LatestStaysComplete == Spec => []LatestComplete
<1>1. LInv => LatestComplete
  BY DEF LInv
<1>. QED BY <1>1, Invariance, PTL

\* The object that is written and read piece by piece starts as an atomic one.
LEMMA InitObject == Init => Object!ObjectInit
<1>. SUFFICES ASSUME Init PROVE Object!ObjectInit
  OBVIOUS
<1>1. Newest = 0
  BY DEF Init, Newest
<1>2. [ w \in Writers |-> writers[w].version ] = [ w \in Writers |-> 0 ]
  BY DEF Init, NoWriter
<1>. QED BY <1>1, <1>2 DEF Init, Object!ObjectInit

\* The version that each writer writes.
Writing == [ w \in Writers |-> writers[w].version ]

\* A step of one writer changes at most what that one writes.
LEMMA WritingAfter ==
    ASSUME LInv, NEW w \in Writers, NEW new, writers' = [ writers EXCEPT ![w] = new ]
    PROVE  Writing' = [ Writing EXCEPT ![w] = new.version ]
BY WriterFacts DEF Writing

\* A write begins.
LEMMA BeginsWriting ==
    ASSUME LInv, NEW w \in Writers, BeginWrite(w) PROVE Object!BeginWriting(w)
<1>. DEFINE new == [ NoWriter EXCEPT !.at = "parts", !.version = seq + 1 ]
<1>1. /\ writers[w].at = "idle" /\ seq' = seq + 1 /\ writers' = [ writers EXCEPT ![w] = new ]
      /\ UNCHANGED << ready, acked, returned >>
  BY DEF BeginWrite, writerVars
<1>2. new.version = seq + 1 /\ writers[w].version = 0
  BY <1>1, WriterFacts DEF NoWriter, WriterSound
<1>3. Writing' = [ Writing EXCEPT ![w] = seq + 1 ] /\ Writing[w] = 0
  <2>. HIDE DEF new
  <2>1. Writing' = [ Writing EXCEPT ![w] = new.version ]
    BY <1>1, WritingAfter
  <2>. QED BY <1>2, <2>1 DEF Writing
<1>4. Newest' = Newest
  BY <1>1, NewestIsIn
<1>. QED BY <1>1, <1>3, <1>4 DEF Writing, Object!BeginWriting

\* A step that leaves all versions as they are.
LEMMA StaysAtomic ==
    ASSUME LInv, NEW w \in Writers, NEW new, writers' = [ writers EXCEPT ![w] = new ],
           new.version = writers[w].version, UNCHANGED << seq, acked, returned >>
    PROVE  /\ Writing' = Writing
           /\ Newest' = Newest => UNCHANGED Object!objectVars
<1>1. Writing' = [ Writing EXCEPT ![w] = Writing[w] ]
  BY WritingAfter DEF Writing
<1>2. Writing' = Writing
  BY <1>1 DEF Writing
<1>. QED BY <1>2 DEF Writing, Object!objectVars

\* The announcement of a version is the moment its write takes effect, unless a
\* newer one has been announced before.
LEMMA TakesEffect ==
    ASSUME LInv, NEW w \in Writers, AddReady(w)
    PROVE  Object!TakeEffect(w) \/ UNCHANGED Object!objectVars
<1>. DEFINE new == [ writers[w] EXCEPT !.at = "listReady" ]
<1>1. /\ writers' = [ writers EXCEPT ![w] = new ]
      /\ UNCHANGED << seq, acked, returned >>
  BY DEF AddReady, writerVars
<1>2. new.version = writers[w].version
  BY WriterFacts DEF WriterStates
<1>3. Writing' = Writing /\ (Newest' = Newest => UNCHANGED Object!objectVars)
  <2>. HIDE DEF new
  <2>. QED BY <1>1, <1>2, StaysAtomic
<1>4. Newest' = (IF writers[w].version > Newest THEN writers[w].version ELSE Newest)
  BY AddReadyKeeps
<1>5. CASE writers[w].version > Newest
  BY <1>1, <1>3, <1>4, <1>5 DEF Writing, Object!TakeEffect
<1>6. CASE ~(writers[w].version > Newest)
  BY <1>3, <1>4, <1>6
<1>. QED BY <1>5, <1>6

\* A write returns when it has taken effect or been overtaken.
LEMMA EndsWriting ==
    ASSUME LInv, NEW w \in Writers, GiveUp(w) \/ EndWrite(w) PROVE Object!EndWriting(w)
<1>. DEFINE v == writers[w].version
<1>1. /\ writers' = [ writers EXCEPT ![w] = NoWriter ] /\ acked' = acked \cup { v }
      /\ UNCHANGED << seq, ready, returned >>
  BY DEF GiveUp, EndWrite, zkVars, writerVars
<1>2. Writing' = [ Writing EXCEPT ![w] = 0 ]
  <2>1. NoWriter.version = 0
    BY DEF NoWriter
  <2>. QED BY <1>1, <2>1, WritingAfter
<1>3. Newest' = Newest
  BY <1>1, NewestIsIn
<1>4. /\ WriterSound(w) /\ seq \in Nat /\ ready \subseteq 1 .. seq /\ Newest \in 0 .. seq
      /\ \A u \in ready : u <= Newest
  BY WriterFacts, NewestFacts
<1>5. CASE GiveUp(w)
  <2>1. writers[w].at = "parts" /\ v \notin roots
    BY <1>5 DEF GiveUp
  <2>2. v \in 1 .. seq /\ ~(\A u \in ready : u < v)
    BY <1>4, <2>1 DEF WriterSound
  <2>3. PICK u \in ready : ~(u < v)
    BY <2>2
  <2>4. v # 0 /\ v <= Newest
    BY <1>4, <2>2, <2>3
  <2>. QED BY <1>1, <1>2, <1>3, <2>4 DEF Writing, Object!EndWriting
<1>6. CASE EndWrite(w)
  <2>1. writers[w].at = "gcRoots"
    BY <1>6 DEF EndWrite
  <2>2. v \in 1 .. seq /\ \E u \in ready : v <= u
    BY <1>4, <2>1 DEF WriterSound
  <2>3. PICK u \in ready : v <= u
    BY <2>2
  <2>4. v # 0 /\ v <= Newest
    BY <1>4, <2>2, <2>3
  <2>. QED BY <1>1, <1>2, <1>3, <2>4 DEF Writing, Object!EndWriting
<1>. QED BY <1>5, <1>6

\* A write that fails, or whose process dies.
LEMMA FailsWriting ==
    ASSUME LInv, NEW w \in Writers, WriterFails(w) PROVE Object!FailWriting(w)
<1>1. /\ writers' = [ writers EXCEPT ![w] = NoWriter ]
      /\ UNCHANGED << seq, ready, acked, returned >>
  BY DEF WriterFails, zkVars, writerVars
<1>2. Writing' = [ Writing EXCEPT ![w] = 0 ]
  <2>1. NoWriter.version = 0
    BY DEF NoWriter
  <2>. QED BY <1>1, <2>1, WritingAfter
<1>3. Newest' = Newest
  BY <1>1, NewestIsIn
<1>. QED BY <1>1, <1>2, <1>3 DEF Writing, Object!FailWriting

\* The other steps of a writer change nothing of the object.
LEMMA WritesUnseen ==
    ASSUME LInv, NEW w \in Writers,
           \/ SetPart(w) \/ ListReady(w) \/ DeleteReady(w) \/ ListRoots(w) \/ ListParts(w)
           \/ DeletePart(w) \/ DeleteRoot(w) \/ CollectionFails(w)
    PROVE  UNCHANGED Object!objectVars
<1>1. UNCHANGED << seq, acked, returned >>
  BY DEF SetPart, ListReady, DeleteReady, ListRoots, ListParts, DeletePart, DeleteRoot,
         CollectionFails, zkVars, writerVars
<1>2. Newest' = Newest
  <2>1. CASE SetPart(w) \/ ListReady(w)
    <3>1. ready' = ready
      BY <2>1 DEF SetPart, ListReady, zkVars
    <3>. QED BY <3>1, NewestIsIn
  <2>. QED BY <2>1, DeleteReadyKeeps, ListRootsKeeps, ListPartsKeeps, DeletePartKeeps,
              DeleteRootKeeps, CollectionFailsKeeps
<1>3. ASSUME NEW x \in Writers
      PROVE  writers'[x].version = writers[x].version
  <2>1. writers[w] \in WriterStates /\ writers \in [ Writers -> WriterStates ]
    BY WriterFacts
  <2>2. CASE SetPart(w)
    BY <2>1, <2>2 DEF SetPart, WriterStates
  <2>3. CASE ListReady(w)
    BY <2>1, <2>3 DEF ListReady, WriterStates
  <2>4. CASE DeleteReady(w)
    BY <2>1, <2>4 DEF DeleteReady, WriterStates
  <2>5. CASE ListRoots(w)
    BY <2>1, <2>5 DEF ListRoots, WriterStates
  <2>6. CASE ListParts(w)
    <3>1. PICK v \in writers[w].todo :
             writers' = [ writers EXCEPT ![w] =
                 IF v \in roots THEN [ @ EXCEPT !.root = v, !.doomed = parts[v] ]
                 ELSE [ @ EXCEPT !.todo = writers[w].todo \ { v } ] ]
      BY <2>6 DEF ListParts
    <3>2. writers'[w] \in { [ writers[w] EXCEPT !.root = v, !.doomed = parts[v] ],
                            [ writers[w] EXCEPT !.todo = writers[w].todo \ { v } ] }
      BY <2>1, <3>1
    <3>3. writers'[w].version = writers[w].version
      BY <2>1, <3>2 DEF WriterStates
    <3>. QED BY <2>1, <3>1, <3>3
  <2>7. CASE DeletePart(w)
    BY <2>1, <2>7 DEF DeletePart, WriterStates
  <2>8. CASE DeleteRoot(w)
    BY <2>1, <2>8 DEF DeleteRoot, WriterStates
  <2>9. CASE CollectionFails(w)
    <3>1. PICK v \in writers[w].todo :
             writers' = [ writers EXCEPT ![w] =
                 [ writers[w] EXCEPT !.todo = writers[w].todo \ { v }, !.root = 0, !.doomed = {} ] ]
      BY <2>9 DEF CollectionFails
    <3>. QED BY <2>1, <3>1 DEF WriterStates
  <2>. QED BY <2>2, <2>3, <2>4, <2>5, <2>6, <2>7, <2>8, <2>9
<1>4. Writing' = Writing
  BY <1>3 DEF Writing
<1>. QED BY <1>1, <1>2, <1>4 DEF Writing, Object!objectVars

\* A read begins with no result, ends with the newest value of the moment it ends,
\* or goes on.
LEMMA ReadsAtomically ==
    ASSUME LInv, NEW r \in Readers, BeginRead(r) \/ Reading(r) \/ ReaderFails(r)
    PROVE  \/ Object!BeginReading(r) \/ Object!EndReading(r)
           \/ UNCHANGED Object!objectVars
<1>1. Newest' = Newest
  BY BeginReadKeeps, GetLatestKeeps, NoneReadyKeeps, ListPayloadKeeps, GetPartKeeps,
     GotPartsKeeps, CheckKeeps, ReaderFailsKeeps DEF Reading
<1>2. UNCHANGED << seq, acked, writers >>
  BY DEF BeginRead, Reading, GetLatest, NoneReady, ListPayload, GetPart, GotParts, Check,
         ReaderFails, readerVars, zkVars
<1>3. CASE BeginRead(r)
  BY <1>1, <1>2, <1>3 DEF BeginRead, Object!BeginReading
<1>4. readers[r].at # "idle" => returned[r] = None
  BY ReaderFacts DEF ReaderSound
<1>5. CASE NoneReady(r)
  <2>1. readers[r].at = "latest" /\ ready = {} /\ returned' = [ returned EXCEPT ![r] = 0 ]
    BY <1>5 DEF NoneReady, Return
  <2>2. Newest = 0
    BY <2>1, NewestFacts
  <2>. QED BY <1>1, <1>2, <1>4, <2>1, <2>2 DEF Object!EndReading
<1>6. CASE Check(r)
  <2>1. CASE readers[r].version = Newest
    <3>1. readers[r].at = "check" /\ returned' = [ returned EXCEPT ![r] = Newest ]
      BY <1>6, <2>1, ReturnsNewest DEF Check, Return
    <3>. QED BY <1>1, <1>2, <1>4, <3>1 DEF Object!EndReading
  <2>2. CASE readers[r].version # Newest
    <3>1. UNCHANGED returned
      BY <1>6, <2>2 DEF Check
    <3>. QED BY <1>1, <1>2, <3>1 DEF Object!objectVars
  <2>. QED BY <2>1, <2>2
<1>7. CASE GetLatest(r) \/ ListPayload(r) \/ GetPart(r) \/ GotParts(r) \/ ReaderFails(r)
  <2>1. UNCHANGED returned
    BY <1>7 DEF GetLatest, ListPayload, GetPart, GotParts, ReaderFails
  <2>. QED BY <1>1, <1>2, <2>1 DEF Object!objectVars
<1>. QED BY <1>3, <1>5, <1>6, <1>7 DEF Reading

\* Every step is one of the atomic object, or none of it is seen.
LEMMA StepsOfObject == LInv /\ [Next]_vars => [Object!ObjectNext]_Object!objectVars
<1>. SUFFICES ASSUME LInv, [Next]_vars
              PROVE  Object!ObjectNext \/ UNCHANGED Object!objectVars
  OBVIOUS
<1>1. ASSUME NEW w \in Writers, Write(w) \/ CollectionFails(w) \/ WriterFails(w)
      PROVE  Object!ObjectNext \/ UNCHANGED Object!objectVars
  <2>1. \/ Object!BeginWriting(w) \/ Object!TakeEffect(w) \/ Object!EndWriting(w)
        \/ Object!FailWriting(w) \/ UNCHANGED Object!objectVars
    BY <1>1, BeginsWriting, TakesEffect, EndsWriting, FailsWriting, WritesUnseen DEF Write
  <2>. QED BY <2>1 DEF Object!ObjectNext
<1>2. ASSUME NEW r \in Readers, BeginRead(r) \/ Reading(r) \/ ReaderFails(r)
      PROVE  Object!ObjectNext \/ UNCHANGED Object!objectVars
  BY <1>2, ReadsAtomically DEF Object!ObjectNext
<1>3. CASE UNCHANGED vars
  <2>1. UNCHANGED << seq, ready, writers, acked, returned >>
    BY <1>3 DEF vars, zkVars
  <2>2. Newest' = Newest
    BY <2>1, NewestIsIn
  <2>. QED BY <2>1, <2>2 DEF Object!objectVars
<1>. QED BY <1>1, <1>2, <1>3 DEF Next

\* setLargeObject and getLargeObject, with all their interleavings, collections,
\* restarts of reads and deaths of processes, implement an object that is written
\* and read in one atomic step each.
THEOREM LargeObjectIsAtomic == Spec => ImplementsAtomicObject
<1>. QED BY InitObject, StepsOfObject, Invariance, PTL
         DEF Spec, ImplementsAtomicObject, Object!ObjectSpec

=============================================================================
