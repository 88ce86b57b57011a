----------------------- MODULE LauncherRequestsProofs -----------------------
(***************************************************************************)
(* Proofs about LauncherRequests, for every set of frameworks, every       *)
(* hierarchy of parents and every bound: memory and ZooKeeper agree, the   *)
(* total counts every task once, no child runs under a stopped parent, and *)
(* the status of a version is never mistaken for that of another.          *)
(***************************************************************************)
EXTENDS LauncherRequests, FiniteSetTheorems, TLAPS

\* Users have asked for this version of f, once without a break.
Once(f, v) == << f, v >> \notin again

\* While no write has failed: which versions users, the Service and the StatusManager
\* have last seen of f.  All of them were asked for, so a version that is new is new to
\* all; and while the request keeps a version that was asked for once, the Service that
\* has seen it sees no other, and its completed status stays.
VersionsSound(f) ==
    /\ Exists(f) => << f, requests[f].version >> \in asked
    /\ pulled[f] # 0 => << f, pulled[f] >> \in asked
    /\ zkStatuses[f] # None => << f, zkStatuses[f].version >> \in asked
    /\ statuses[f] # None => << f, statuses[f].version >> \in asked
    /\ Exists(f) /\ Once(f, requests[f].version) =>
        /\ zkStatuses[f] # None /\ zkStatuses[f].version = requests[f].version
             => pulled[f] = requests[f].version
        /\ Completed(statuses[f]) /\ statuses[f].version = requests[f].version
             => zkStatuses[f] = statuses[f]

\* What the thread of the StatusManager has chosen to reuse or to collect.
PullerSound ==
    /\ puller # "pull" => reuse = {}
    /\ phase # "collect" => collecting = {}
    /\ phase = "collect" => puller = "reuse"
    /\ \A f \in reuse \cup collecting : Completed(statuses[f])

\* A call that stops has not come to its end, or all children are stopped.
StopsSound ==
    phase \in { "idle", "delete", "collect" } /\ ~interrupted
        => StopOrphansIn(requests) = {}

\* The stops of a recovery begin when its deletions are done.
RecoverySound == phase = "recoverStop" => DeleteOrphans = {}

NoDoubt == failures = 0 => doubtful = {}

IInv ==
    /\ TypeOK
    /\ RequestsConsistent
    /\ NoDoubt
    /\ TotalExact
    /\ StopsSound
    /\ RecoverySound
    /\ PullerSound
    /\ failures = 0 => \A f \in Frameworks : VersionsSound(f)

-----------------------------------------------------------------------------
(* The total of the tasks: a sum over a finite set, whatever its order *)

\* What the iteration of a sum over the subsets of S satisfies.
Solves(g, fn, S) ==
    g = [ s \in SUBSET S |->
            IF s = {} THEN 0
            ELSE fn[CHOOSE x \in s : TRUE] + g[s \ { CHOOSE x \in s : TRUE }] ]

\* One element for every unit of what the members of s count for.
Units(fn, s, m) == { p \in s \X (1 .. m) : p[2] <= fn[p[1]] }

\* A set of subsets of a finite set has a minimal member.
LEMMA SmallestSubset ==
    ASSUME NEW S, IsFiniteSet(S), NEW X \in SUBSET SUBSET S, X # {}
    PROVE  \E T \in X : \A U \in X : U \subseteq T => U = T
<1>1. IsWellFoundedOn(StrictSubsetOrdering(S), SUBSET S)
  BY FS_StrictSubsetOrderingWellFounded, FS_FiniteSubsetsOfFinite
<1>2. PICK T \in X : \A U \in X : ~(<< U, T >> \in StrictSubsetOrdering(S))
  BY <1>1, WFMin
<1>3. ASSUME NEW U \in X, U \subseteq T, U # T PROVE FALSE
  <2>1. << U, T >> \in StrictSubsetOrdering(S)
    BY <1>3 DEF StrictSubsetOrdering
  <2>. QED BY <1>2, <2>1
<1>. QED BY <1>3

\* The units of a set are those of one member and those of the others.
LEMMA PeelUnits ==
    ASSUME NEW S, IsFiniteSet(S), NEW m \in Nat, NEW fn \in [ S -> 0 .. m ],
           NEW s \in SUBSET S, NEW x \in s
    PROVE  /\ Cardinality(Units(fn, s \ { x }, m)) \in Nat
           /\ Cardinality(Units(fn, s, m)) = fn[x] + Cardinality(Units(fn, s \ { x }, m))
<1> DEFINE A == Units(fn, s \ { x }, m)
           B == { x } \X (1 .. fn[x])
<1>1. fn[x] \in Nat /\ fn[x] <= m
  OBVIOUS
<1>2. IsFiniteSet(s \ { x })
  BY FS_Subset
<1>3. IsFiniteSet(1 .. m)
  BY FS_Interval
<1>4. IsFiniteSet((s \ { x }) \X (1 .. m))
  BY <1>2, <1>3, FS_Product
<1>5. IsFiniteSet(A) /\ Cardinality(A) \in Nat
  <2>1. A \subseteq (s \ { x }) \X (1 .. m)
    BY DEF Units
  <2>. HIDE DEF A
  <2>. QED BY <1>4, <2>1, FS_Subset, FS_CardinalityType
<1>6. IsFiniteSet(B) /\ Cardinality(B) = fn[x]
  <2>1. IsFiniteSet({ x }) /\ Cardinality({ x }) = 1
    BY FS_Singleton
  <2>2. PICK n \in Nat : n = fn[x]
    BY <1>1
  <2>3. /\ IsFiniteSet(1 .. n)
        /\ Cardinality(1 .. n) = IF 1 > n THEN 0 ELSE n - 1 + 1
    <3>1. \A b \in Int : /\ IsFiniteSet(1 .. b)
                         /\ Cardinality(1 .. b) = IF 1 > b THEN 0 ELSE b - 1 + 1
      BY FS_Interval, 1 \in Int, Zenon
    <3>. QED BY <3>1
  <2>4. Cardinality(1 .. n) = n
    BY <2>3
  <2>5. /\ IsFiniteSet({ x } \X (1 .. n))
        /\ Cardinality({ x } \X (1 .. n)) = Cardinality({ x }) * Cardinality(1 .. n)
    BY <2>1, <2>3, FS_Product
  <2>. QED BY <2>1, <2>2, <2>4, <2>5
<1>7. A \cap B = {}
  BY DEF Units
<1>8. Units(fn, s, m) = A \cup B
  BY <1>1 DEF Units
<1>9. Cardinality(A \cup B) = Cardinality(A) + Cardinality(B) - Cardinality(A \cap B)
  BY <1>5, <1>6, FS_Union
<1>10. Cardinality(A \cap B) = 0
  BY <1>7, FS_EmptySet
<1>. HIDE DEF A, B
<1>11. Cardinality(A \cup B) = fn[x] + Cardinality(A)
  BY <1>1, <1>5, <1>6, <1>9, <1>10
<1>. QED BY <1>5, <1>8, <1>11 DEF A

\* A sum of numbers counts their units, in whatever order it is taken.
LEMMA SumIsCount ==
    ASSUME NEW S, IsFiniteSet(S), NEW m \in Nat, NEW fn \in [ S -> 0 .. m ]
    PROVE  SumFunction(fn) = Cardinality(Units(fn, S, m))
<1> DEFINE Count == [ s \in SUBSET S |-> Cardinality(Units(fn, s, m)) ]
           Sum   == CHOOSE g : Solves(g, fn, S)
<1>1. Cardinality(Units(fn, {}, m)) = 0
  <2>1. Units(fn, {}, m) = {}
    BY DEF Units
  <2>. QED BY <2>1, FS_EmptySet
<1>2. Solves(Count, fn, S)
  <2>1. ASSUME NEW s \in SUBSET S, s # {}
        PROVE  Count[s] = fn[CHOOSE x \in s : TRUE] + Count[s \ { CHOOSE x \in s : TRUE }]
    <3>1. PICK x \in s : x = CHOOSE y \in s : TRUE
      BY <2>1
    <3>2. s \ { x } \in SUBSET S
      OBVIOUS
    <3>3. Count[s] = fn[x] + Count[s \ { x }]
      BY <3>2, PeelUnits
    <3>. QED BY <3>1, <3>3
  <2>2. Count[{}] = 0
    BY <1>1
  <2>3. \A s \in SUBSET S : Count[s] =
            IF s = {} THEN 0
            ELSE fn[CHOOSE x \in s : TRUE] + Count[s \ { CHOOSE x \in s : TRUE }]
    BY <2>1, <2>2
  <2>4. Count = [ s \in SUBSET S |-> Count[s] ]
    OBVIOUS
  <2>. HIDE DEF Count
  <2>. QED BY <2>3, <2>4 DEF Solves
<1>3. Solves(Sum, fn, S)
  BY <1>2
<1>4. SumFunction(fn) = Sum[S]
  <2>1. DOMAIN fn = S
    OBVIOUS
  <2>. QED BY <2>1 DEF SumFunction, SumFunctionOnSet, FoldFunctionOnSet, MapThenFoldSet, Solves
<1>. HIDE DEF Sum
<1> DEFINE X == { s \in SUBSET S : Sum[s] # Cardinality(Units(fn, s, m)) }
<1>5. X = {}
  <2>. SUFFICES ASSUME X # {} PROVE FALSE
    OBVIOUS
  <2>1. X \in SUBSET SUBSET S
    OBVIOUS
  <2>. HIDE DEF X
  <2>2. PICK s \in X : \A u \in X : u \subseteq s => u = s
    BY <2>1, SmallestSubset
  <2>3. s \in SUBSET S /\ Sum[s] # Cardinality(Units(fn, s, m))
    BY DEF X
  <2>4. s # {}
    BY <1>1, <1>3, <2>3 DEF Solves
  <2>5. PICK x \in s : x = CHOOSE y \in s : TRUE
    BY <2>4
  <2>6. Sum[s] = fn[x] + Sum[s \ { x }]
    BY <1>3, <2>3, <2>4, <2>5 DEF Solves
  <2>7. s \ { x } \notin X
    BY <2>2
  <2>8. Sum[s \ { x }] = Cardinality(Units(fn, s \ { x }, m))
    BY <2>3, <2>7 DEF X
  <2>9. Cardinality(Units(fn, s, m)) = fn[x] + Cardinality(Units(fn, s \ { x }, m))
    BY <2>3, PeelUnits
  <2>. QED BY <2>3, <2>6, <2>8, <2>9
<1>. QED BY <1>4, <1>5

\* The total after the request of one framework has changed.
LEMMA TotalChanges ==
    ASSUME NEW rs \in [ Frameworks -> Requests \cup { None } ],
           NEW rs2 \in [ Frameworks -> Requests \cup { None } ],
           NEW f \in Frameworks, \A g \in Frameworks \ { f } : rs2[g] = rs[g]
    PROVE  /\ TotalOf(rs2) \in Nat
           /\ TasksOf(rs[f]) \in Nat /\ TasksOf(rs[f]) <= TotalOf(rs)
           /\ TotalOf(rs2) = TotalOf(rs) + TasksOf(rs2[f]) - TasksOf(rs[f])
<1>1. \A r \in Requests \cup { None } : TasksOf(r) \in 0 .. MaxTasks
  BY LauncherAssumption DEF TasksOf, Requests
<1> DEFINE fn == [ g \in Frameworks |-> TasksOf(rs[g]) ]
           fn2 == [ g \in Frameworks |-> TasksOf(rs2[g]) ]
<1>2. fn \in [ Frameworks -> 0 .. MaxTasks ] /\ fn2 \in [ Frameworks -> 0 .. MaxTasks ]
  BY <1>1
<1>3. fn[f] = TasksOf(rs[f]) /\ fn2[f] = TasksOf(rs2[f])
  OBVIOUS
<1>4. \A g \in Frameworks \ { f } : fn2[g] = fn[g]
  OBVIOUS
<1>5. TotalOf(rs) = SumFunction(fn) /\ TotalOf(rs2) = SumFunction(fn2)
  BY DEF TotalOf
<1>. HIDE DEF fn, fn2
<1>6. Units(fn2, Frameworks \ { f }, MaxTasks) = Units(fn, Frameworks \ { f }, MaxTasks)
  BY <1>4 DEF Units
<1>7. /\ Cardinality(Units(fn, Frameworks \ { f }, MaxTasks)) \in Nat
      /\ Cardinality(Units(fn, Frameworks, MaxTasks))
           = fn[f] + Cardinality(Units(fn, Frameworks \ { f }, MaxTasks))
  BY <1>2, LauncherAssumption, PeelUnits
<1>8. Cardinality(Units(fn2, Frameworks, MaxTasks))
        = fn2[f] + Cardinality(Units(fn2, Frameworks \ { f }, MaxTasks))
  BY <1>2, LauncherAssumption, PeelUnits
<1>9. /\ SumFunction(fn) = Cardinality(Units(fn, Frameworks, MaxTasks))
      /\ SumFunction(fn2) = Cardinality(Units(fn2, Frameworks, MaxTasks))
  BY <1>2, LauncherAssumption, SumIsCount
<1>10. fn[f] \in Nat /\ fn2[f] \in Nat
  BY <1>2
<1>. QED BY <1>3, <1>5, <1>6, <1>7, <1>8, <1>9, <1>10

\* The total of any requests is a number.
LEMMA TotalIsNumber ==
    ASSUME NEW rs \in [ Frameworks -> Requests \cup { None } ]
    PROVE  TotalOf(rs) \in Nat
<1>1. CASE Frameworks = {}
  <2> DEFINE fn == [ g \in Frameworks |-> TasksOf(rs[g]) ]
  <2>1. fn \in [ Frameworks -> 0 .. MaxTasks ]
    BY <1>1
  <2>2. TotalOf(rs) = SumFunction(fn)
    BY DEF TotalOf
  <2>. HIDE DEF fn
  <2>3. SumFunction(fn) = Cardinality(Units(fn, Frameworks, MaxTasks))
    BY <2>1, LauncherAssumption, SumIsCount
  <2>4. Units(fn, Frameworks, MaxTasks) = {}
    BY <1>1 DEF Units
  <2>. QED BY <2>2, <2>3, <2>4, FS_EmptySet
<1>2. CASE Frameworks # {}
  BY <1>2, TotalChanges
<1>. QED BY <1>1, <1>2

\* No request, no task.
LEMMA TotalOfNothing ==
    TotalOf([ f \in Frameworks |-> None ]) = 0
<1> DEFINE fn == [ g \in Frameworks |-> 0 ]
<1>1. [ g \in Frameworks |-> TasksOf([ f \in Frameworks |-> None ][g]) ] = fn
  BY DEF TasksOf
<1>2. fn \in [ Frameworks -> 0 .. MaxTasks ]
  BY LauncherAssumption
<1>3. TotalOf([ f \in Frameworks |-> None ]) = SumFunction(fn)
  BY <1>1 DEF TotalOf
<1>4. Units(fn, Frameworks, MaxTasks) = {}
  BY DEF Units
<1>. HIDE DEF fn
<1>5. SumFunction(fn) = Cardinality(Units(fn, Frameworks, MaxTasks))
  BY <1>2, LauncherAssumption, SumIsCount
<1>. QED BY <1>3, <1>4, <1>5, FS_EmptySet

-----------------------------------------------------------------------------
(* What a write and a deletion do to memory and ZooKeeper *)

\* What the two hold, however the calls are going.
StoreTypes ==
    /\ requests \in [ Frameworks -> Requests \cup { None } ]
    /\ marks \in [ Frameworks -> SUBSET Marks ]
    /\ totalTaskNumber \in Nat
    /\ zkRequests \in [ Frameworks -> Requests \cup { None } ]
    /\ zkMarks \in [ Frameworks -> SUBSET Marks ]

\* A parent that is stopped stops what is stored.
LEMMA StoredType ==
    ASSUME NEW r \in Requests
    PROVE  /\ Stored(r) \in Requests
           /\ Stored(r).version = r.version /\ Stored(r).taskNumber = r.taskNumber
           /\ Stored(r).parent = r.parent
           /\ r.executionType = "STOP" => Stored(r).executionType = "STOP"
<1>1. [ r EXCEPT !.executionType = "STOP" ] \in Requests
  BY DEF Requests, ExecutionTypes
<1>2. /\ [ r EXCEPT !.executionType = "STOP" ].version = r.version
      /\ [ r EXCEPT !.executionType = "STOP" ].taskNumber = r.taskNumber
      /\ [ r EXCEPT !.executionType = "STOP" ].parent = r.parent
      /\ [ r EXCEPT !.executionType = "STOP" ].executionType = "STOP"
  BY DEF Requests
<1>. QED BY <1>1, <1>2 DEF Stored

\* A write keeps memory and ZooKeeper alike and the total exact and in its limit.
LEMMA SetKeepsStore ==
    ASSUME StoreTypes, RequestsConsistent, TotalExact,
           NEW f \in Frameworks, NEW r \in Requests, SetFrameworkRequest(f, r)
    PROVE  /\ StoreTypes'
           /\ \A g \in Frameworks \ doubtful :
                  requests'[g] = zkRequests'[g] /\ marks'[g] = zkMarks'[g]
           /\ totalTaskNumber' = TotalOf(requests')
           /\ totalTaskNumber' <= MaxTotalTaskNumber
           /\ requests' = [ requests EXCEPT ![f] = Stored(r) ]
<1>1. PICK s \in Requests : s = Stored(r)
  BY StoredType
<1>2. s.taskNumber = r.taskNumber
  BY <1>1, StoredType
<1>3. /\ requests' = [ requests EXCEPT ![f] = s ]
      /\ zkRequests' = [ zkRequests EXCEPT ![f] = s ]
      /\ totalTaskNumber' = totalTaskNumber + TasksOf(r) - TasksOf(requests[f])
      /\ totalTaskNumber' <= MaxTotalTaskNumber
      /\ marks' = marks /\ zkMarks' = zkMarks
  BY <1>1 DEF SetFrameworkRequest, NewTotal
<1>4. /\ requests' \in [ Frameworks -> Requests \cup { None } ]
      /\ zkRequests' \in [ Frameworks -> Requests \cup { None } ]
  BY <1>3 DEF StoreTypes
<1>5. requests'[f] = s /\ \A g \in Frameworks \ { f } : requests'[g] = requests[g]
  BY <1>3 DEF StoreTypes
<1>6. TasksOf(s) = TasksOf(r)
  BY <1>2, NoneIsNeither DEF TasksOf
<1>7. /\ TotalOf(requests') \in Nat
      /\ TotalOf(requests') = TotalOf(requests) + TasksOf(s) - TasksOf(requests[f])
  BY <1>4, <1>5, TotalChanges DEF StoreTypes
<1>8. totalTaskNumber' = TotalOf(requests')
  BY <1>3, <1>6, <1>7 DEF TotalExact
<1>9. StoreTypes'
  BY <1>3, <1>4, <1>7, <1>8 DEF StoreTypes
<1>10. \A g \in Frameworks \ doubtful :
           requests'[g] = zkRequests'[g] /\ marks'[g] = zkMarks'[g]
  BY <1>3 DEF StoreTypes, RequestsConsistent
<1>. QED BY <1>1, <1>3, <1>8, <1>9, <1>10

\* So does a deletion, which needs no room.
LEMMA DeleteKeepsStore ==
    ASSUME StoreTypes, RequestsConsistent, TotalExact, NEW f \in Frameworks, DeleteInternal(f)
    PROVE  /\ StoreTypes'
           /\ \A g \in Frameworks \ doubtful :
                  requests'[g] = zkRequests'[g] /\ marks'[g] = zkMarks'[g]
           /\ totalTaskNumber' = TotalOf(requests')
           /\ totalTaskNumber' <= totalTaskNumber
           /\ requests' = [ requests EXCEPT ![f] = None ]
<1>3. /\ requests' = [ requests EXCEPT ![f] = None ]
      /\ zkRequests' = [ zkRequests EXCEPT ![f] = None ]
      /\ totalTaskNumber' = totalTaskNumber - TasksOf(requests[f])
      /\ marks' = [ marks EXCEPT ![f] = {} ] /\ zkMarks' = [ zkMarks EXCEPT ![f] = {} ]
  BY DEF DeleteInternal
<1>4. /\ requests' \in [ Frameworks -> Requests \cup { None } ]
      /\ zkRequests' \in [ Frameworks -> Requests \cup { None } ]
      /\ marks' \in [ Frameworks -> SUBSET Marks ]
      /\ zkMarks' \in [ Frameworks -> SUBSET Marks ]
  BY <1>3 DEF StoreTypes
<1>5. requests'[f] = None /\ \A g \in Frameworks \ { f } : requests'[g] = requests[g]
  BY <1>3 DEF StoreTypes
<1>6. TasksOf(None) = 0
  BY DEF TasksOf
<1>7. /\ TotalOf(requests') \in Nat
      /\ TasksOf(requests[f]) \in Nat /\ TasksOf(requests[f]) <= TotalOf(requests)
      /\ TotalOf(requests') = TotalOf(requests) + TasksOf(None) - TasksOf(requests[f])
  BY <1>4, <1>5, TotalChanges DEF StoreTypes
<1>8. totalTaskNumber' = TotalOf(requests') /\ totalTaskNumber' <= totalTaskNumber
  BY <1>3, <1>6, <1>7 DEF TotalExact, StoreTypes
<1>9. StoreTypes'
  BY <1>4, <1>7, <1>8 DEF StoreTypes
<1>10. \A g \in Frameworks \ doubtful :
           requests'[g] = zkRequests'[g] /\ marks'[g] = zkMarks'[g]
  BY <1>3 DEF StoreTypes, RequestsConsistent
<1>. QED BY <1>3, <1>8, <1>9, <1>10

-----------------------------------------------------------------------------
(* The parts of the invariant that a step leaves alone *)

\* What TypeOK says of the rest of the state.
RestTypes ==
    /\ phase \in { "idle", "collect", "failed" } \cup Stopping \cup Deleting
    /\ statuses \in [ Frameworks -> Statuses \cup { None } ]
    /\ puller \in { "recover", "collect", "reuse", "pull" }
    /\ reuse \subseteq Frameworks /\ collecting \subseteq Frameworks
    /\ pulled \in [ Frameworks -> 0 .. MaxVersion ]
    /\ zkStatuses \in [ Frameworks -> Statuses \cup { None } ]
    /\ retained \subseteq Frameworks \X Versions
    /\ again \subseteq asked /\ asked \subseteq Frameworks \X Versions
    /\ doubtful \subseteq Frameworks /\ interrupted \in BOOLEAN
    /\ ops \in 0 .. MaxOps /\ crashes \in 0 .. MaxCrashes /\ failures \in 0 .. MaxFailures

\* Types are those of the store and those of the rest.
LEMMA Types ==
    TypeOK <=> StoreTypes /\ RestTypes
BY DEF TypeOK, StoreTypes, RestTypes

\* The versions of a framework stay in order while its request goes or keeps its own.
LEMMA VersionsKept ==
    ASSUME NEW f \in Frameworks, VersionsSound(f),
           UNCHANGED << statuses, pulled, zkStatuses, asked, again >>,
           requests'[f] # None => Exists(f) /\ requests'[f].version = requests[f].version
    PROVE  VersionsSound(f)'
BY DEF VersionsSound, Once, Exists

\* A deletion leaves no more children to stop than there were.
LEMMA DeletionStopsNone ==
    ASSUME NEW rs \in [ Frameworks -> Requests \cup { None } ], NEW f \in Frameworks,
           StopOrphansIn(rs) = {}
    PROVE  StopOrphansIn([ rs EXCEPT ![f] = None ]) = {}
<1> DEFINE rs2 == [ rs EXCEPT ![f] = None ]
<1>1. rs2[f] = None /\ \A g \in Frameworks \ { f } : rs2[g] = rs[g]
  OBVIOUS
<1>2. \A x : rs2[x] = None \/ rs2[x] = rs[x]
  OBVIOUS
<1>. HIDE DEF rs2
<1>3. ASSUME NEW g \in StopOrphansIn(rs2) PROVE g \in StopOrphansIn(rs)
  BY <1>1, <1>2 DEF StopOrphansIn, StoppedIn
<1>. QED BY <1>3 DEF rs2

-----------------------------------------------------------------------------
(* The calls of users and of AMs *)

\* A call that stores a request, or fails while it writes it.
LEMMA CallKeeps ==
    ASSUME IInv, NEW f \in Frameworks, NEW r \in Requests, Call(f, r)
    PROVE  IInv'
<1>1. StoreTypes /\ RestTypes /\ RequestsConsistent /\ NoDoubt /\ TotalExact
      /\ StopsSound /\ PullerSound
  BY Types DEF IInv
<1>2. PICK v \in Versions : v = r.version
  BY DEF Requests
<1>3. /\ phase = "idle" /\ puller # "recover" /\ ops < MaxOps /\ ops' = ops + 1
      /\ asked' = asked \cup { << f, v >> }
      /\ again' = IF VersionOf(requests[f]) = v THEN again
                  ELSE again \cup (asked \cap { << f, v >> })
      /\ UNCHANGED << statuses, puller, reuse, collecting, pulled, zkStatuses, retained, crashes >>
  BY <1>2 DEF Call, Serving, quietVars, pullVars, srvVars
<1>4. again' \subseteq asked' /\ asked' \subseteq Frameworks \X Versions
  BY <1>1, <1>3 DEF RestTypes
<1>5. ops' \in 0 .. MaxOps
  BY <1>1, <1>3, LauncherAssumption DEF RestTypes
<1>6. PICK s \in Requests :
          /\ s = Stored(r) /\ s.version = v /\ s.parent = r.parent
          /\ s.executionType # "STOP" => ~( /\ r.parent # None /\ r.parent.stopOnParentStopped
                                            /\ StoppedIn(requests, r.parent.name) )
  <2>1. Stored(r) \in Requests /\ Stored(r).version = v /\ Stored(r).parent = r.parent
    BY <1>2, StoredType
  <2>2. Stored(r).executionType # "STOP" =>
            ~( /\ r.parent # None /\ r.parent.stopOnParentStopped
               /\ StoppedIn(requests, r.parent.name) )
    <3>1. [ r EXCEPT !.executionType = "STOP" ].executionType = "STOP"
      BY DEF Requests
    <3>. QED BY <3>1 DEF Stored
  <2>. QED BY <2>1, <2>2
<1>7. CASE /\ SetFrameworkRequest(f, r)
           /\ phase' = IF s.executionType = "STOP" THEN "stop" ELSE "idle"
           /\ UNCHANGED << doubtful, interrupted, failures >>
  <2>1. /\ StoreTypes'
        /\ \A g \in Frameworks \ doubtful :
               requests'[g] = zkRequests'[g] /\ marks'[g] = zkMarks'[g]
        /\ totalTaskNumber' = TotalOf(requests')
        /\ totalTaskNumber' <= MaxTotalTaskNumber
        /\ requests' = [ requests EXCEPT ![f] = s ]
    BY <1>1, <1>6, <1>7, SetKeepsStore
  <2>2. phase' \in { "idle", "stop" }
    BY <1>7
  <2>3. TypeOK'
    <3>1. RestTypes'
      BY <1>1, <1>3, <1>4, <1>5, <1>7, <2>2 DEF RestTypes, Stopping
    <3>. QED BY <2>1, <3>1 DEF TypeOK, StoreTypes, RestTypes
  <2>4. RequestsConsistent' /\ NoDoubt' /\ TotalExact'
    BY <1>1, <1>7, <2>1 DEF RequestsConsistent, NoDoubt, TotalExact
  <2>5. StopsSound'
    <3>. SUFFICES ASSUME s.executionType # "STOP", ~interrupted,
                         NEW g \in StopOrphansIn(requests')
                  PROVE  FALSE
      BY <1>7, <2>2 DEF StopsSound
    <3>1. StopOrphansIn(requests) = {}
      BY <1>1, <1>3 DEF StopsSound
    <3>2. \A x : requests'[x] = requests[x] \/ (x = f /\ requests'[x] = s)
      BY <1>1, <2>1 DEF StoreTypes
    <3>3. /\ g \in Frameworks /\ requests'[g] # None /\ requests'[g].parent # None
          /\ requests'[g].parent.stopOnParentStopped /\ requests'[g].executionType # "STOP"
          /\ requests'[requests'[g].parent.name] # None
          /\ requests'[requests'[g].parent.name].executionType = "STOP"
      BY DEF StopOrphansIn, StoppedIn
    <3>4. requests'[requests'[g].parent.name] = requests[requests'[g].parent.name]
      BY <3>2, <3>3
    <3>5. CASE g # f
      BY <3>1, <3>2, <3>3, <3>4, <3>5 DEF StopOrphansIn, StoppedIn
    <3>6. CASE g = f
      <4>1. requests'[f] = s
        BY <1>1, <2>1 DEF StoreTypes
      <4>. QED BY <1>6, <3>3, <3>4, <3>6, <4>1 DEF StoppedIn
    <3>. QED BY <3>5, <3>6
  <2>6. RecoverySound'
    BY <2>2 DEF RecoverySound
  <2>7. PullerSound'
    BY <1>1, <1>3, <2>2 DEF PullerSound
  <2>8. ASSUME failures' = 0, NEW g \in Frameworks PROVE VersionsSound(g)'
    <3>1. VersionsSound(g)
      BY <1>7, <2>8 DEF IInv
    <3>2. CASE g # f
      <4>1. requests'[g] = requests[g]
        BY <1>1, <2>1, <3>2 DEF StoreTypes
      <4>2. \A w : << g, w >> # << f, v >>
        BY <3>2
      <4>3. \A w : (<< g, w >> \in asked' <=> << g, w >> \in asked) /\ (Once(g, w)' <=> Once(g, w))
        BY <1>3, <4>2 DEF Once
      <4>. QED BY <1>3, <3>1, <4>1, <4>3 DEF VersionsSound, Exists
    <3>3. CASE g = f
      <4>1. requests'[f] = s /\ s.version = v /\ Exists(f)'
        BY <1>1, <1>6, <2>1, NoneIsNeither DEF StoreTypes, Exists
      <4>2. << f, v >> \in asked' /\ asked \subseteq asked'
        BY <1>3
      <4>3. CASE VersionOf(requests[f]) = v
        <5>1. Exists(f) /\ requests[f].version = v
          BY <4>3, LauncherAssumption DEF VersionOf, Exists, Versions
        <5>2. again' = again
          BY <1>3, <4>3
        <5>. QED BY <1>3, <3>1, <3>3, <4>1, <4>2, <5>1, <5>2 DEF VersionsSound, Once, Exists
      <4>4. CASE VersionOf(requests[f]) # v /\ << f, v >> \in asked
        <5>1. ~Once(f, v)'
          BY <1>3, <4>4 DEF Once
        <5>. QED BY <1>3, <3>1, <3>3, <4>1, <4>2, <5>1 DEF VersionsSound, Exists
      <4>5. CASE << f, v >> \notin asked
        <5>1. /\ zkStatuses[f] # None => zkStatuses[f].version # v
              /\ statuses[f] # None => statuses[f].version # v
          BY <3>1, <3>3, <4>5 DEF VersionsSound
        <5>2. Completed(statuses[f]) => statuses[f] # None
          BY DEF Completed
        <5>. QED BY <1>3, <3>1, <3>3, <4>1, <4>2, <5>1, <5>2 DEF VersionsSound, Completed, Exists
      <4>. QED BY <4>3, <4>4, <4>5
    <3>. QED BY <3>2, <3>3
  <2>. QED BY <2>3, <2>4, <2>5, <2>6, <2>7, <2>8 DEF IInv
<1>8. CASE /\ failures < MaxFailures /\ failures' = failures + 1
           /\ doubtful' = doubtful \cup { f }
           /\ zkRequests' = [ zkRequests EXCEPT ![f] = s ]
           /\ UNCHANGED << memVars, zkMarks, phase, interrupted >>
  <2>1. failures' # 0 /\ failures' \in 0 .. MaxFailures
    BY <1>1, <1>8, LauncherAssumption DEF RestTypes
  <2>2. TypeOK'
    <3>1. StoreTypes'
      BY <1>1, <1>8 DEF StoreTypes, memVars
    <3>2. RestTypes'
      BY <1>1, <1>3, <1>4, <1>5, <1>8, <2>1 DEF RestTypes
    <3>. QED BY <3>1, <3>2 DEF TypeOK, StoreTypes, RestTypes
  <2>3. RequestsConsistent' /\ NoDoubt' /\ TotalExact'
    BY <1>1, <1>8, <2>1 DEF RequestsConsistent, NoDoubt, TotalExact, memVars, StoreTypes
  <2>4. StopsSound' /\ RecoverySound' /\ PullerSound'
    BY <1>1, <1>3, <1>8 DEF StopsSound, RecoverySound, PullerSound, memVars
  <2>. QED BY <2>1, <2>2, <2>3, <2>4 DEF IInv
<1>. QED BY <1>6, <1>7, <1>8 DEF Call

\* A framework that is put is stored and counted in one.
LEMMA PutKeeps ==
    ASSUME IInv, NEW f \in Frameworks, PutFramework(f)
    PROVE  IInv'
<1>1. PICK p \in ParentsOf[f], type \in ExecutionTypes, n \in 0 .. MaxTasks, v \in Versions :
          Call(f, [ parent |-> p, executionType |-> type, taskNumber |-> n, version |-> v ])
  BY DEF PutFramework
<1>2. PICK r \in Requests :
          /\ r = [ parent |-> p, executionType |-> type, taskNumber |-> n, version |-> v ]
          /\ r.version = v
  <2>1. p \in Parents \cup { None }
    BY LauncherAssumption
  <2>2. [ parent |-> p, executionType |-> type, taskNumber |-> n, version |-> v ] \in Requests
    BY <2>1 DEF Requests
  <2>. QED BY <2>2
<1>. QED BY <1>1, <1>2, CallKeeps

\* So is a new number of tasks.
LEMMA UpdateTaskNumberKeeps ==
    ASSUME IInv, NEW f \in Frameworks, UpdateTaskNumber(f)
    PROVE  IInv'
<1>1. PICK n \in 0 .. MaxTasks :
          Exists(f) /\ Call(f, [ requests[f] EXCEPT !.taskNumber = n ])
  BY DEF UpdateTaskNumber
<1>2. requests[f] \in Requests
  BY <1>1 DEF IInv, TypeOK, Exists
<1>3. /\ [ requests[f] EXCEPT !.taskNumber = n ] \in Requests
      /\ [ requests[f] EXCEPT !.taskNumber = n ].version = requests[f].version
  BY <1>2 DEF Requests
<1>4. PICK r \in Requests : /\ r = [ requests[f] EXCEPT !.taskNumber = n ]
                            /\ r.version = requests[f].version
  BY <1>3
<1>. QED BY <1>1, <1>4, CallKeeps

\* A new execution type changes no count of tasks, and its children are stopped with it.
LEMMA UpdateExecutionTypeKeeps ==
    ASSUME IInv, NEW f \in Frameworks, UpdateExecutionType(f)
    PROVE  IInv'
<1>1. PICK type \in ExecutionTypes :
          Exists(f) /\ Call(f, [ requests[f] EXCEPT !.executionType = type ])
  BY DEF UpdateExecutionType
<1>2. requests[f] \in Requests
  BY <1>1 DEF IInv, TypeOK, Exists
<1>3. /\ [ requests[f] EXCEPT !.executionType = type ] \in Requests
      /\ [ requests[f] EXCEPT !.executionType = type ].version = requests[f].version
  BY <1>2 DEF Requests
<1>4. PICK r \in Requests : /\ r = [ requests[f] EXCEPT !.executionType = type ]
                            /\ r.version = requests[f].version
  BY <1>3
<1>. QED BY <1>1, <1>4, CallKeeps

\* The parts that a deletion by whoever holds the lock keeps.
LEMMA DeletionKeeps ==
    ASSUME IInv, NEW f \in Frameworks, DeleteInternal(f),
           UNCHANGED << doubtful, failures, statuses, pulled, zkStatuses, asked, again >>
    PROVE  /\ StoreTypes' /\ RequestsConsistent' /\ NoDoubt' /\ TotalExact'
           /\ failures = 0 => \A g \in Frameworks : VersionsSound(g)'
           /\ StopOrphansIn(requests) = {} => StopOrphansIn(requests') = {}
<1>1. StoreTypes /\ RequestsConsistent /\ TotalExact /\ NoDoubt
  BY Types DEF IInv
<1>2. /\ StoreTypes'
      /\ \A g \in Frameworks \ doubtful :
             requests'[g] = zkRequests'[g] /\ marks'[g] = zkMarks'[g]
      /\ totalTaskNumber' = TotalOf(requests') /\ totalTaskNumber' <= totalTaskNumber
      /\ requests' = [ requests EXCEPT ![f] = None ]
  BY <1>1, DeleteKeepsStore
<1>3. totalTaskNumber \in Nat /\ totalTaskNumber' \in Nat
  BY <1>1, <1>2 DEF StoreTypes
<1>4. RequestsConsistent' /\ NoDoubt' /\ TotalExact'
  BY <1>1, <1>2, <1>3, LauncherAssumption DEF RequestsConsistent, NoDoubt, TotalExact
<1>5. ASSUME failures = 0, NEW g \in Frameworks PROVE VersionsSound(g)'
  <2>1. requests'[g] # None => Exists(g) /\ requests'[g].version = requests[g].version
    BY <1>1, <1>2 DEF StoreTypes, Exists
  <2>. QED BY <1>5, <2>1, VersionsKept DEF IInv
<1>6. StopOrphansIn(requests) = {} => StopOrphansIn(requests') = {}
  BY <1>1, <1>2, DeletionStopsNone DEF StoreTypes
<1>. QED BY <1>2, <1>4, <1>5, <1>6

\* A framework that is deleted is counted no more.
LEMMA DeleteFrameworkKeeps ==
    ASSUME IInv, NEW f \in Frameworks, DeleteFramework(f)
    PROVE  IInv'
<1>1. /\ StoreTypes /\ RestTypes /\ RequestsConsistent /\ NoDoubt /\ TotalExact
      /\ StopsSound /\ PullerSound
  BY Types DEF IInv
<1>2. /\ phase = "idle" /\ ops < MaxOps /\ ops' = ops + 1
      /\ UNCHANGED << statuses, puller, reuse, collecting, pulled, zkStatuses, retained,
                      crashes, interrupted, asked, again >>
  BY DEF DeleteFramework, Serving, quietVars, pullVars, srvVars
<1>3. ops' \in 0 .. MaxOps
  BY <1>1, <1>2, LauncherAssumption DEF RestTypes
<1>4. CASE /\ DeleteInternal(f)
           /\ phase' = IF Exists(f) THEN "idle" ELSE "delete"
           /\ UNCHANGED << doubtful, failures >>
  <2>1. /\ StoreTypes' /\ RequestsConsistent' /\ NoDoubt' /\ TotalExact'
        /\ failures = 0 => \A g \in Frameworks : VersionsSound(g)'
        /\ StopOrphansIn(requests) = {} => StopOrphansIn(requests') = {}
    BY <1>2, <1>4, DeletionKeeps
  <2>2. phase' \in { "idle", "delete" }
    BY <1>4
  <2>3. RestTypes'
    BY <1>1, <1>2, <1>3, <1>4, <2>2 DEF RestTypes, Deleting
  <2>4. TypeOK'
    BY <2>1, <2>3 DEF TypeOK, StoreTypes, RestTypes
  <2>5. StopsSound'
    BY <1>1, <1>2, <2>1 DEF StopsSound
  <2>6. RecoverySound' /\ PullerSound'
    BY <1>1, <1>2, <2>2 DEF RecoverySound, PullerSound
  <2>. QED BY <1>4, <2>1, <2>4, <2>5, <2>6 DEF IInv
<1>5. CASE /\ failures < MaxFailures /\ failures' = failures + 1
           /\ doubtful' = doubtful \cup { f }
           /\ zkMarks' = [ zkMarks EXCEPT ![f] = {} ]
           /\ zkRequests' \in { zkRequests, [ zkRequests EXCEPT ![f] = None ] }
           /\ UNCHANGED << memVars, phase >>
  <2>1. failures' # 0 /\ failures' \in 0 .. MaxFailures
    BY <1>1, <1>5, LauncherAssumption DEF RestTypes
  <2>2. /\ zkRequests' \in [ Frameworks -> Requests \cup { None } ]
        /\ zkMarks' \in [ Frameworks -> SUBSET Marks ]
        /\ \A g \in Frameworks \ { f } : zkRequests'[g] = zkRequests[g] /\ zkMarks'[g] = zkMarks[g]
    BY <1>1, <1>5 DEF StoreTypes
  <2>3. StoreTypes'
    BY <1>1, <1>5, <2>2 DEF StoreTypes, memVars
  <2>4. RestTypes'
    BY <1>1, <1>2, <1>3, <1>5, <2>1 DEF RestTypes
  <2>5. TypeOK'
    BY <2>3, <2>4 DEF TypeOK, StoreTypes, RestTypes
  <2>6. RequestsConsistent' /\ NoDoubt' /\ TotalExact'
    BY <1>1, <1>5, <2>1, <2>2 DEF RequestsConsistent, NoDoubt, TotalExact, memVars
  <2>7. StopsSound' /\ RecoverySound' /\ PullerSound'
    BY <1>1, <1>2, <1>5 DEF StopsSound, RecoverySound, PullerSound, memVars
  <2>. QED BY <2>1, <2>5, <2>6, <2>7 DEF IInv
<1>. QED BY <1>4, <1>5 DEF DeleteFramework

\* A write of the further requests of f, which leaves everything else alone.
LEMMA MarkKeeps ==
    ASSUME IInv, NEW f \in Frameworks, NEW ms \in SUBSET Marks, NEW zms \in SUBSET Marks,
           f \notin doubtful => ms = zms, Serving, Remember(f, ms),
           zkMarks' = [ zkMarks EXCEPT ![f] = zms ],
           UNCHANGED << quietVars, requests, totalTaskNumber, zkRequests, phase,
                        interrupted, asked, again >>
    PROVE  IInv'
<1>1. /\ StoreTypes /\ RestTypes /\ RequestsConsistent /\ NoDoubt /\ TotalExact
      /\ StopsSound /\ PullerSound
  BY Types DEF IInv
<1>2. /\ phase = "idle" /\ ops < MaxOps /\ ops' = ops + 1
      /\ UNCHANGED << statuses, puller, reuse, collecting, pulled, zkStatuses, retained,
                      crashes, requests, totalTaskNumber, zkRequests, phase,
                      interrupted, asked, again >>
  BY DEF Remember, Serving, quietVars, pullVars, srvVars
<1>3. ops' \in 0 .. MaxOps
  BY <1>1, <1>2, LauncherAssumption DEF RestTypes
<1>4. /\ StopsSound' /\ RecoverySound' /\ PullerSound'
  BY <1>1, <1>2 DEF StopsSound, RecoverySound, PullerSound
<1>5. zkMarks' \in [ Frameworks -> SUBSET Marks ]
  BY <1>1 DEF StoreTypes
<1>6. CASE marks' = [ marks EXCEPT ![f] = ms ] /\ UNCHANGED << doubtful, failures >>
  <2>1. TypeOK'
    <3>1. StoreTypes'
      BY <1>1, <1>2, <1>5, <1>6 DEF StoreTypes
    <3>2. RestTypes'
      BY <1>1, <1>2, <1>3, <1>6 DEF RestTypes
    <3>. QED BY <3>1, <3>2 DEF TypeOK, StoreTypes, RestTypes
  <2>2. RequestsConsistent'
    BY <1>1, <1>2, <1>6 DEF RequestsConsistent, StoreTypes
  <2>3. NoDoubt' /\ TotalExact'
    BY <1>1, <1>2, <1>6 DEF NoDoubt, TotalExact
  <2>4. ASSUME failures' = 0, NEW g \in Frameworks PROVE VersionsSound(g)'
    BY <1>2, <1>6, <2>4, VersionsKept DEF IInv, Exists
  <2>. QED BY <1>4, <2>1, <2>2, <2>3, <2>4 DEF IInv
<1>7. CASE /\ failures < MaxFailures /\ failures' = failures + 1
           /\ doubtful' = doubtful \cup { f } /\ UNCHANGED marks
  <2>1. failures' # 0 /\ failures' \in 0 .. MaxFailures
    BY <1>1, <1>7, LauncherAssumption DEF RestTypes
  <2>2. TypeOK'
    <3>1. StoreTypes'
      BY <1>1, <1>2, <1>5, <1>7 DEF StoreTypes
    <3>2. RestTypes'
      BY <1>1, <1>2, <1>3, <1>7, <2>1 DEF RestTypes
    <3>. QED BY <3>1, <3>2 DEF TypeOK, StoreTypes, RestTypes
  <2>3. RequestsConsistent'
    BY <1>1, <1>2, <1>7 DEF RequestsConsistent, StoreTypes
  <2>4. NoDoubt' /\ TotalExact'
    BY <1>1, <1>2, <2>1 DEF NoDoubt, TotalExact
  <2>. QED BY <1>4, <2>1, <2>2, <2>3, <2>4 DEF IInv
<1>. QED BY <1>6, <1>7 DEF Remember

\* What an AM sets is no part of the total.
LEMMA UpdateMarkKeeps ==
    ASSUME IInv, NEW f \in Frameworks, UpdateMark(f)
    PROVE  IInv'
<1>1. /\ Serving
      /\ UNCHANGED << quietVars, requests, totalTaskNumber, zkRequests, phase,
                      interrupted, asked, again >>
  BY DEF UpdateMark
<1>2. PICK m \in Marks :
          /\ zkMarks' = [ zkMarks EXCEPT ![f] = zkMarks[f] \cup { m } ]
          /\ Remember(f, marks[f] \cup { m })
  BY DEF UpdateMark
<1>3. marks[f] \cup { m } \in SUBSET Marks /\ zkMarks[f] \cup { m } \in SUBSET Marks
  BY DEF IInv, TypeOK
<1>4. f \notin doubtful => marks[f] \cup { m } = zkMarks[f] \cup { m }
  BY DEF IInv, RequestsConsistent
<1>5. PICK ms \in SUBSET Marks : ms = marks[f] \cup { m }
  BY <1>3
<1>6. PICK zms \in SUBSET Marks : zms = zkMarks[f] \cup { m }
  BY <1>3
<1>. QED BY <1>1, <1>2, <1>4, <1>5, <1>6, MarkKeeps

\* Nor is what it takes back.
LEMMA DeleteMarkKeeps ==
    ASSUME IInv, NEW f \in Frameworks, DeleteMark(f)
    PROVE  IInv'
<1>1. /\ Serving
      /\ UNCHANGED << quietVars, requests, totalTaskNumber, zkRequests, phase,
                      interrupted, asked, again >>
  BY DEF DeleteMark
<1>2. PICK m \in Marks :
          /\ zkMarks' = [ zkMarks EXCEPT ![f] = zkMarks[f] \ { m } ]
          /\ Remember(f, marks[f] \ { m })
  BY DEF DeleteMark
<1>3. marks[f] \ { m } \in SUBSET Marks /\ zkMarks[f] \ { m } \in SUBSET Marks
  BY DEF IInv, TypeOK
<1>4. f \notin doubtful => marks[f] \ { m } = zkMarks[f] \ { m }
  BY DEF IInv, RequestsConsistent
<1>5. PICK ms \in SUBSET Marks : ms = marks[f] \ { m }
  BY <1>3
<1>6. PICK zms \in SUBSET Marks : zms = zkMarks[f] \ { m }
  BY <1>3
<1>. QED BY <1>1, <1>2, <1>4, <1>5, <1>6, MarkKeeps

-----------------------------------------------------------------------------
(* Child frameworks *)

\* A child that is stopped is no longer to be stopped.
LEMMA StopOrphanKeeps ==
    ASSUME IInv, StopOrphan
    PROVE  IInv'
<1>1. /\ StoreTypes /\ RestTypes /\ RequestsConsistent /\ NoDoubt /\ TotalExact
      /\ PullerSound
  BY Types DEF IInv
<1>2. PICK f \in StopOrphansIn(requests) :
          SetFrameworkRequest(f, [ requests[f] EXCEPT !.executionType = "STOP" ])
  BY DEF StopOrphan
<1>3. /\ phase \in Stopping
      /\ UNCHANGED << phase, statuses, puller, reuse, collecting, pulled, zkStatuses, retained,
                      doubtful, interrupted, asked, again, ops, crashes, failures >>
  BY DEF StopOrphan, pullVars, srvVars, cntVars
<1>4. f \in Frameworks /\ requests[f] # None /\ requests[f] \in Requests
  BY <1>1 DEF StopOrphansIn, StoreTypes
<1>5. /\ [ requests[f] EXCEPT !.executionType = "STOP" ] \in Requests
      /\ [ requests[f] EXCEPT !.executionType = "STOP" ].version = requests[f].version
      /\ [ requests[f] EXCEPT !.executionType = "STOP" ].parent = requests[f].parent
  BY <1>4 DEF Requests, ExecutionTypes
<1>6. PICK r \in Requests : /\ r = [ requests[f] EXCEPT !.executionType = "STOP" ]
                            /\ r.version = requests[f].version
                            /\ r.parent = requests[f].parent
  BY <1>5
<1>7. PICK s \in Requests : s = Stored(r) /\ s.version = r.version /\ s.parent = r.parent
  BY StoredType
<1>8. /\ StoreTypes'
      /\ \A g \in Frameworks \ doubtful :
             requests'[g] = zkRequests'[g] /\ marks'[g] = zkMarks'[g]
      /\ totalTaskNumber' = TotalOf(requests')
      /\ totalTaskNumber' <= MaxTotalTaskNumber
      /\ requests' = [ requests EXCEPT ![f] = s ]
  BY <1>1, <1>2, <1>4, <1>6, <1>7, SetKeepsStore
<1>9. RestTypes'
  BY <1>1, <1>3 DEF RestTypes
<1>10. TypeOK'
  BY <1>8, <1>9 DEF TypeOK, StoreTypes, RestTypes
<1>11. RequestsConsistent' /\ NoDoubt' /\ TotalExact'
  BY <1>1, <1>3, <1>8 DEF RequestsConsistent, NoDoubt, TotalExact
<1>12. StopsSound' /\ PullerSound'
  BY <1>1, <1>3 DEF StopsSound, PullerSound, Stopping
<1>13. requests'[f] = s /\ \A g \in Frameworks \ { f } : requests'[g] = requests[g]
  BY <1>1, <1>4, <1>8 DEF StoreTypes
<1>14. \A x : (requests'[x] = None) <=> (requests[x] = None)
  <2>1. \A x : requests'[x] = requests[x] \/ (x = f /\ requests'[x] = s)
    BY <1>1, <1>8 DEF StoreTypes
  <2>. QED BY <1>4, <2>1, NoneIsNeither
<1>15. \A g \in Frameworks : requests[g] # None =>
          /\ requests'[g].parent = requests[g].parent
          /\ requests'[g].version = requests[g].version
  BY <1>6, <1>7, <1>13
<1>16. DeleteOrphans' = DeleteOrphans
  BY <1>14, <1>15 DEF DeleteOrphans, HasParent, ParentOf, Exists
<1>17. RecoverySound'
  BY <1>3, <1>16 DEF IInv, RecoverySound
<1>18. ASSUME failures' = 0, NEW g \in Frameworks PROVE VersionsSound(g)'
  BY <1>3, <1>14, <1>15, <1>18, VersionsKept DEF IInv, Exists
<1>. QED BY <1>10, <1>11, <1>12, <1>17, <1>18 DEF IInv

\* One that could not be stopped stays in the list that is tried again.
LEMMA StopOrphanFailsKeeps ==
    ASSUME IInv, StopOrphanFails
    PROVE  IInv'
<1>1. /\ StoreTypes /\ RestTypes /\ RequestsConsistent /\ NoDoubt /\ TotalExact
      /\ PullerSound
  BY Types DEF IInv
<1>2. PICK f \in StopOrphansIn(requests) :
          /\ doubtful' = doubtful \cup { f }
          /\ zkRequests' \in
                 { zkRequests,
                   [ zkRequests EXCEPT ![f] = [ requests[f] EXCEPT !.executionType = "STOP" ] ] }
  BY DEF StopOrphanFails
<1>3. /\ phase = "stop" /\ phase' = "idle" /\ interrupted' = TRUE
      /\ failures < MaxFailures /\ failures' = failures + 1
      /\ UNCHANGED << requests, marks, totalTaskNumber, zkMarks, statuses, puller, reuse,
                      collecting, pulled, zkStatuses, retained, asked, again, ops, crashes >>
  BY DEF StopOrphanFails, memVars, pullVars, srvVars
<1>4. f \in Frameworks /\ requests[f] \in Requests
  BY <1>1 DEF StopOrphansIn, StoreTypes
<1>5. failures' # 0 /\ failures' \in 0 .. MaxFailures
  BY <1>1, <1>3, LauncherAssumption DEF RestTypes
<1>6. [ requests[f] EXCEPT !.executionType = "STOP" ] \in Requests
  BY <1>4 DEF Requests, ExecutionTypes
<1>7. /\ zkRequests' \in [ Frameworks -> Requests \cup { None } ]
      /\ \A g \in Frameworks \ { f } : zkRequests'[g] = zkRequests[g]
  BY <1>1, <1>2, <1>6 DEF StoreTypes
<1>8. StoreTypes'
  BY <1>1, <1>3, <1>7 DEF StoreTypes
<1>9. RestTypes'
  BY <1>1, <1>2, <1>3, <1>4, <1>5 DEF RestTypes
<1>10. TypeOK'
  BY <1>8, <1>9 DEF TypeOK, StoreTypes, RestTypes
<1>11. RequestsConsistent' /\ NoDoubt' /\ TotalExact'
  BY <1>1, <1>2, <1>3, <1>5, <1>7 DEF RequestsConsistent, NoDoubt, TotalExact
<1>12. StopsSound' /\ RecoverySound' /\ PullerSound'
  BY <1>1, <1>3 DEF StopsSound, RecoverySound, PullerSound
<1>. QED BY <1>5, <1>10, <1>11, <1>12 DEF IInv

\* A step that moves the holder of the lock or the thread of the StatusManager on,
\* and leaves all requests, statuses and counts alone.
LEMMA StepKeeps ==
    ASSUME IInv, RestTypes', StopsSound', RecoverySound', PullerSound',
           UNCHANGED << memVars, zkVars, statuses, srvVars, doubtful, cntVars >>
    PROVE  IInv'
<1>1. UNCHANGED << requests, marks, totalTaskNumber, zkRequests, zkMarks, statuses, pulled,
                   zkStatuses, retained, doubtful, asked, again, ops, crashes, failures >>
  BY DEF memVars, zkVars, srvVars, cntVars
<1>2. TypeOK'
  BY <1>1 DEF IInv, TypeOK, RestTypes
<1>3. RequestsConsistent' /\ NoDoubt' /\ TotalExact'
  BY <1>1 DEF IInv, RequestsConsistent, NoDoubt, TotalExact
<1>4. ASSUME failures' = 0, NEW g \in Frameworks PROVE VersionsSound(g)'
  BY <1>1, <1>4, VersionsKept DEF IInv, Exists
<1>. QED BY <1>2, <1>3, <1>4 DEF IInv

\* So does one that is over the rate.
LEMMA StopOrphanThrottledKeeps ==
    ASSUME IInv, StopOrphanThrottled
    PROVE  IInv'
<1>1. /\ phase \in Stopping /\ phase' \in { "idle", "failed" } /\ interrupted' = TRUE
      /\ UNCHANGED << memVars, zkVars, pullVars, collecting, srvVars, doubtful, cntVars >>
  BY DEF StopOrphanThrottled
<1>2. RestTypes'
  BY <1>1 DEF IInv, TypeOK, RestTypes, pullVars, srvVars, cntVars
<1>3. StopsSound' /\ RecoverySound' /\ PullerSound'
  BY <1>1 DEF IInv, StopsSound, RecoverySound, PullerSound, Stopping, pullVars
<1>. QED BY <1>1, <1>2, <1>3, StepKeeps DEF pullVars

\* The list is at its end.
LEMMA NoMoreToStopKeeps ==
    ASSUME IInv, NoMoreToStop
    PROVE  IInv'
<1>1. /\ phase \in Stopping /\ phase' = "idle" /\ interrupted' = FALSE
      /\ StopOrphansIn(requests) = {}
      /\ UNCHANGED << memVars, zkVars, pullVars, collecting, srvVars, doubtful, cntVars >>
  BY DEF NoMoreToStop
<1>2. RestTypes'
  BY <1>1 DEF IInv, TypeOK, RestTypes, pullVars, srvVars, cntVars
<1>3. StopsSound' /\ RecoverySound' /\ PullerSound'
  BY <1>1 DEF IInv, StopsSound, RecoverySound, PullerSound, Stopping, pullVars, memVars
<1>. QED BY <1>1, <1>2, <1>3, StepKeeps DEF pullVars

\* A child that is deleted is gone from the store and from the count.
LEMMA DeleteOrphanKeeps ==
    ASSUME IInv, DeleteOrphan
    PROVE  IInv'
<1>1. PICK f \in DeleteOrphans : DeleteInternal(f)
  BY DEF DeleteOrphan
<1>2. /\ phase \in Deleting
      /\ UNCHANGED << phase, statuses, puller, reuse, collecting, pulled, zkStatuses, retained,
                      doubtful, interrupted, asked, again, ops, crashes, failures >>
  BY DEF DeleteOrphan, pullVars, srvVars, cntVars
<1>3. f \in Frameworks
  BY DEF DeleteOrphans
<1>4. /\ StoreTypes' /\ RequestsConsistent' /\ NoDoubt' /\ TotalExact'
      /\ failures = 0 => \A g \in Frameworks : VersionsSound(g)'
      /\ StopOrphansIn(requests) = {} => StopOrphansIn(requests') = {}
  BY <1>1, <1>2, <1>3, DeletionKeeps
<1>5. TypeOK'
  BY <1>2, <1>4 DEF IInv, TypeOK, StoreTypes
<1>6. StopsSound' /\ RecoverySound' /\ PullerSound'
  BY <1>2, <1>4 DEF IInv, StopsSound, RecoverySound, PullerSound, Deleting
<1>. QED BY <1>2, <1>4, <1>5, <1>6 DEF IInv

\* The second list is at its end.
LEMMA NoMoreToDeleteKeeps ==
    ASSUME IInv, NoMoreToDelete
    PROVE  IInv'
<1>1. /\ phase \in Deleting /\ DeleteOrphans = {}
      /\ phase' = IF phase = "recoverDelete" THEN "recoverStop" ELSE "idle"
      /\ UNCHANGED << memVars, zkVars, pullVars, collecting, srvVars, doubtful,
                      interrupted, cntVars >>
  BY DEF NoMoreToDelete
<1>2. RestTypes'
  BY <1>1 DEF IInv, TypeOK, RestTypes, Stopping, pullVars, srvVars, cntVars
<1>3. DeleteOrphans' = {}
  BY <1>1 DEF DeleteOrphans, HasParent, ParentOf, Exists, memVars
<1>4. StopsSound' /\ RecoverySound' /\ PullerSound'
  BY <1>1, <1>3 DEF IInv, StopsSound, RecoverySound, PullerSound, Deleting, pullVars, memVars
<1>. QED BY <1>1, <1>2, <1>4, StepKeeps DEF pullVars

-----------------------------------------------------------------------------
(* The thread of the StatusManager *)

\* The collection of the completed frameworks begins with a list of them.
LEMMA CollectKeeps ==
    ASSUME IInv, Collect
    PROVE  IInv'
<1>1. /\ puller = "collect" /\ phase = "idle" /\ puller' = "reuse" /\ phase' = "collect"
      /\ collecting' = { f \in Frameworks : Completed(statuses[f]) }
      /\ UNCHANGED << memVars, zkVars, statuses, reuse, srvVars, doubtful, interrupted, cntVars >>
  BY DEF Collect
<1>2. RestTypes'
  BY <1>1 DEF IInv, TypeOK, RestTypes, srvVars, cntVars
<1>3. StopsSound' /\ RecoverySound' /\ PullerSound'
  BY <1>1 DEF IInv, StopsSound, RecoverySound, PullerSound, memVars
<1>. QED BY <1>1, <1>2, <1>3, StepKeeps

\* It goes through the list one by one.
LEMMA CollectNextKeeps ==
    ASSUME IInv, CollectNext
    PROVE  IInv'
<1>1. PICK f \in collecting :
          /\ collecting' = collecting \ { f }
          /\ IF Collectable(f) THEN DeleteInternal(f) ELSE UNCHANGED << memVars, zkVars >>
  BY DEF CollectNext
<1>2. /\ phase = "collect"
      /\ UNCHANGED << phase, statuses, puller, reuse, pulled, zkStatuses, retained,
                      doubtful, interrupted, asked, again, ops, crashes, failures >>
  BY DEF CollectNext, pullVars, srvVars, cntVars
<1>3. f \in Frameworks
  BY DEF IInv, TypeOK
<1>4. PullerSound' /\ RecoverySound'
  BY <1>1, <1>2 DEF IInv, PullerSound, RecoverySound
<1>5. CASE DeleteInternal(f)
  <2>1. /\ StoreTypes' /\ RequestsConsistent' /\ NoDoubt' /\ TotalExact'
        /\ failures = 0 => \A g \in Frameworks : VersionsSound(g)'
        /\ StopOrphansIn(requests) = {} => StopOrphansIn(requests') = {}
    BY <1>2, <1>3, <1>5, DeletionKeeps
  <2>2. TypeOK'
    BY <1>1, <1>2, <2>1 DEF IInv, TypeOK, StoreTypes
  <2>3. StopsSound'
    BY <1>2, <2>1 DEF IInv, StopsSound
  <2>. QED BY <1>2, <1>4, <2>1, <2>2, <2>3 DEF IInv
<1>6. CASE UNCHANGED << memVars, zkVars >>
  <2>1. RestTypes'
    BY <1>1, <1>2 DEF IInv, TypeOK, RestTypes
  <2>2. StopsSound'
    BY <1>2, <1>6 DEF IInv, StopsSound, memVars
  <2>. QED BY <1>2, <1>4, <1>6, <2>1, <2>2, StepKeeps DEF srvVars, cntVars
<1>. QED BY <1>1, <1>5, <1>6

\* Then it is over.
LEMMA CollectDoneKeeps ==
    ASSUME IInv, CollectDone
    PROVE  IInv'
<1>1. /\ phase = "collect" /\ collecting = {} /\ phase' = "idle"
      /\ UNCHANGED << memVars, zkVars, pullVars, collecting, srvVars, doubtful,
                      interrupted, cntVars >>
  BY DEF CollectDone
<1>2. RestTypes'
  BY <1>1 DEF IInv, TypeOK, RestTypes, pullVars, srvVars, cntVars
<1>3. StopsSound' /\ RecoverySound' /\ PullerSound'
  BY <1>1 DEF IInv, StopsSound, RecoverySound, PullerSound, pullVars, memVars
<1>. QED BY <1>1, <1>2, <1>3, StepKeeps DEF pullVars

\* A status is used again only if it is of the version that is requested.
LEMMA ChooseReusableKeeps ==
    ASSUME IInv, ChooseReusable
    PROVE  IInv'
<1>1. /\ puller = "reuse" /\ phase = "idle" /\ reuse' = Reusable /\ puller' = "pull"
      /\ UNCHANGED << memVars, zkVars, phase, statuses, collecting, srvVars, doubtful,
                      interrupted, cntVars >>
  BY DEF ChooseReusable
<1>2. RestTypes'
  BY <1>1 DEF IInv, TypeOK, RestTypes, Reusable, srvVars, cntVars
<1>3. DeleteOrphans' = DeleteOrphans
  BY <1>1 DEF DeleteOrphans, HasParent, ParentOf, Exists, memVars
<1>4. StopsSound' /\ RecoverySound' /\ PullerSound'
  BY <1>1, <1>3 DEF IInv, StopsSound, RecoverySound, PullerSound, Reusable, memVars
<1>. QED BY <1>1, <1>2, <1>4, StepKeeps

\* A step after which f has a status of ZooKeeper or the one it had.
LEMMA StatusesKept ==
    ASSUME NEW f \in Frameworks, VersionsSound(f),
           statuses'[f] = zkStatuses[f] \/ statuses'[f] = statuses[f] \/ statuses'[f] = None,
           UNCHANGED << requests, pulled, zkStatuses, asked, again >>
    PROVE  VersionsSound(f)'
BY DEF VersionsSound, Once, Exists, Completed

\* A new set of statuses.
LEMMA StatusesKeep ==
    ASSUME IInv, RestTypes', PullerSound',
           \A f \in Frameworks : statuses'[f] = zkStatuses[f] \/ statuses'[f] = statuses[f],
           UNCHANGED << memVars, zkVars, phase, srvVars, doubtful, interrupted, cntVars >>
    PROVE  IInv'
<1>1. UNCHANGED << requests, marks, totalTaskNumber, zkRequests, zkMarks, phase, pulled,
                   zkStatuses, retained, doubtful, interrupted, asked, again, ops, crashes, failures >>
  BY DEF memVars, zkVars, srvVars, cntVars
<1>2. TypeOK'
  BY <1>1 DEF IInv, TypeOK, RestTypes
<1>3. RequestsConsistent' /\ NoDoubt' /\ TotalExact' /\ StopsSound'
  BY <1>1 DEF IInv, RequestsConsistent, NoDoubt, TotalExact, StopsSound
<1>4. DeleteOrphans' = DeleteOrphans
  BY <1>1 DEF DeleteOrphans, HasParent, ParentOf, Exists
<1>5. RecoverySound'
  BY <1>1, <1>4 DEF IInv, RecoverySound
<1>6. ASSUME failures' = 0, NEW g \in Frameworks PROVE VersionsSound(g)'
  BY <1>1, <1>6, StatusesKept DEF IInv
<1>. QED BY <1>2, <1>3, <1>5, <1>6 DEF IInv

\* After a start the statuses are those of the store.
LEMMA RecoverStatusesKeeps ==
    ASSUME IInv, RecoverStatuses
    PROVE  IInv'
<1>1. /\ puller = "recover" /\ phase = "idle" /\ statuses' = zkStatuses /\ puller' = "collect"
      /\ UNCHANGED << memVars, zkVars, phase, reuse, collecting, srvVars, doubtful,
                      interrupted, cntVars >>
  BY DEF RecoverStatuses
<1>2. RestTypes'
  BY <1>1 DEF IInv, TypeOK, RestTypes, srvVars, cntVars
<1>3. PullerSound'
  BY <1>1 DEF IInv, PullerSound
<1>. QED BY <1>1, <1>2, <1>3, StatusesKeep

\* A status that is pulled is the one the store has.
LEMMA PullKeeps ==
    ASSUME IInv, Pull
    PROVE  IInv'
<1>1. /\ puller = "pull" /\ reuse' = {} /\ puller' = "collect"
      /\ statuses' = [ f \in Frameworks |-> IF f \in reuse THEN statuses[f] ELSE zkStatuses[f] ]
      /\ UNCHANGED << memVars, zkVars, phase, collecting, srvVars, doubtful, interrupted, cntVars >>
  BY DEF Pull
<1>2. statuses' \in [ Frameworks -> Statuses \cup { None } ]
  BY <1>1 DEF IInv, TypeOK
<1>3. RestTypes'
  BY <1>1, <1>2 DEF IInv, TypeOK, RestTypes, srvVars, cntVars
<1>4. PullerSound'
  BY <1>1 DEF IInv, PullerSound
<1>. QED BY <1>1, <1>3, <1>4, StatusesKeep

-----------------------------------------------------------------------------
(* A restart, and the Service *)

\* A restart reads the requests from the store, and counts them anew.
LEMMA RestartKeeps ==
    ASSUME IInv, Restart
    PROVE  IInv'
<1>1. /\ crashes < MaxCrashes /\ crashes' = crashes + 1
      /\ requests' = zkRequests /\ marks' = zkMarks'
      /\ totalTaskNumber' = TotalOf(zkRequests)
      /\ phase' = "recoverDelete" /\ puller' = "recover"
      /\ statuses' = [ f \in Frameworks |-> None ]
      /\ reuse' = {} /\ collecting' = {} /\ doubtful' = {} /\ interrupted' = FALSE
      /\ UNCHANGED << zkRequests, pulled, zkStatuses, retained, asked, again, ops, failures >>
  BY DEF Restart, srvVars
<1>2. PICK fs \in { {} } \cup { { f } : f \in BeingDeleted } :
          zkMarks' = [ f \in Frameworks |-> IF f \in fs THEN {} ELSE zkMarks[f] ]
  BY DEF Restart
<1>3. zkMarks' \in [ Frameworks -> SUBSET Marks ]
  BY <1>2 DEF IInv, TypeOK
<1>4. TotalOf(zkRequests) \in Nat
  BY TotalIsNumber DEF IInv, TypeOK
<1>5. crashes' \in 0 .. MaxCrashes
  BY <1>1, LauncherAssumption DEF IInv, TypeOK
<1>6. StoreTypes'
  BY <1>1, <1>3, <1>4 DEF IInv, TypeOK, StoreTypes
<1>7. RestTypes'
  BY <1>1, <1>5 DEF IInv, TypeOK, RestTypes, Deleting
<1>8. TypeOK'
  BY <1>6, <1>7 DEF TypeOK, StoreTypes, RestTypes
<1>9. RequestsConsistent' /\ NoDoubt'
  BY <1>1 DEF RequestsConsistent, NoDoubt
<1>10. failures = 0 => requests' = requests
  <2>1. failures = 0 => \A f \in Frameworks : requests[f] = zkRequests[f]
    BY DEF IInv, RequestsConsistent, NoDoubt
  <2>2. /\ requests \in [ Frameworks -> Requests \cup { None } ]
        /\ zkRequests \in [ Frameworks -> Requests \cup { None } ]
    BY DEF IInv, TypeOK
  <2>3. failures = 0 => requests = zkRequests
    BY <2>1, <2>2
  <2>. QED BY <1>1, <2>3
<1>11. TotalExact'
  <2>1. totalTaskNumber' = TotalOf(requests')
    BY <1>1
  <2>2. failures' = 0 => totalTaskNumber' <= MaxTotalTaskNumber
    BY <1>1, <1>10 DEF IInv, TotalExact
  <2>. QED BY <2>1, <2>2 DEF TotalExact
<1>12. StopsSound' /\ RecoverySound' /\ PullerSound'
  BY <1>1 DEF StopsSound, RecoverySound, PullerSound
<1>13. ASSUME failures' = 0, NEW g \in Frameworks PROVE VersionsSound(g)'
  <2>1. UNCHANGED << requests, pulled, zkStatuses, asked, again >> /\ statuses'[g] = None
    BY <1>1, <1>10, <1>13
  <2>. QED BY <1>1, <1>13, <2>1, StatusesKept DEF IInv
<1>. QED BY <1>8, <1>9, <1>11, <1>12, <1>13 DEF IInv

\* What the Service does leaves the launcher alone.
LEMMA ServiceKeeps ==
    ASSUME IInv, pulled' \in [ Frameworks -> 0 .. MaxVersion ],
           zkStatuses' \in [ Frameworks -> Statuses \cup { None } ],
           retained' \subseteq Frameworks \X Versions,
           failures = 0 => \A f \in Frameworks : VersionsSound(f)',
           UNCHANGED << memVars, zkVars, phase, pullVars, collecting, doubtful, interrupted,
                        cntVars >>
    PROVE  IInv'
<1>1. UNCHANGED << requests, marks, totalTaskNumber, zkRequests, zkMarks, phase, statuses,
                   puller, reuse, collecting, doubtful, interrupted, asked, again, ops, crashes,
                   failures >>
  BY DEF memVars, zkVars, pullVars, cntVars
<1>2. TypeOK'
  BY <1>1 DEF IInv, TypeOK
<1>3. RequestsConsistent' /\ NoDoubt' /\ TotalExact' /\ StopsSound' /\ PullerSound'
  BY <1>1 DEF IInv, RequestsConsistent, NoDoubt, TotalExact, StopsSound, PullerSound
<1>4. DeleteOrphans' = DeleteOrphans
  BY <1>1 DEF DeleteOrphans, HasParent, ParentOf, Exists
<1>5. RecoverySound'
  BY <1>1, <1>4 DEF IInv, RecoverySound
<1>. QED BY <1>1, <1>2, <1>3, <1>5 DEF IInv

\* The versions of a framework whose part of the Service's state stays as it is.
LEMMA VersionsOfOthers ==
    ASSUME NEW f \in Frameworks, VersionsSound(f),
           pulled'[f] = pulled[f], zkStatuses'[f] = zkStatuses[f],
           UNCHANGED << requests, statuses, asked, again >>
    PROVE  VersionsSound(f)'
BY DEF VersionsSound, Once, Exists

\* What the Service does touches what it pulled and the statuses it stores.
LEMMA EnvironmentKeeps ==
    ASSUME IInv, Environment
    PROVE  IInv'
<1>1. UNCHANGED << memVars, zkVars, phase, pullVars, collecting, doubtful, interrupted, cntVars >>
  BY DEF Environment
<1>2. UNCHANGED << requests, statuses, asked, again, failures >>
  BY <1>1 DEF memVars, pullVars, cntVars
<1>3. /\ requests \in [ Frameworks -> Requests \cup { None } ]
      /\ zkRequests \in [ Frameworks -> Requests \cup { None } ]
      /\ pulled \in [ Frameworks -> 0 .. MaxVersion ]
      /\ zkStatuses \in [ Frameworks -> Statuses \cup { None } ]
      /\ statuses \in [ Frameworks -> Statuses \cup { None } ]
      /\ retained \subseteq Frameworks \X Versions
  BY DEF IInv, TypeOK
<1>4. ASSUME NEW f \in Frameworks, ServicePulls(f) PROVE IInv'
  <2>1. /\ pulled' = [ pulled EXCEPT ![f] = VersionOf(zkRequests[f]) ]
        /\ UNCHANGED << zkStatuses, retained >>
    BY <1>4 DEF ServicePulls
  <2>2. VersionOf(zkRequests[f]) \in 0 .. MaxVersion
    BY <1>3, LauncherAssumption DEF VersionOf, Requests, Versions
  <2>3. pulled' \in [ Frameworks -> 0 .. MaxVersion ]
    BY <1>3, <2>1, <2>2
  <2>4. ASSUME failures = 0, NEW g \in Frameworks PROVE VersionsSound(g)'
    <3>1. VersionsSound(g)
      BY <2>4 DEF IInv
    <3>2. CASE g # f
      BY <1>2, <1>3, <2>1, <3>1, <3>2, VersionsOfOthers
    <3>3. CASE g = f
      <4>1. requests[f] = zkRequests[f]
        BY <2>4 DEF IInv, RequestsConsistent, NoDoubt
      <4>2. pulled'[f] = VersionOf(requests[f])
        BY <1>3, <2>1, <4>1
      <4>3. pulled'[f] # 0 => Exists(f) /\ pulled'[f] = requests[f].version
        BY <4>2 DEF VersionOf, Exists
      <4>4. Exists(f) => pulled'[f] = requests[f].version
        BY <4>2 DEF VersionOf, Exists
      <4>. QED BY <1>2, <2>1, <3>1, <3>3, <4>3, <4>4 DEF VersionsSound, Once, Exists
    <3>. QED BY <3>2, <3>3
  <2>. QED BY <1>1, <1>3, <2>1, <2>3, <2>4, ServiceKeeps
<1>5. ASSUME NEW f \in Frameworks, ServiceAdds(f) PROVE IInv'
  <2>1. /\ pulled[f] \notin { 0, VersionOf(zkStatuses[f]) }
        /\ zkStatuses' = [ zkStatuses EXCEPT ![f] = Running(pulled[f]) ]
        /\ UNCHANGED << pulled, retained >>
    BY <1>5 DEF ServiceAdds
  <2>2. PICK v \in Versions : v = pulled[f]
    BY <1>3, <2>1, LauncherAssumption DEF Versions
  <2>3. PICK s \in Statuses : s = Running(pulled[f]) /\ s.version = v /\ s.state = "RUNNING"
    <3>1. Running(v) \in Statuses /\ Running(v).version = v /\ Running(v).state = "RUNNING"
      BY DEF Running, Statuses
    <3>. QED BY <2>2, <3>1
  <2>4. zkStatuses' \in [ Frameworks -> Statuses \cup { None } ]
    BY <1>3, <2>1, <2>3
  <2>5. ASSUME failures = 0, NEW g \in Frameworks PROVE VersionsSound(g)'
    <3>1. VersionsSound(g)
      BY <2>5 DEF IInv
    <3>2. CASE g # f
      BY <1>2, <1>3, <2>1, <3>1, <3>2, VersionsOfOthers
    <3>3. CASE g = f
      <4>1. zkStatuses'[f] = s
        BY <1>3, <2>1, <2>3
      <4>2. /\ pulled[f] = v /\ << f, v >> \in asked /\ v # 0
            /\ zkStatuses[f] # None => zkStatuses[f].version # v
        BY <2>1, <2>2, <3>1, <3>3 DEF VersionsSound, VersionOf
      <4>3. ASSUME Exists(f), Once(f, requests[f].version), Completed(statuses[f]),
                   statuses[f].version = requests[f].version
            PROVE  FALSE
        <5>1. zkStatuses[f] = statuses[f] /\ zkStatuses[f] # None
          BY <3>1, <3>3, <4>3 DEF VersionsSound, Completed
        <5>2. pulled[f] = requests[f].version
          BY <3>1, <3>3, <4>3, <5>1 DEF VersionsSound
        <5>. QED BY <4>2, <4>3, <5>1, <5>2
      <4>4. s # None
        BY NoneIsNeither
      <4>. QED BY <1>2, <2>1, <2>3, <3>1, <3>3, <4>1, <4>2, <4>3, <4>4
           DEF VersionsSound, Once, Exists
    <3>. QED BY <3>2, <3>3
  <2>. QED BY <1>1, <1>3, <2>1, <2>4, <2>5, ServiceKeeps
<1>6. ASSUME NEW f \in Frameworks, ServiceCompletes(f) PROVE IInv'
  <2>1. /\ zkStatuses[f] # None /\ zkStatuses[f].state = "RUNNING"
        /\ zkStatuses' = [ zkStatuses EXCEPT ![f].state = "FRAMEWORK_COMPLETED" ]
        /\ retained' = retained \cup { << f, zkStatuses[f].version >> }
        /\ UNCHANGED pulled
    BY <1>6 DEF ServiceCompletes
  <2>2. zkStatuses[f] \in Statuses
    BY <1>3, <2>1
  <2>3. /\ [ zkStatuses[f] EXCEPT !.state = "FRAMEWORK_COMPLETED" ] \in Statuses
        /\ [ zkStatuses[f] EXCEPT !.state = "FRAMEWORK_COMPLETED" ].version
             = zkStatuses[f].version
    BY <2>2 DEF Statuses
  <2>4. PICK s \in Statuses : /\ s = [ zkStatuses[f] EXCEPT !.state = "FRAMEWORK_COMPLETED" ]
                              /\ s.version = zkStatuses[f].version
    BY <2>3
  <2>5. zkStatuses' = [ zkStatuses EXCEPT ![f] = s ]
    BY <2>1, <2>4
  <2>6. zkStatuses' \in [ Frameworks -> Statuses \cup { None } ]
    BY <1>3, <2>5
  <2>7. retained' \subseteq Frameworks \X Versions
    BY <1>3, <2>1, <2>2 DEF Statuses
  <2>8. ASSUME failures = 0, NEW g \in Frameworks PROVE VersionsSound(g)'
    <3>1. VersionsSound(g)
      BY <2>8 DEF IInv
    <3>2. CASE g # f
      BY <1>2, <1>3, <2>1, <2>5, <3>1, <3>2, VersionsOfOthers
    <3>3. CASE g = f
      <4>1. zkStatuses'[f] = s /\ zkStatuses'[f] # None
        BY <1>3, <2>5, NoneIsNeither
      <4>2. ASSUME Exists(f), Once(f, requests[f].version), Completed(statuses[f]),
                   statuses[f].version = requests[f].version
            PROVE  FALSE
        BY <2>1, <3>1, <3>3, <4>2 DEF VersionsSound, Completed
      <4>. QED BY <1>2, <2>1, <2>4, <3>1, <3>3, <4>1, <4>2 DEF VersionsSound, Once, Exists
    <3>. QED BY <3>2, <3>3
  <2>. QED BY <1>1, <1>3, <2>1, <2>6, <2>7, <2>8, ServiceKeeps
<1>7. ASSUME NEW f \in Frameworks, ServiceRemoves(f) PROVE IInv'
  <2>1. /\ pulled[f] = 0 /\ zkStatuses[f] # None
        /\ zkStatuses' = [ zkStatuses EXCEPT ![f] = None ]
        /\ UNCHANGED << pulled, retained >>
    BY <1>7 DEF ServiceRemoves
  <2>2. zkStatuses' \in [ Frameworks -> Statuses \cup { None } ]
    BY <1>3, <2>1
  <2>3. ASSUME failures = 0, NEW g \in Frameworks PROVE VersionsSound(g)'
    <3>1. VersionsSound(g)
      BY <2>3 DEF IInv
    <3>2. CASE g # f
      BY <1>2, <1>3, <2>1, <3>1, <3>2, VersionsOfOthers
    <3>3. CASE g = f
      <4>1. zkStatuses'[f] = None
        BY <1>3, <2>1
      <4>2. ASSUME Exists(f), Once(f, requests[f].version), Completed(statuses[f]),
                   statuses[f].version = requests[f].version
            PROVE  FALSE
        <5>1. zkStatuses[f] = statuses[f] /\ pulled[f] = requests[f].version
          BY <2>1, <3>1, <3>3, <4>2 DEF VersionsSound, Completed
        <5>2. requests[f] \in Requests
          BY <1>3, <4>2 DEF Exists
        <5>. QED BY <2>1, <5>1, <5>2, LauncherAssumption DEF Requests, Versions
      <4>. QED BY <1>2, <2>1, <3>1, <3>3, <4>1, <4>2 DEF VersionsSound, Once, Exists
    <3>. QED BY <3>2, <3>3
  <2>. QED BY <1>1, <1>3, <2>1, <2>2, <2>3, ServiceKeeps
<1>8. ASSUME RetentionEnds PROVE IInv'
  <2>1. /\ retained' \subseteq retained
        /\ UNCHANGED << pulled, zkStatuses >>
    BY <1>8 DEF RetentionEnds
  <2>2. ASSUME failures = 0, NEW g \in Frameworks PROVE VersionsSound(g)'
    BY <1>2, <2>1, <2>2, VersionsOfOthers DEF IInv
  <2>. QED BY <1>1, <1>3, <2>1, <2>2, ServiceKeeps
<1>. QED BY <1>4, <1>5, <1>6, <1>7, <1>8 DEF Environment

-----------------------------------------------------------------------------
(* The invariant *)

\* The invariant holds at first.
LEMMA InitIInv == Init => IInv
<1>. SUFFICES ASSUME Init PROVE IInv
  OBVIOUS
<1>. USE LauncherAssumption
<1>1. TypeOK
  <2>1. StoreTypes
    BY DEF Init, StoreTypes
  <2>2. pulled \in [ Frameworks -> 0 .. MaxVersion ] /\ asked = {} /\ again = {}
    BY DEF Init
  <2>3. 0 \in 0 .. MaxOps /\ 0 \in 0 .. MaxCrashes /\ 0 \in 0 .. MaxFailures
    OBVIOUS
  <2>4. statuses \in [ Frameworks -> Statuses \cup { None } ]
    BY DEF Init
  <2>5. RestTypes
    BY <2>2, <2>3, <2>4 DEF Init, RestTypes, Deleting
  <2>. QED BY <2>1, <2>5, Types
<1>2. RequestsConsistent /\ NoDoubt
  BY DEF Init, RequestsConsistent, NoDoubt
<1>3. TotalExact
  BY TotalOfNothing DEF Init, TotalExact
<1>4. StopsSound /\ RecoverySound /\ PullerSound
  BY DEF Init, StopsSound, RecoverySound, PullerSound
<1>5. ASSUME NEW f \in Frameworks PROVE VersionsSound(f)
  BY DEF Init, VersionsSound, Exists, Completed
<1>. QED BY <1>1, <1>2, <1>3, <1>4, <1>5 DEF IInv

\* Every step keeps it.
LEMMA NextKeepsIInv == IInv /\ [Next]_vars => IInv'
<1>. SUFFICES ASSUME IInv, [Next]_vars PROVE IInv'
  OBVIOUS
<1>1. ASSUME NEW f \in Frameworks,
             \/ PutFramework(f) \/ UpdateTaskNumber(f) \/ UpdateExecutionType(f)
             \/ DeleteFramework(f) \/ UpdateMark(f) \/ DeleteMark(f)
      PROVE  IInv'
  BY <1>1, PutKeeps, UpdateTaskNumberKeeps, UpdateExecutionTypeKeeps, DeleteFrameworkKeeps,
     UpdateMarkKeeps, DeleteMarkKeeps
<1>2. CASE Children
  BY <1>2, StopOrphanKeeps, StopOrphanThrottledKeeps, NoMoreToStopKeeps, DeleteOrphanKeeps,
     NoMoreToDeleteKeeps DEF Children
<1>3. CASE StopOrphanFails
  BY <1>3, StopOrphanFailsKeeps
<1>4. CASE Puller
  BY <1>4, RecoverStatusesKeeps, CollectKeeps, CollectNextKeeps, CollectDoneKeeps,
     ChooseReusableKeeps, PullKeeps DEF Puller
<1>5. CASE Restart
  BY <1>5, RestartKeeps
<1>6. CASE Environment
  BY <1>6, EnvironmentKeeps
<1>7. CASE UNCHANGED vars
  <2>1. UNCHANGED << memVars, zkVars, phase, pullVars, collecting, doubtful, interrupted,
                     cntVars >>
    BY <1>7 DEF vars
  <2>2. UNCHANGED << requests, statuses, asked, again, pulled, zkStatuses, retained >>
    BY <1>7 DEF vars, memVars, pullVars, cntVars, srvVars
  <2>3. failures = 0 => \A f \in Frameworks : VersionsSound(f)'
    BY <2>2, VersionsOfOthers DEF IInv
  <2>4. /\ pulled' \in [ Frameworks -> 0 .. MaxVersion ]
        /\ zkStatuses' \in [ Frameworks -> Statuses \cup { None } ]
        /\ retained' \subseteq Frameworks \X Versions
    BY <2>2 DEF IInv, TypeOK
  <2>. QED BY <2>1, <2>3, <2>4, ServiceKeeps
<1>. QED BY <1>1, <1>2, <1>3, <1>4, <1>5, <1>6, <1>7 DEF Next

\* What LauncherRequests maintains, between any two steps of calls, threads and
\* restarts.
THEOREM Invariance == Spec => []IInv
BY InitIInv, NextKeepsIInv, PTL DEF Spec

\* Type correctness.
THEOREM TypesHold == Spec => []TypeOK
<1>1. IInv => TypeOK
  BY DEF IInv
<1>. QED BY <1>1, Invariance, PTL

\* Memory and ZooKeeper hold the same requests but for those of failed writes.
THEOREM MemoryIsStored == Spec => []RequestsConsistent
<1>1. IInv => RequestsConsistent
  BY DEF IInv
<1>. QED BY <1>1, Invariance, PTL

\* The counter that throttles submissions is the sum over all requests, and stays
\* in its limit unless a write has failed.
THEOREM TotalIsExact == Spec => []TotalExact
<1>1. IInv => TotalExact
  BY DEF IInv
<1>. QED BY <1>1, Invariance, PTL

\* A stop reaches the children at every depth before the lock is free again.
THEOREM StopsReachChildren == Spec => []StopReachesChildren
<1>1. IInv => StopReachesChildren
  BY DEF IInv, StopsSound, StopReachesChildren
<1>. QED BY <1>1, Invariance, PTL

\* A status that is not pulled again is the one on ZooKeeper, if its version was not asked
\* for again.
THEOREM ReusedStatusesCurrent == Spec => []ReusedStatusCurrent
<1>1. ASSUME IInv, NEW f \in reuse, failures = 0, Exists(f),
             requests[f].version = statuses[f].version, Once(f, requests[f].version)
      PROVE  statuses[f] = zkStatuses[f]
  <2>1. f \in Frameworks /\ Completed(statuses[f])
    BY <1>1 DEF IInv, TypeOK, PullerSound
  <2>2. VersionsSound(f)
    BY <1>1, <2>1 DEF IInv
  <2>. QED BY <1>1, <2>1, <2>2 DEF VersionsSound
<1>2. IInv => ReusedStatusCurrent
  BY <1>1 DEF ReusedStatusCurrent, Once
<1>. QED BY <1>2, Invariance, PTL

-----------------------------------------------------------------------------
(* What no step does *)

\* A recovery serves nobody before it has deleted and stopped what it has to.
THEOREM RecoveryLeavesNoOrphans == Spec => RecoveredWithoutOrphans
<1>1. ASSUME IInv, [Next]_vars, phase = "recoverStop", phase' = "idle"
      PROVE  DeleteOrphans' = {} /\ StopOrphansIn(requests)' = {}
  <2>1. NoMoreToStop
    <3>1. CASE \E f \in Frameworks :
                  \/ PutFramework(f) \/ UpdateTaskNumber(f) \/ UpdateExecutionType(f)
                  \/ DeleteFramework(f) \/ UpdateMark(f) \/ DeleteMark(f)
      BY <1>1, <3>1 DEF PutFramework, UpdateTaskNumber, UpdateExecutionType, Call,
                        DeleteFramework, UpdateMark, DeleteMark, Serving
    <3>2. CASE Children
      BY <1>1, <3>2 DEF Children, StopOrphan, StopOrphanThrottled, DeleteOrphan,
                        NoMoreToDelete, Deleting
    <3>3. CASE StopOrphanFails
      BY <1>1, <3>3 DEF StopOrphanFails
    <3>4. CASE Puller
      BY <1>1, <3>4 DEF Puller, RecoverStatuses, Collect, CollectNext, CollectDone,
                        ChooseReusable, Pull
    <3>5. CASE Restart
      BY <1>1, <3>5 DEF Restart
    <3>6. CASE Environment
      BY <1>1, <3>6 DEF Environment
    <3>7. CASE UNCHANGED vars
      BY <1>1, <3>7 DEF vars
    <3>. QED BY <1>1, <3>1, <3>2, <3>3, <3>4, <3>5, <3>6, <3>7 DEF Next
  <2>2. StopOrphansIn(requests) = {} /\ UNCHANGED requests
    BY <2>1 DEF NoMoreToStop, memVars
  <2>3. DeleteOrphans = {}
    BY <1>1 DEF IInv, RecoverySound
  <2>4. DeleteOrphans' = DeleteOrphans
    BY <2>2 DEF DeleteOrphans, HasParent, ParentOf, Exists
  <2>. QED BY <2>2, <2>3, <2>4
<1>2. IInv /\ [Next]_vars =>
          [ phase = "recoverStop" /\ phase' = "idle" =>
              DeleteOrphans' = {} /\ StopOrphansIn(requests)' = {} ]_vars
  BY <1>1
<1>. QED BY <1>2, Invariance, PTL DEF Spec, RecoveredWithoutOrphans

\* What is collected has completed in the requested version, long enough ago, if this
\* version was not asked for again.
THEOREM CollectsOnlyCompleted == Spec => OnlyCompletedCollected
<1> DEFINE Fair(f) ==
        /\ failures = 0 /\ phase = "collect" /\ zkRequests[f] # None /\ zkRequests'[f] = None
        /\ << f, zkRequests[f].version >> \notin again
        =>  /\ Completed(zkStatuses[f]) /\ zkStatuses[f].version = zkRequests[f].version
            /\ << f, zkRequests[f].version >> \notin retained
<1>1. ASSUME IInv, [Next]_vars, NEW f \in Frameworks, failures = 0, phase = "collect",
             zkRequests[f] # None, zkRequests'[f] = None, << f, zkRequests[f].version >> \notin again
      PROVE  /\ Completed(zkStatuses[f]) /\ zkStatuses[f].version = zkRequests[f].version
             /\ << f, zkRequests[f].version >> \notin retained
  <2>1. CollectNext
    <3>1. CASE \E g \in Frameworks :
                  \/ PutFramework(g) \/ UpdateTaskNumber(g) \/ UpdateExecutionType(g)
                  \/ DeleteFramework(g) \/ UpdateMark(g) \/ DeleteMark(g)
      BY <1>1, <3>1 DEF PutFramework, UpdateTaskNumber, UpdateExecutionType, Call,
                        DeleteFramework, UpdateMark, DeleteMark, Serving
    <3>2. CASE Children
      BY <1>1, <3>2 DEF Children, StopOrphan, StopOrphanThrottled, NoMoreToStop, DeleteOrphan,
                        NoMoreToDelete, Deleting, Stopping
    <3>3. CASE StopOrphanFails
      BY <1>1, <3>3 DEF StopOrphanFails
    <3>4. CASE Puller
      BY <1>1, <3>4 DEF Puller, RecoverStatuses, Collect, CollectDone, ChooseReusable, Pull,
                        zkVars
    <3>5. CASE Restart
      BY <1>1, <3>5 DEF Restart
    <3>6. CASE Environment
      BY <1>1, <3>6 DEF Environment, zkVars
    <3>7. CASE UNCHANGED vars
      BY <1>1, <3>7 DEF vars, zkVars
    <3>. QED BY <1>1, <3>1, <3>2, <3>3, <3>4, <3>5, <3>6, <3>7 DEF Next
  <2>2. PICK g \in collecting :
            IF Collectable(g) THEN DeleteInternal(g) ELSE UNCHANGED << memVars, zkVars >>
    BY <2>1 DEF CollectNext
  <2>3. zkRequests \in [ Frameworks -> Requests \cup { None } ]
    BY <1>1 DEF IInv, TypeOK
  <2>4. Collectable(g) /\ g = f
    BY <1>1, <2>2, <2>3 DEF DeleteInternal, zkVars
  <2>5. Completed(statuses[f]) /\ VersionsSound(f)
    BY <1>1, <2>2, <2>4 DEF IInv, PullerSound
  <2>6. requests[f] = zkRequests[f]
    BY <1>1 DEF IInv, RequestsConsistent, NoDoubt
  <2>7. statuses[f] = zkStatuses[f]
    BY <1>1, <2>4, <2>5, <2>6 DEF Collectable, VersionsSound, Once
  <2>. QED BY <2>4, <2>5, <2>6, <2>7 DEF Collectable
<1>2. IInv /\ [Next]_vars => [ \A f \in Frameworks : Fair(f) ]_vars
  BY <1>1
<1>. QED BY <1>2, Invariance, PTL DEF Spec, OnlyCompletedCollected

=============================================================================
