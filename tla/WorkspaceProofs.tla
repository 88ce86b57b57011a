--------------------------- MODULE WorkspaceProofs ---------------------------
(***************************************************************************)
(* Proofs about Workspace, for every set of versions and files, any number *)
(* of commands, revisions and faults: a pull that reports success has      *)
(* fetched the model of the hub whole, and the commands keep the work of   *)
(* the user.                                                               *)
(***************************************************************************)
EXTENDS Workspace, FiniteSetTheorems, WellFoundedInduction, TLAPS

Legal == top["json"] \notin { None, ErrorText }
AtSome(S) == cmd # None /\ cmd.at \in S

\* `create` has read a project.json that ends with the new version, and the cache it
\* copies from exists; `switch` marks the version it is about.
CreateSound ==
    cmd # None /\ cmd.then = "create" =>
        /\ cmd.at \in { "caches", "drop", "save", "new", "copy" }
        /\ cmd.json \in Jsons
        /\ Len(cmd.json.versions) > 1 /\ cmd.version \in ToSet(cmd.json.versions)
        /\ SourceOf(cmd.json.versions) # cmd.version
        /\ cmd.at = "caches" => top["json"] = cmd.json
        /\ cmd.at # "caches" => cache[SourceOf(cmd.json.versions)] # None
StepsSound ==
    /\ AtSome({ "caches", "new", "copy" }) => cmd.then = "create"
    /\ AtSome({ "drop", "save" }) => cmd.then # "end"
    /\ AtSome({ "load", "mark", "switched" }) => cmd.then = "switch"
    /\ At("mark") => cmd.json \in Jsons
    /\ At("caches") \/ At("drop") => Legal
    /\ cmd # None /\ cmd.then # "end" => cmd.version # cmd.profile
    /\ cmd # None /\ cmd.then = "end" /\ cmd.at # "leave" => cmd.version = cmd.profile
    /\ cmd # None /\ cmd.then = "switch" /\ ~AtSome({ "drop", "save", "load" }) => cmd.json \in Jsons

\* The command finds what it works on.
PlacesThere ==
    /\ At("fetch") => cmd.left \subseteq Files \cup { "json" }
    /\ AtSome({ "ask", "fetch", "clean", "install" }) => top["temp"] # None
    /\ At("save") => cache[cmd.profile] # None
    /\ AtSome({ "drop", "save", "load" }) /\ cmd.then = "switch" => cache[cmd.version] # None

WTypes == PlacesThere /\ TypeOK /\ CreateSound /\ StepsSound

\* What was fetched is of the hub, if that was not published again, nor announced.
Fetching == AtSome({ "fetch", "clean", "install", "fetched" }) /\ ~republished
FetchedFrom(h) ==
    /\ h # None /\ ~h.gone
    /\ At("fetch") =>
          /\ cmd.left \subseteq Entries(Sent(h.dir))
          /\ \A n \in Names : top["temp"][n] = IF n \in cmd.left THEN None ELSE Sent(h.dir)[n]
    /\ At("clean") => \A n \in Names : top["temp"][n] = Sent(h.dir)[n]
    /\ At("install") => \A n \in Names \ { "temp" } :
          \/ top[n] = None /\ top["temp"][n] = Sent(h.dir)[n]
          \/ top[n] = Sent(h.dir)[n] /\ top["temp"][n] = None
    /\ At("fetched") => top["temp"] # None /\ \A n \in Names \ { "temp" } : top[n] = Sent(h.dir)[n]
FetchSound ==
    /\ At("ask") => \A n \in Names : top["temp"][n] = None
    /\ Fetching => FetchedFrom(hub[cmd.profile])

-----------------------------------------------------------------------------
\* Where the work is, while nothing is torn.

Has(d, v) == wanted[v] # None => d # None /\ Model(d) = wanted[v]
Kept(v) == Has(cache[v], v)
OthersKept(v) == \A u \in Versions \ { v } : Kept(u)
KeptWith(v) == Has(top, v) /\ OthersKept(v)

\* Between two commands the directory is of the version its project.json is of.
Settled == IF Legal THEN KeptWith(Current) ELSE \A v \in Versions : Has(top, v) \/ Kept(v)

\* The version the directory is of while a command runs, but for a download that failed and
\* ends.
Holder ==
    IF cmd.then = "end" \/ cmd.at \in { "caches", "drop", "save" } THEN cmd.profile ELSE cmd.version
Failing == cmd # None /\ cmd.at = "leave" /\ cmd.then = "end"
HeldSteps == { "download", "lock", "name", "ask", "fetch", "leave", "clean", "install", "fetched",
               "mark", "switched", "caches", "drop", "copy" }

\* v is being moved entry by entry, from d to e.
Moving(d, e, v) ==
    /\ d # None /\ e # None
    /\ \A n \in Names : d[n] = None \/ e[n] = None
    /\ wanted[v] # None =>
           \A f \in Files : wanted[v][f] = IF d[f] # None THEN d[f] ELSE e[f]

\* The new version is being copied from the one before it.
Copying ==
    LET source == cache[SourceOf(cmd.json.versions)] IN
    /\ cmd.left \subseteq Entries(source) \ { "json" }
    /\ \A f \in Files \ cmd.left : top[f] = source[f]

\* Every project.json is of the version whose it is taken for.
HubJsons == \A v \in Versions : hub[v] # None => hub[v].dir["json"].current = v
CacheJsons ==
    \A v \in Versions : cache[v] # None /\ cache[v]["json"] # None =>
        cache[v]["json"] \in Jsons /\ cache[v]["json"].current = v
StepJsons ==
    /\ cmd # None /\ ~Failing /\ Legal => Current = Holder
    /\ cmd # None /\ cmd.then = "switch" /\ ~AtSome({ "drop", "save", "load" }) =>
          cmd.json.current = cmd.version
    /\ AtSome({ "fetch", "clean", "install" }) /\ top["temp"]["json"] \in Jsons =>
          top["temp"]["json"].current = cmd.profile
    /\ At("save") => top["json"] # ErrorText
    /\ AtSome({ "clean", "install", "fetched" }) => cmd.then = "end"

\* Something is there once a project was begun.
Begun == top["json"] # None \/ \E v \in Versions : cache[v] # None
BegunSound ==
    /\ cmd # None \/ (\E v \in Versions : wanted[v] # None) =>
           Begun \/ top["temp"] # None \/ top["stray"] # None
    /\ AtSome({ "download", "lock", "name", "ask", "fetch", "leave", "fetched" }) => Begun
    /\ At("fetch") => top["temp"]["json"] # None \/ "json" \in cmd.left
    /\ At("clean") => top["temp"]["json"] # None
    /\ At("install") => top["temp"]["json"] # None \/ top["json"] # None

PlacesSound ==
    /\ cmd = None \/ Failing => Settled
    /\ AtSome(HeldSteps) /\ ~Failing => KeptWith(Holder)
    /\ AtSome({ "clean", "install" }) => wanted[cmd.profile] = None
    /\ At("save") => OthersKept(cmd.profile) /\ Moving(top, cache[cmd.profile], cmd.profile)
    /\ At("load") => OthersKept(cmd.version) /\ Moving(cache[cmd.version], top, cmd.version)
    /\ At("new") => \A v \in Versions : Kept(v)
    /\ At("copy") => Copying
    /\ cmd # None /\ cmd.then = "create" => wanted[cmd.version] = None

WorkSound == HubJsons /\ CacheJsons /\ StepJsons /\ BegunSound /\ PlacesSound
WorkInv == ~torn => WorkSound
WInv == WTypes /\ FetchSound /\ WorkInv

-----------------------------------------------------------------------------
(* Entries and directories *)

\* What an entry of a name may be.
Fits(n, x) ==
    /\ n \in Files => x \in Content
    /\ n = "json" => x \in { None, ErrorText } \cup Jsons
    /\ n = "lock" => x \in { None, "empty", "named" }
    /\ n = "stray" => x \in { None, "dir" }
    /\ n = "temp" => x = None \/ IsPlain(x)

\* The names, which are all different.
LEMMA NamesAre ==
    /\ Names = Files \cup { "json", "lock", "temp", "stray" }
    /\ Files \cap { "json", "lock", "temp", "stray" } = {}
BY WorkspaceAssumption DEF Names

\* A directory is one whose entries fit their names.
LEMMA DirFits ==
    ASSUME NEW d
    PROVE  IsDir(d) <=> d = [ n \in Names |-> d[n] ] /\ \A n \in Names : Fits(n, d[n])
BY NamesAre DEF IsDir, HasModel, Fits

\* A directory of fetched files is one.
LEMMA PlainIsDir == ASSUME NEW d, IsPlain(d) PROVE IsDir(d)
BY DEF IsPlain, IsDir

\* Nothing fits everywhere.
LEMMA NoneFits == ASSUME NEW n PROVE Fits(n, None)
BY DEF Fits, Content

\* A directory is something.
LEMMA DirNotNone == ASSUME NEW d, IsDir(d) PROVE d # None
<1>1. ASSUME NEW p, IsPlain(p) PROVE p \in [ Names -> Entry ]
  <2>1. \A n \in Names : p[n] \in Entry
    BY <1>1, NamesAre DEF IsPlain, HasModel, Entry, Content
  <2>2. p = [ n \in Names |-> p[n] ]
    BY <1>1 DEF IsPlain, HasModel
  <2>. QED BY <2>1, <2>2
<1>2. \A n \in Names : d[n] \in Entry \cup [ Names -> Entry ]
  BY <1>1, NamesAre DEF IsDir, HasModel, Entry, Content
<1>3. d = [ n \in Names |-> d[n] ]
  BY DEF IsDir, HasModel
<1>4. d \in [ Names -> Entry \cup [ Names -> Entry ] ]
  BY <1>2, <1>3
<1>. QED BY <1>4, NoneAssumption

\* Changing an entry of a directory.
LEMMA WithDir ==
    ASSUME NEW d, IsDir(d), NEW n \in Names, NEW x, Fits(n, x)
    PROVE  /\ IsDir(With(d, n, x)) /\ With(d, n, x)[n] = x
           /\ \A m \in Names \ { n } : With(d, n, x)[m] = d[m]
<1>1. PICK e : e = With(d, n, x)
  OBVIOUS
<1>2. e = [ m \in Names |-> IF m = n THEN x ELSE d[m] ]
  BY <1>1, DirFits DEF With
<1>3. \A m \in Names : e[m] = IF m = n THEN x ELSE d[m]
  BY <1>2
<1>4. \A m \in Names : Fits(m, e[m])
  BY <1>3, DirFits
<1>5. IsDir(e)
  <2>1. e = [ m \in Names |-> e[m] ]
    BY <1>2
  <2>. QED BY <1>4, <2>1, DirFits
<1>. QED BY <1>1, <1>3, <1>5

\* Removing one.
LEMMA WithoutDir ==
    ASSUME NEW d, IsDir(d), NEW n \in Names
    PROVE  /\ IsDir(Without(d, n)) /\ Without(d, n)[n] = None
           /\ \A m \in Names \ { n } : Without(d, n)[m] = d[m]
<1>1. Without(d, n) = With(d, n, None)
  BY DEF With, Without
<1>. QED BY <1>1, NoneFits, WithDir

\* An empty directory.
LEMMA EmptyDir == IsDir(Empty) /\ IsPlain(Empty) /\ \A n \in Names : Empty[n] = None
<1>1. \A n \in Names : Empty[n] = None
  BY DEF Empty
<1>2. Empty = [ n \in Names |-> Empty[n] ]
  BY <1>1 DEF Empty
<1>3. IsPlain(Empty)
  BY <1>1, <1>2, NamesAre DEF IsPlain, HasModel, Content
<1>. QED BY <1>1, <1>3, PlainIsDir

\* A set of numbers has a least one.
LEMMA Least ==
    ASSUME NEW S \in SUBSET Nat, S # {}
    PROVE  \E n \in S : \A m \in S : n <= m
<1> DEFINE R == OpToRel(<, Nat)
<1>1. IsWellFoundedOn(R, Nat)
  BY NatLessThanWellFounded
<1>2. R = { ss \in Nat \X Nat : ss[1] < ss[2] }
  BY DEF OpToRel
<1>. HIDE DEF R
<1>3. PICK n \in S : \A m \in S : ~(<< m, n >> \in R)
  BY <1>1, WFMin
<1>4. ASSUME NEW m \in S PROVE n <= m
  <2>1. << m, n >> \notin { ss \in Nat \X Nat : ss[1] < ss[2] }
    BY <1>2, <1>3
  <2>. QED BY <2>1
<1>. QED BY <1>4

\* The first entry of some is one of them.
LEMMA FirstIn ==
    ASSUME NEW S, S \subseteq Names, S # {}
    PROVE  First(S) \in S
<1> DEFINE I == { i \in DOMAIN Listing : Listing[i] \in S }
<1>1. DOMAIN Listing = 1 .. Len(Listing) /\ Len(Listing) \in Nat
  BY WorkspaceAssumption
<1>2. I \subseteq Nat /\ I # {}
  BY <1>1 DEF Names, ToSet
<1>3. PICK i \in I : \A j \in I : i <= j
  BY <1>2, Least
<1>4. \A j \in 1 .. i - 1 : Listing[j] \notin S
  BY <1>1, <1>3
<1>5. \E k \in DOMAIN Listing :
          Listing[k] \in S /\ \A j \in 1 .. k - 1 : Listing[j] \notin S
  BY <1>3, <1>4
<1>. QED BY <1>5 DEF First

\* Entries is about the names.
LEMMA EntriesAre == ASSUME NEW d PROVE Entries(d) \subseteq Names /\ \A n \in Names : n \in Entries(d) <=> d[n] # None
BY DEF Entries

\* What the hub can send of a model.
LEMMA SentIs ==
    ASSUME NEW d, IsPlain(d)
    PROVE  /\ \A n \in Names : Sent(d)[n] \in { None, d[n] }
           /\ Sent(d)["json"] = d["json"] /\ Sent(d)["temp"] = None
           /\ Entries(Sent(d)) \subseteq Files \cup { "json" }
<1>1. \A n \in Names : Sent(d)[n] = IF n \in Files /\ d[n] = NoBytes THEN None ELSE d[n]
  BY DEF Sent
<1>2. \A n \in Names : Sent(d)[n] \in { None, d[n] }
  BY <1>1
<1>3. \A n \in Names \ Files : Sent(d)[n] = d[n]
  BY <1>1
<1>4. d["lock"] = None /\ d["temp"] = None /\ d["stray"] = None
  BY DEF IsPlain
<1>5. Sent(d)["json"] = d["json"] /\ \A n \in { "lock", "temp", "stray" } : Sent(d)[n] = None
  BY <1>3, <1>4, NamesAre
<1>. QED BY <1>2, <1>5, NamesAre, EntriesAre

\* Caches and the hub.
CacheMade(c, v, d) == [ c EXCEPT ![v] = d ]

\* Changing the cache of a version.
LEMMA CacheWith ==
    ASSUME NEW c, IsCache(c), NEW v \in Versions, NEW d, IsDir(d), NEW e, e = CacheMade(c, v, d)
    PROVE  IsCache(e) /\ e[v] = d /\ \A u \in Versions \ { v } : e[u] = c[u]
<1>2. e = [ u \in Versions |-> IF u = v THEN d ELSE c[u] ]
  BY DEF IsCache, CacheMade
<1>3. \A u \in Versions : e[u] = IF u = v THEN d ELSE c[u]
  BY <1>2
<1>4. IsCache(e)
  BY <1>2, <1>3 DEF IsCache
<1>. QED BY <1>3, <1>4

\* A version of the hub.
IsVersion(x) ==
    /\ x = [ dir |-> x.dir, gone |-> x.gone ] /\ x.gone \in BOOLEAN
    /\ IsPlain(x.dir) /\ x.dir["json"] \in Jsons

\* It is something.
LEMMA VersionNotNone == ASSUME NEW x, IsVersion(x) PROVE x # None
<1>1. \A n \in Names : x.dir[n] \in Entry
  BY NamesAre DEF IsVersion, IsPlain, HasModel, Entry, Content
<1>2. x.dir = [ n \in Names |-> x.dir[n] ]
  BY DEF IsVersion, IsPlain, HasModel
<1>3. x.dir \in [ Names -> Entry ]
  BY <1>1, <1>2
<1>4. x \in [ dir : [ Names -> Entry ], gone : BOOLEAN ]
  <2>1. PICK d \in [ Names -> Entry ], g \in BOOLEAN : x = [ dir |-> d, gone |-> g ]
    BY <1>3 DEF IsVersion
  <2>. QED BY <2>1
<1>. QED BY <1>4, NoneAssumption

\* Changing one.
LEMMA HubWith ==
    ASSUME NEW h, IsHub(h), NEW v \in Versions, NEW x, IsVersion(x), NEW e, e = CacheMade(h, v, x)
    PROVE  IsHub(e) /\ e[v] = x /\ x # None /\ \A u \in Versions \ { v } : e[u] = h[u]
<1>2. e = [ u \in Versions |-> IF u = v THEN x ELSE h[u] ]
  BY DEF IsHub, CacheMade
<1>3. \A u \in Versions : e[u] = IF u = v THEN x ELSE h[u]
  BY <1>2
<1>4. e = [ u \in Versions |-> e[u] ]
  BY <1>2
<1>5. ASSUME NEW u \in Versions, e[u] # None PROVE IsVersion(e[u])
  <2>1. CASE u = v
    BY <1>3, <2>1
  <2>2. CASE u # v
    BY <1>3, <1>5, <2>2 DEF IsHub, IsVersion
  <2>. QED BY <2>1, <2>2
<1>6. IsHub(e)
  BY <1>4, <1>5 DEF IsHub, IsVersion
<1>. QED BY <1>3, <1>6, VersionNotNone

\* A project.json.
LEMMA JsonIs ==
    ASSUME NEW v \in Versions, NEW s \in Seq(Versions), v \in ToSet(s), NEW b \in BOOLEAN
    PROVE  /\ Json(v, s, b) \in Jsons /\ Json(v, s, b).current = v /\ Json(v, s, b).versions = s
           /\ Json(v, s, b).synced = b
BY DEF Json, Jsons

\* What is in one.
LEMMA JsonHas ==
    ASSUME NEW j \in Jsons
    PROVE  /\ j.current \in Versions /\ j.versions \in Seq(Versions) /\ j.synced \in BOOLEAN
           /\ j.current \in ToSet(j.versions) /\ ToSet(j.versions) \subseteq Versions
           /\ j # None /\ j # ErrorText
BY NoneAssumption DEF Jsons, ToSet

\* The directory of a whole project.
LEMMA ProjectDir ==
    ASSUME NEW v \in Versions, NEW s \in Seq(Versions), v \in ToSet(s), NEW r \in Nat
    PROVE  /\ IsDir(Project(v, s, r)) /\ IsPlain(Project(v, s, r))
           /\ Project(v, s, r)["json"] = Json(v, s, TRUE)
           /\ \A f \in Files : Project(v, s, r)[f] = r
<1>1. PICK d : d = Project(v, s, r)
  OBVIOUS
<1>2. d = [ n \in Names |-> IF n \in Files THEN r ELSE IF n = "json" THEN Json(v, s, TRUE) ELSE None ]
  BY <1>1 DEF Project
<1>3. d = [ n \in Names |-> d[n] ]
  BY <1>2
<1>4. /\ \A f \in Files : d[f] = r
      /\ d["json"] = Json(v, s, TRUE) /\ d["lock"] = None /\ d["temp"] = None /\ d["stray"] = None
  BY <1>2, NamesAre
<1>5. Json(v, s, TRUE) \in Jsons
  BY JsonIs
<1>6. IsPlain(d)
  BY <1>3, <1>4, <1>5 DEF IsPlain, HasModel, Content
<1>. QED BY <1>1, <1>4, <1>6, PlainIsDir

\* The versions of the hub, in some order.
LEMMA HubVersionsAre ==
    /\ HubVersions \in Seq(Versions) /\ ToSet(HubVersions) = OnHub /\ Len(HubVersions) \in Nat
    /\ DOMAIN HubVersions = 1 .. Len(HubVersions)
<1> DEFINE n == Cardinality(OnHub)
<1>1. n \in Nat /\ ExistsBijection(1 .. n, OnHub)
  BY WorkspaceAssumption, FS_CardinalityType
<1>2. PICK b \in Bijection(1 .. n, OnHub) : TRUE
  BY <1>1 DEF ExistsBijection
<1>3. b \in [ 1 .. n -> OnHub ] /\ IsInjective(b)
  BY <1>2 DEF Bijection, Injection, IsInjective
<1>4. HubVersions \in [ 1 .. n -> OnHub ] /\ IsInjective(HubVersions)
  BY <1>3 DEF HubVersions, SetToSeq
<1>5. HubVersions \in Injection(1 .. n, OnHub)
  BY <1>4 DEF IsInjective, Injection
<1>6. IsFiniteSet(1 .. n) /\ Cardinality(1 .. n) = n
  BY <1>1, FS_Interval
<1>7. HubVersions \in Surjection(1 .. n, OnHub)
  <2>1. PICK D : D = 1 .. n
    OBVIOUS
  <2>2. HubVersions \in Injection(D, OnHub) /\ IsFiniteSet(D) /\ Cardinality(D) = Cardinality(OnHub)
    BY <1>5, <1>6, <2>1
  <2>. HIDE DEF n
  <2>3. PICK b2 \in Injection(D, OnHub) : b2 = HubVersions
    BY <2>2
  <2>4. Cardinality(D) = Cardinality(OnHub) <=> b2 \in Surjection(D, OnHub)
    BY <2>2, FS_Injection, WorkspaceAssumption
  <2>5. HubVersions \in Surjection(D, OnHub)
    BY <2>2, <2>3, <2>4
  <2>. QED BY <2>1, <2>5
<1>8. HubVersions \in Seq(Versions)
  <2>1. HubVersions \in [ 1 .. n -> Versions ]
    BY <1>4, WorkspaceAssumption
  <2>. HIDE DEF n
  <2>. QED BY <1>1, <2>1
<1>9. DOMAIN HubVersions = 1 .. n
  BY <1>4
<1>10. ToSet(HubVersions) = OnHub
  BY <1>4, <1>7, <1>9 DEF ToSet, Surjection
<1>. QED BY <1>8, <1>9, <1>10, <1>1

-----------------------------------------------------------------------------
(* Types *)

\* A command is something, and has its parts.
LEMMA CmdIs ==
    ASSUME WTypes, cmd # None
    PROVE  /\ cmd \in Commands /\ cmd.version \in Versions /\ cmd.profile \in Versions
           /\ cmd.left \subseteq Names /\ cmd.json \in { None } \cup Jsons
           /\ cmd.then \in { "end", "switch", "create" }
BY DEF WTypes, TypeOK, Commands

\* It is not confused with no command.
LEMMA CmdNotNone == ASSUME NEW c \in Commands PROVE c # None
BY NoneAssumption

\* A user's command finds a legal project.json.
LEMMA FreeIs ==
    ASSUME WTypes, Free
    PROVE  /\ cmd = None /\ Legal /\ top["json"] \in Jsons /\ Current \in Versions
           /\ Known \in Seq(Versions) /\ Current \in ToSet(Known) /\ ToSet(Known) \subseteq Versions
<1>1. cmd = None /\ Legal /\ top["json"] \in Jsons
  BY DEF Free, WTypes, TypeOK, IsDir, HasModel, Legal
<1>. QED BY <1>1, JsonHas DEF Current, Known

\* Without a command nothing more is to be shown.
LEMMA NoCmdTypes == ASSUME TypeOK', cmd' = None PROVE WTypes'
BY DEF WTypes, PlacesThere, CreateSound, StepsSound, AtSome, At

\* At first everything is of its kind.
LEMMA InitTypes == ASSUME Init PROVE WTypes
<1>1. IsDir(top) /\ IsCache(cache) /\ cmd = None
  BY EmptyDir DEF Init, IsCache
<1>2. hub = [ v \in Versions |-> hub[v] ]
  BY DEF Init
<1>3. ASSUME NEW v \in Versions, hub[v] # None
      PROVE  /\ hub[v] = [ dir |-> hub[v].dir, gone |-> hub[v].gone ] /\ hub[v].gone \in BOOLEAN
             /\ IsPlain(hub[v].dir) /\ hub[v].dir["json"] \in Jsons
  <2>1. v \in OnHub
    BY <1>3 DEF Init
  <2>2. PICK i \in DOMAIN HubVersions :
            i = CHOOSE j \in DOMAIN HubVersions : HubVersions[j] = v
    BY <2>1, HubVersionsAre DEF ToSet
  <2>3. i \in Nat
    BY <2>2, HubVersionsAre
  <2>4. hub[v] = [ dir |-> Project(v, HubVersions, i), gone |-> FALSE ]
    <3>1. hub[v] = [ dir |-> Project(v, HubVersions, CHOOSE j \in DOMAIN HubVersions : HubVersions[j] = v),
                     gone |-> FALSE ]
      BY <2>1, Zenon DEF Init
    <3>. QED BY <2>2, <3>1, Zenon
  <2>5. IsPlain(Project(v, HubVersions, i)) /\ Project(v, HubVersions, i)["json"] \in Jsons
    <3>1. HubVersions \in Seq(Versions) /\ v \in ToSet(HubVersions)
      BY <2>1, HubVersionsAre
    <3>2. IsPlain(Project(v, HubVersions, i)) /\ Project(v, HubVersions, i)["json"] = Json(v, HubVersions, TRUE)
      BY <2>3, <3>1, ProjectDir, Zenon
    <3>. QED BY <3>1, <3>2, JsonIs
  <2>. QED BY <2>4, <2>5
<1>4. IsHub(hub)
  BY <1>2, <1>3 DEF IsHub
<1>5. wanted \in [ Versions -> { None } \cup [ Files -> Content ] ]
  BY DEF Init
<1>6. TypeOK
  BY <1>1, <1>4, <1>5, HubVersionsAre DEF Init, TypeOK
<1>. QED BY <1>1, <1>6 DEF WTypes, PlacesThere, CreateSound, StepsSound, AtSome, At

\* init makes a whole project.
LEMMA InitProjectTypes == ASSUME WTypes, NEW v \in Versions, InitProject(v) PROVE WTypes'
<1>1. << v >> \in Seq(Versions) /\ v \in ToSet(<< v >>)
  BY DEF ToSet
<1>2. IsDir(top)'
  BY <1>1, ProjectDir DEF InitProject
<1>3. wanted' \in [ Versions -> { None } \cup [ Files -> Content ] ]
  <2>1. AllAt(0) \in [ Files -> Content ]
    BY DEF AllAt, Content
  <2>. QED BY <2>1 DEF InitProject, WTypes, TypeOK
<1>4. cmd' = None
  BY DEF InitProject, Fresh
<1>. QED BY <1>2, <1>3, <1>4, NoCmdTypes DEF InitProject, WTypes, TypeOK, bounds

\* A command as `version create` starts it, with the project.json it has read.
LEMMA CmdMake ==
    ASSUME NEW at \in { "download", "drop", "caches" }, NEW then \in { "end", "switch", "create" },
           NEW v \in Versions, NEW p \in Versions, NEW j \in { None } \cup Jsons
    PROVE  LET c == [ Cmd(at, then, v, p) EXCEPT !.json = j ] IN
           /\ c \in Commands /\ c # None /\ c.at = at /\ c.then = then /\ c.version = v /\ c.profile = p
           /\ c.json = j /\ c.left = {}
<1>1. Cmd(at, then, v, p) =
          [ at |-> at, then |-> then, version |-> v, profile |-> p, left |-> {}, json |-> None ]
  BY DEF Cmd
<1>2. PICK c : c = [ at |-> at, then |-> then, version |-> v, profile |-> p, left |-> {}, json |-> j ]
  OBVIOUS
<1>3. c = [ Cmd(at, then, v, p) EXCEPT !.json = j ]
  BY <1>1, <1>2
<1>4. c \in Commands
  BY <1>2 DEF Commands
<1>. QED BY <1>1, <1>2, <1>3, <1>4, CmdNotNone

\* A command as the others start it.
LEMMA CmdStart ==
    ASSUME NEW at \in { "download", "drop", "caches" }, NEW then \in { "end", "switch", "create" },
           NEW v \in Versions, NEW p \in Versions
    PROVE  LET c == Cmd(at, then, v, p) IN
           /\ c \in Commands /\ c # None /\ c.at = at /\ c.then = then /\ c.version = v /\ c.profile = p
           /\ c.left = {}
<1>1. PICK c : c = Cmd(at, then, v, p)
  OBVIOUS
<1>2. c \in Commands
  BY <1>1 DEF Cmd, Commands
<1>. QED BY <1>1, <1>2, CmdNotNone DEF Cmd

\* clone writes a project.json of every version.
LEMMA CloneTypes ==
    ASSUME WTypes, NEW v \in Versions, NEW named \in BOOLEAN, Clone(v, named) PROVE WTypes'
<1>1. ASSUME NEW u \in OnHub, NEW b \in BOOLEAN PROVE Json(u, HubVersions, b) \in Jsons
  BY <1>1, HubVersionsAre, JsonIs, WorkspaceAssumption
<1>2. IsDir(top)'
  <2>1. Fits("json", Json(v, HubVersions, TRUE))
    BY <1>1, NamesAre DEF Fits, Clone
  <2>. QED BY <2>1, WithDir, NamesAre DEF Clone, WTypes, TypeOK
<1>3. IsCache(cache)'
  <2>1. ASSUME NEW u \in OnHub PROVE IsDir(With(Empty, "json", Json(u, HubVersions, FALSE)))
    <3>1. Fits("json", Json(u, HubVersions, FALSE))
      BY <1>1, NamesAre DEF Fits
    <3>. QED BY <3>1, WithDir, EmptyDir, NamesAre
  <2>. QED BY <2>1 DEF Clone, IsCache
<1>4. /\ cmd' \in Commands /\ cmd'.at = "download" /\ cmd'.then = "end"
      /\ cmd'.version = v /\ cmd'.profile = v /\ cmd' # None
  BY CmdStart DEF Clone
<1>5. TypeOK'
  BY <1>2, <1>3, <1>4 DEF Clone, WTypes, TypeOK, ghostVars, bounds
<1>. QED BY <1>4, <1>5 DEF WTypes, PlacesThere, CreateSound, StepsSound, AtSome, At

\* A revision is what a file may hold.
LEMMA EditTypes == ASSUME WTypes, NEW f \in Files, Edit(f) PROVE WTypes'
<1>1. revision' \in Nat /\ revision' \in Content
  BY DEF Edit, WTypes, TypeOK, Content
<1>2. Fits(f, revision') /\ f \in Names
  BY <1>1, NamesAre DEF Fits
<1>3. IsDir(top)'
  BY <1>2, WithDir DEF Edit, WTypes, TypeOK
<1>4. wanted' \in [ Versions -> { None } \cup [ Files -> Content ] ]
  <2>1. Current \in Versions
    BY FreeIs DEF Edit, WTypes, TypeOK
  <2>2. Model(top') \in [ Files -> Content ]
    BY <1>3, NamesAre DEF IsDir, HasModel, Model
  <2>. QED BY <2>1, <2>2 DEF Edit, WTypes, TypeOK
<1>5. cmd' = None
  BY DEF Edit, Free
<1>. QED BY <1>1, <1>3, <1>4, <1>5, NoCmdTypes DEF Edit, WTypes, TypeOK

\* pull only starts its command.
LEMMA PullTypes == ASSUME WTypes, Pull PROVE WTypes'
<1>1. /\ cmd' \in Commands /\ cmd'.at = "download" /\ cmd'.then = "end"
      /\ cmd'.version = cmd'.profile /\ cmd' # None
  BY CmdStart, FreeIs DEF Pull
<1>2. TypeOK'
  BY <1>1 DEF Pull, Counted, WTypes, TypeOK, ghostVars, diskVars
<1>. QED BY <1>1, <1>2 DEF WTypes, PlacesThere, CreateSound, StepsSound, AtSome, At

\* switch does too, for a version that is not the current one and has a cache.
LEMMA SwitchTypes == ASSUME WTypes, NEW v \in Versions, Switch(v) PROVE WTypes'
<1>1. /\ cmd' \in Commands /\ cmd'.at = "drop" /\ cmd'.then = "switch"
      /\ cmd'.version = v /\ cmd'.profile = Current /\ cmd' # None
  BY CmdStart, FreeIs DEF Switch
<1>2. TypeOK' /\ Legal'
  BY <1>1, FreeIs DEF Switch, Counted, WTypes, TypeOK, ghostVars, diskVars, Legal
<1>3. cache'[v] # None /\ v # Current
  BY DEF Switch, diskVars
<1>4. PlacesThere'
  BY <1>1, <1>3 DEF PlacesThere, AtSome, At
<1>5. StepsSound' /\ CreateSound'
  BY <1>1, <1>2, <1>3 DEF StepsSound, CreateSound, AtSome, At
<1>. QED BY <1>2, <1>4, <1>5 DEF WTypes

\* create puts the new version at the end of those the project knows, of which it has one at least.
LEMMA CreateTypes == ASSUME WTypes, NEW v \in Versions, Create(v) PROVE WTypes' /\ cmd' # None
<1>1. PICK j : j = [ top["json"] EXCEPT !.versions = Append(@, v) ]
  OBVIOUS
<1>2. /\ top["json"] \in Jsons /\ Current \in Versions
      /\ Known \in Seq(Versions) /\ Current \in ToSet(Known) /\ v \notin ToSet(Known)
  BY FreeIs DEF Create
<1>3. /\ j.versions = Append(Known, v) /\ j.current = Current /\ j.synced = top["json"].synced
      /\ j = [ current |-> j.current, versions |-> j.versions, synced |-> j.synced ]
  BY <1>1, <1>2 DEF Known, Current, Jsons
<1>4. /\ j.versions \in Seq(Versions) /\ Len(Known) \in Nat /\ Len(Known) > 0
      /\ Len(j.versions) = Len(Known) + 1 /\ \A i \in 1 .. Len(Known) : j.versions[i] = Known[i]
      /\ j.versions[Len(Known) + 1] = v
  BY <1>2, <1>3 DEF ToSet
<1>5. j.current \in ToSet(j.versions) /\ v \in ToSet(j.versions)
  BY <1>2, <1>3, <1>4 DEF ToSet
<1>6. j \in Jsons
  BY <1>2, <1>3, <1>4, <1>5, JsonHas DEF Jsons
<1>7. Len(j.versions) > 1 /\ SourceOf(j.versions) # v
  <2>1. SourceOf(j.versions) = Known[Len(Known)]
    BY <1>4 DEF SourceOf
  <2>. QED BY <1>2, <1>4, <2>1 DEF ToSet
<1>8. top' = With(top, "json", j)
  BY <1>1, NamesAre DEF Create, With, WTypes, TypeOK, IsDir, HasModel
<1>9. Fits("json", j)
  BY <1>6, NamesAre DEF Fits
<1>10. IsDir(top)' /\ top'["json"] = j
  BY <1>8, <1>9, WithDir, NamesAre DEF WTypes, TypeOK
<1>11. cmd' = [ Cmd("caches", "create", v, Current) EXCEPT !.json = j ]
  BY <1>10 DEF Create
<1>12. /\ cmd' \in Commands /\ cmd'.at = "caches" /\ cmd'.then = "create"
       /\ cmd'.version = v /\ cmd'.profile = Current /\ cmd' # None /\ cmd'.json = j
  BY <1>2, <1>6, <1>11, CmdMake
<1>13. wanted' \in [ Versions -> { None } \cup [ Files -> Content ] ]
  BY DEF Create, WTypes, TypeOK
<1>14. TypeOK'
  BY <1>10, <1>12, <1>13 DEF Create, Counted, WTypes, TypeOK
<1>15. Legal'
  BY <1>6, <1>10, JsonHas DEF Legal
<1>16. CreateSound'
  BY <1>5, <1>6, <1>7, <1>10, <1>12 DEF CreateSound, SourceOf
<1>17. v # Current
  BY <1>2
<1>. QED BY <1>12, <1>14, <1>15, <1>16, <1>17 DEF WTypes, PlacesThere, StepsSound, AtSome, At

\* A tidy directory is what the hub may hold.
LEMMA PushTypes == ASSUME WTypes, Push PROVE WTypes'
<1>1. IsPlain(top)
  <2>1. \A n \in { "lock", "temp", "stray" } : top[n] = None
    BY NamesAre DEF Push, Entries
  <2>. QED BY <2>1 DEF IsPlain, IsDir, WTypes, TypeOK
<1>2. IsHub(hub)'
  <2>1. PICK x : x = [ dir |-> top, gone |-> FALSE ]
    OBVIOUS
  <2>2. IsHub(hub) /\ Current \in Versions /\ top["json"] \in Jsons
    BY FreeIs DEF Push, WTypes, TypeOK
  <2>3. hub' = CacheMade(hub, Current, x)
    BY <2>1 DEF Push, CacheMade
  <2>4. IsVersion(x)
    BY <1>1, <2>1, <2>2 DEF IsVersion
  <2>. QED BY <2>2, <2>3, <2>4, HubWith
<1>. QED BY <1>2, FreeIs, NoCmdTypes DEF Push, Counted, WTypes, TypeOK, ghostVars, diskVars

\* A file that was fetched, in the directory of the download.
TempPut(d, n, x) == [ d EXCEPT !["temp"][n] = x ]

\* Putting it there leaves the rest of the directory alone.
LEMMA TempWith ==
    ASSUME NEW d, IsDir(d), d["temp"] # None, NEW n \in Files \cup { "json" }, NEW x, Fits(n, x),
           NEW e, e = TempPut(d, n, x)
    PROVE  /\ IsDir(e) /\ e["temp"] # None /\ e["temp"][n] = x
           /\ \A m \in Names \ { n } : e["temp"][m] = d["temp"][m]
           /\ \A m \in Names \ { "temp" } : e[m] = d[m]
<1>1. PICK t : t = [ d["temp"] EXCEPT ![n] = x ]
  OBVIOUS
<1>2. IsPlain(d["temp"]) /\ n \in Names /\ n \notin { "lock", "temp", "stray" } /\ "temp" \in Names
  BY NamesAre DEF IsDir
<1>3. t = [ m \in Names |-> IF m = n THEN x ELSE d["temp"][m] ]
  BY <1>1, <1>2 DEF IsPlain, HasModel
<1>4. \A m \in Names : t[m] = IF m = n THEN x ELSE d["temp"][m]
  BY <1>3
<1>5. IsPlain(t)
  <2>1. t = [ m \in Names |-> t[m] ]
    BY <1>3
  <2>2. \A f \in Files : t[f] \in Content
    BY <1>2, <1>4, NamesAre DEF IsPlain, HasModel, Fits
  <2>3. t["json"] \in { None, ErrorText } \cup Jsons
    BY <1>2, <1>4, NamesAre DEF IsPlain, HasModel, Fits
  <2>4. \A m \in { "lock", "temp", "stray" } : t[m] = None
    BY <1>2, <1>4, NamesAre DEF IsPlain
  <2>. QED BY <2>1, <2>2, <2>3, <2>4 DEF IsPlain, HasModel
<1>6. Fits("temp", t) /\ t # None
  BY <1>5, NamesAre, PlainIsDir, DirNotNone DEF Fits
<1>7. e = With(d, "temp", t)
  BY <1>1 DEF With, TempPut
<1>9. IsDir(e) /\ e["temp"] = t /\ \A m \in Names \ { "temp" } : e[m] = d[m]
  BY <1>2, <1>6, <1>7, WithDir
<1>. QED BY <1>2, <1>4, <1>6, <1>9

\* An entry of a cache.
CachePut(c, v, n, x) == [ c EXCEPT ![v][n] = x ]

\* Putting one there leaves the other caches alone.
LEMMA CacheEntry ==
    ASSUME NEW c, IsCache(c), NEW v \in Versions, c[v] # None, NEW n \in Names, NEW x, Fits(n, x),
           NEW e, e = CachePut(c, v, n, x)
    PROVE  /\ IsCache(e) /\ e[v] # None /\ IsDir(e[v]) /\ e[v][n] = x
           /\ \A m \in Names \ { n } : e[v][m] = c[v][m]
           /\ \A u \in Versions \ { v } : e[u] = c[u]
<1>1. IsDir(c[v])
  BY DEF IsCache
<1>2. PICK d : d = With(c[v], n, x)
  OBVIOUS
<1>3. IsDir(d) /\ d[n] = x /\ \A m \in Names \ { n } : d[m] = c[v][m]
  BY <1>1, <1>2, WithDir
<1>4. e = CacheMade(c, v, d)
  BY <1>2 DEF With, CachePut, CacheMade
<1>6. IsCache(e) /\ e[v] = d /\ \A u \in Versions \ { v } : e[u] = c[u]
  BY <1>3, <1>4, CacheWith
<1>. QED BY <1>3, <1>6, DirNotNone

\* What an entry of a directory may be anywhere.
LEMMA EntryFits == ASSUME NEW d, IsDir(d), NEW n \in Names PROVE Fits(n, d[n])
BY DirFits

\* A step of a command that only goes on.
GoesTo(x) ==
    /\ cmd' \in Commands /\ cmd' # None /\ cmd'.at = x /\ cmd'.then = cmd.then
    /\ cmd'.version = cmd.version /\ cmd'.profile = cmd.profile /\ cmd'.left = cmd.left /\ cmd'.json = cmd.json

\* What a step of that kind does to the command.
LEMMA Going ==
    ASSUME WTypes, cmd # None, NEW at \in { "lock", "name", "ask", "fetch", "leave", "clean", "install",
               "fetched", "drop", "save", "load", "mark", "switched", "new", "copy", "download" },
           Goes(at)
    PROVE  GoesTo(at)
BY CmdIs, CmdNotNone DEF Goes, GoesTo, Commands

\* Removing the directory an old lock names.
LEMMA ReadLockTypes == ASSUME WTypes, ReadLock PROVE WTypes'
<1>1. CASE top["lock"] = "empty"
  <2>1. top' = Empty /\ cache' = [ v \in Versions |-> None ] /\ torn' = TRUE /\ cmd' = None
    BY <1>1 DEF ReadLock, Ends
  <2>2. IsCache(cache)'
    BY <2>1 DEF IsCache
  <2>. QED BY <2>1, <2>2, EmptyDir, NoCmdTypes DEF ReadLock, WTypes, TypeOK, bounds
<1>2. CASE top["lock"] # "empty"
  <2>1. cmd # None /\ Goes("lock") /\ UNCHANGED << cache, torn >> /\ cmd.at = "download"
    BY <1>2 DEF ReadLock, At
  <2>2. GoesTo("lock")
    BY <2>1, Going
  <2>3. IsDir(top)'
    BY <1>2, WithoutDir, NamesAre DEF ReadLock, WTypes, TypeOK
  <2>4. TypeOK'
    BY <2>1, <2>2, <2>3 DEF ReadLock, WTypes, TypeOK, GoesTo, bounds
  <2>. QED BY <2>1, <2>2, <2>4 DEF GoesTo, WTypes, PlacesThere, CreateSound, StepsSound, AtSome, At
<1>. QED BY <1>1, <1>2

\* The lock is empty.
LEMMA OpenLockTypes == ASSUME WTypes, OpenLock PROVE WTypes'
<1>1. cmd # None /\ cmd.at = "lock" /\ GoesTo("name")
  BY Going DEF OpenLock, At
<1>2. Fits("lock", "empty")
  BY NamesAre DEF Fits
<1>3. IsDir(top)'
  BY <1>2, WithDir, NamesAre DEF OpenLock, WTypes, TypeOK
<1>4. TypeOK'
  BY <1>1, <1>3 DEF OpenLock, WTypes, TypeOK, GoesTo, bounds, ghostVars
<1>. QED BY <1>1, <1>4 DEF OpenLock, GoesTo, WTypes, PlacesThere, CreateSound, StepsSound, AtSome, At

\* The lock names a new and empty directory.
LEMMA NameLockTypes == ASSUME WTypes, NameLock PROVE WTypes' /\ top["temp"]' = Empty
<1>1. cmd # None /\ cmd.at = "name" /\ GoesTo("ask")
  BY Going DEF NameLock, At
<1>2. Fits("lock", "named") /\ Fits("temp", Empty)
  BY NamesAre, EmptyDir DEF Fits
<1>3. IsDir(With(top, "lock", "named"))
  BY <1>2, WithDir, NamesAre DEF WTypes, TypeOK
<1>4. IsDir(top)' /\ top'["temp"] = Empty
  BY <1>2, <1>3, WithDir, NamesAre DEF NameLock
<1>5. TypeOK'
  BY <1>1, <1>4 DEF NameLock, WTypes, TypeOK, GoesTo, bounds, ghostVars
<1>6. top'["temp"] # None
  BY <1>4, EmptyDir, DirNotNone
<1>. QED BY <1>1, <1>4, <1>5, <1>6 DEF NameLock, GoesTo, WTypes, PlacesThere, CreateSound, StepsSound, AtSome, At

\* A version that is not found ends the download.
LEMMA NotFoundTypes == ASSUME WTypes, NotFound PROVE WTypes' /\ At("ask") /\ GoesTo("leave")
<1>1. cmd # None /\ cmd.at = "ask" /\ GoesTo("leave")
  BY Going DEF NotFound, At
<1>2. TypeOK'
  BY <1>1 DEF NotFound, WTypes, TypeOK, GoesTo, bounds, diskVars, ghostVars
<1>. QED BY <1>1, <1>2 DEF GoesTo, WTypes, PlacesThere, CreateSound, StepsSound, AtSome, At

Asks == AskHub \/ \E others \in SUBSET Files : AskAnnounced(others)

\* What is to be fetched are files of a model, and its project.json.
LEMMA AskHubTypes ==
    ASSUME WTypes, Asks
    PROVE  /\ WTypes' /\ cmd # None /\ cmd.at = "ask" /\ cmd' # None /\ cmd'.at = "fetch"
           /\ cmd'.then = cmd.then /\ cmd'.version = cmd.version /\ cmd'.profile = cmd.profile
           /\ cmd'.json = cmd.json /\ "json" \in cmd'.left /\ cmd'.left \subseteq Files \cup { "json" }
           /\ top' = top /\ cache' = cache /\ hub' = hub /\ wanted' = wanted /\ torn' = torn
<1>1. cmd # None /\ cmd.at = "ask"
  BY DEF Asks, AskHub, AskAnnounced, At
<1>2. PICK s : /\ cmd' = [ cmd EXCEPT !.at = "fetch", !.left = s ]
               /\ s \subseteq Files \cup { "json" } /\ "json" \in s
  <2>1. CASE AskHub
    <3>1. PICK d : d = hub[cmd.profile].dir
      OBVIOUS
    <3>2. IsPlain(d) /\ d["json"] \in Jsons
      <4>1. cmd.profile \in Versions /\ hub[cmd.profile] # None
        BY <1>1, <2>1, CmdIs DEF AskHub
      <4>. QED BY <3>1, <4>1 DEF WTypes, TypeOK, IsHub
    <3>3. Entries(Sent(d)) \subseteq Files \cup { "json" } /\ "json" \in Entries(Sent(d))
      BY <3>2, SentIs, JsonHas, NamesAre, EntriesAre
    <3>4. cmd' = [ cmd EXCEPT !.at = "fetch", !.left = Entries(Sent(d)) ]
      BY <2>1, <3>1 DEF AskHub
    <3>. QED BY <3>3, <3>4
  <2>2. ASSUME NEW others \in SUBSET Files, AskAnnounced(others)
        PROVE  \E s : /\ cmd' = [ cmd EXCEPT !.at = "fetch", !.left = s ]
                      /\ s \subseteq Files \cup { "json" } /\ "json" \in s
    BY <2>2 DEF AskAnnounced
  <2>. QED BY <2>1, <2>2 DEF Asks
<1>3. /\ cmd' \in Commands /\ cmd'.at = "fetch" /\ cmd'.then = cmd.then /\ cmd'.left = s
      /\ cmd'.version = cmd.version /\ cmd'.profile = cmd.profile /\ cmd'.json = cmd.json
  BY <1>1, <1>2, CmdIs, NamesAre DEF Commands
<1>4. cmd' # None
  BY <1>3, CmdNotNone
<1>5. /\ top' = top /\ cache' = cache /\ hub' = hub /\ wanted' = wanted /\ torn' = torn
      /\ revision' = revision /\ commands' = commands /\ faults' \in Nat
  <2>1. faults \in Nat
    BY DEF WTypes, TypeOK
  <2>2. faults' \in { faults, faults + 1 }
    BY DEF Asks, AskHub, AskAnnounced, bounds
  <2>3. faults' \in Nat
    BY <2>1, <2>2
  <2>. QED BY <2>3 DEF Asks, AskHub, AskAnnounced, diskVars, bounds
<1>6. republished' \in BOOLEAN
  <2>1. ASSUME AskHub PROVE hub[cmd.profile].gone \in BOOLEAN
    BY <1>1, <2>1, CmdIs DEF AskHub, WTypes, TypeOK, IsHub
  <2>. QED BY <2>1 DEF Asks, AskHub, AskAnnounced
<1>7. TypeOK'
  BY <1>3, <1>5, <1>6 DEF WTypes, TypeOK
<1>8. CreateSound' /\ StepsSound'
  BY <1>1, <1>3, <1>4, <1>5 DEF WTypes, CreateSound, StepsSound, AtSome, At
<1>9. PlacesThere'
  BY <1>1, <1>2, <1>3, <1>4, <1>5 DEF WTypes, PlacesThere, AtSome, At
<1>. QED BY <1>1, <1>2, <1>3, <1>4, <1>5, <1>7, <1>8, <1>9 DEF WTypes

\* One file is fetched, or the body of an answer that is none.
LEMMA FetchTypes ==
    ASSUME WTypes, NEW n \in Names, Fetch(n) \/ FetchError(n)
    PROVE  /\ WTypes'
           /\ \/ top'["temp"][n] = ErrorText
              \/ hub[cmd.profile] # None /\ top'["temp"][n] = hub[cmd.profile].dir[n]
           /\ Fetch(n) => top'["temp"][n] = Body(cmd.profile, n)
           /\ \A m \in Names \ { n } : top'["temp"][m] = top["temp"][m]
           /\ \A m \in Names \ { "temp" } : top'[m] = top[m]
           /\ cmd # None /\ cmd' # None /\ cmd.at = "fetch" /\ cmd'.at = "fetch"
           /\ cmd'.then = cmd.then /\ cmd'.left = cmd.left \ { n } /\ cmd'.json = cmd.json
           /\ cmd'.version = cmd.version /\ cmd'.profile = cmd.profile
           /\ n \in cmd.left /\ cache' = cache /\ hub' = hub /\ wanted' = wanted /\ torn' = torn
<1>1. /\ cmd # None /\ cmd.at = "fetch" /\ n \in cmd.left
      /\ cmd' = [ cmd EXCEPT !.left = cmd.left \ { n } ]
  BY DEF Fetch, FetchError, At
<1>2. /\ cmd.left \subseteq Files \cup { "json" } /\ top["temp"] # None
      /\ cmd.profile \in Versions
  BY <1>1, CmdIs DEF WTypes, PlacesThere, AtSome, At
<1>3. PICK x : /\ top' = TempPut(top, n, x)
               /\ x = ErrorText \/ (hub[cmd.profile] # None /\ x = hub[cmd.profile].dir[n])
               /\ Fetch(n) => x = Body(cmd.profile, n)
  <2>1. CASE Fetch(n)
    <3>1. PICK x : x = Body(cmd.profile, n)
      OBVIOUS
    <3>2. top' = TempPut(top, n, x)
      BY <2>1, <3>1 DEF Fetch, TempPut
    <3>3. x = ErrorText \/ (hub[cmd.profile] # None /\ x = hub[cmd.profile].dir[n])
      BY <3>1 DEF Body
    <3>. QED BY <3>1, <3>2, <3>3
  <2>2. CASE FetchError(n) /\ ~Fetch(n)
    BY <2>2 DEF FetchError, TempPut
  <2>. QED BY <2>1, <2>2
<1>4. Fits(n, x)
  <2>1. CASE x = ErrorText
    BY <1>1, <1>2, <2>1, NamesAre DEF Fits, Content
  <2>2. CASE hub[cmd.profile] # None /\ x = hub[cmd.profile].dir[n]
    <3>1. IsDir(hub[cmd.profile].dir)
      BY <1>2, <2>2, PlainIsDir DEF WTypes, TypeOK, IsHub
    <3>. QED BY <2>2, <3>1, EntryFits
  <2>. QED BY <1>3, <2>1, <2>2
<1>5. n \in Files \cup { "json" }
  BY <1>1, <1>2
<1>6. /\ IsDir(top') /\ top'["temp"] # None /\ top'["temp"][n] = x
      /\ \A m \in Names \ { n } : top'["temp"][m] = top["temp"][m]
      /\ \A m \in Names \ { "temp" } : top'[m] = top[m]
  <2>1. IsDir(top)
    BY DEF WTypes, TypeOK
  <2>2. PICK e : e = TempPut(top, n, x)
    OBVIOUS
  <2>3. /\ IsDir(e) /\ e["temp"] # None /\ e["temp"][n] = x
        /\ \A m \in Names \ { n } : e["temp"][m] = top["temp"][m]
        /\ \A m \in Names \ { "temp" } : e[m] = top[m]
    BY <1>2, <1>4, <1>5, <2>1, <2>2, TempWith
  <2>. QED BY <1>3, <2>2, <2>3
<1>7. /\ cmd' \in Commands /\ cmd'.at = "fetch" /\ cmd'.then = cmd.then /\ cmd'.left = cmd.left \ { n }
      /\ cmd'.version = cmd.version /\ cmd'.profile = cmd.profile /\ cmd'.json = cmd.json
  BY <1>1, CmdIs DEF Commands
<1>8. cmd' # None
  BY <1>7, CmdNotNone
<1>9. /\ cache' = cache /\ hub' = hub /\ wanted' = wanted /\ torn' = torn /\ republished' \in BOOLEAN
      /\ revision' = revision /\ commands' = commands /\ faults' \in Nat
  <2>1. faults \in Nat /\ republished \in BOOLEAN
    BY DEF WTypes, TypeOK
  <2>2. faults' = faults \/ faults' = faults + 1
    BY DEF Fetch, FetchError, bounds
  <2>3. republished' = republished \/ republished' = TRUE
    BY DEF Fetch, FetchError, ghostVars
  <2>4. faults' \in Nat
    BY <2>1, <2>2
  <2>5. republished' \in BOOLEAN
    BY <2>1, <2>3, Zenon
  <2>6. cache' = cache /\ hub' = hub /\ wanted' = wanted /\ torn' = torn
    BY DEF Fetch, FetchError, ghostVars
  <2>7. revision' = revision /\ commands' = commands
    BY DEF Fetch, FetchError, bounds
  <2>. QED BY <2>4, <2>5, <2>6, <2>7
<1>10. TypeOK'
  BY <1>6, <1>7, <1>9 DEF WTypes, TypeOK
<1>11. CreateSound' /\ StepsSound' /\ PlacesThere'
  BY <1>1, <1>2, <1>6, <1>7, <1>8, <1>9 DEF WTypes, CreateSound, StepsSound, PlacesThere, AtSome, At, Legal
<1>12. \/ top'["temp"][n] = ErrorText
       \/ hub[cmd.profile] # None /\ top'["temp"][n] = hub[cmd.profile].dir[n]
  BY <1>3, <1>6
<1>13. Fetch(n) => top'["temp"][n] = Body(cmd.profile, n)
  BY <1>3, <1>6
<1>. QED BY <1>1, <1>6, <1>7, <1>8, <1>9, <1>10, <1>11, <1>12, <1>13 DEF WTypes

\* A download that fails goes on to its deferred part.
LEMMA DownloadFailsTypes ==
    ASSUME WTypes, DownloadFails
    PROVE  /\ WTypes' /\ cmd # None /\ cmd' # None /\ cmd.at \in { "ask", "fetch" } /\ cmd'.at = "leave"
           /\ cmd'.then \in { cmd.then, "end" } /\ cmd'.json = cmd.json
           /\ cmd'.version = cmd.version /\ cmd'.profile = cmd.profile
<1>1. cmd # None /\ cmd.at \in { "ask", "fetch" }
  BY DEF DownloadFails, At
<1>2. /\ cmd' \in Commands /\ cmd'.at = "leave" /\ cmd'.then \in { cmd.then, "end" }
      /\ cmd'.version = cmd.version /\ cmd'.profile = cmd.profile /\ cmd'.json = cmd.json
  BY <1>1, CmdIs DEF DownloadFails, Goes, Commands
<1>3. cmd' # None
  BY <1>2, CmdNotNone
<1>4. TypeOK'
  BY <1>2 DEF DownloadFails, WTypes, TypeOK, diskVars, ghostVars
<1>5. CreateSound' /\ StepsSound' /\ PlacesThere'
  BY <1>1, <1>2, <1>3 DEF WTypes, CreateSound, StepsSound, PlacesThere, AtSome, At
<1>. QED BY <1>1, <1>2, <1>3, <1>4, <1>5 DEF WTypes

\* When all is there the directory is cleaned.
LEMMA MergeFetchedTypes == ASSUME WTypes, MergeFetched PROVE WTypes'
<1>1. cmd # None /\ cmd.at = "fetch" /\ GoesTo("clean")
  BY Going DEF MergeFetched, At
<1>2. wanted' \in [ Versions -> { None } \cup [ Files -> Content ] ] /\ torn' \in BOOLEAN
  BY DEF MergeFetched, WTypes, TypeOK
<1>3. TypeOK'
  BY <1>1, <1>2 DEF MergeFetched, WTypes, TypeOK, GoesTo, bounds, diskVars
<1>. QED BY <1>1, <1>3 DEF MergeFetched, diskVars, GoesTo, WTypes, PlacesThere, CreateSound, StepsSound, AtSome, At

\* One entry is removed, and never the directory of the download.
LEMMA CleanTopTypes ==
    ASSUME WTypes, CleanTop
    PROVE  /\ WTypes' /\ cmd # None /\ cmd.at = "clean" /\ cmd' = cmd
           /\ \E n \in Names \ { "temp" } :
                 top'[n] = None /\ \A m \in Names \ { n } : top'[m] = top[m]
<1>1. cmd # None /\ cmd.at = "clean" /\ cmd' = cmd
  BY DEF CleanTop, At
<1>2. PICK n \in Names \ { "temp" } : n = First(Entries(top) \ { "temp" })
  BY FirstIn, EntriesAre DEF CleanTop
<1>3. IsDir(top') /\ top'[n] = None /\ \A m \in Names \ { n } : top'[m] = top[m]
  BY <1>2, WithoutDir DEF CleanTop, WTypes, TypeOK
<1>4. TypeOK'
  BY <1>1, <1>3 DEF CleanTop, WTypes, TypeOK, bounds, ghostVars
<1>5. top'["temp"] = top["temp"]
  BY <1>3, NamesAre
<1>6. CreateSound' /\ StepsSound' /\ PlacesThere'
  BY <1>1, <1>5 DEF CleanTop, WTypes, CreateSound, StepsSound, PlacesThere, AtSome, At
<1>. QED BY <1>1, <1>3, <1>4, <1>6 DEF WTypes

\* Then the files are moved.
LEMMA CleanedTypes == ASSUME WTypes, Cleaned PROVE WTypes'
<1>1. cmd # None /\ cmd.at = "clean" /\ GoesTo("install")
  BY Going DEF Cleaned, At
<1>2. TypeOK'
  BY <1>1 DEF Cleaned, WTypes, TypeOK, GoesTo, bounds, diskVars, ghostVars
<1>. QED BY <1>1, <1>2 DEF Cleaned, diskVars, GoesTo, WTypes, PlacesThere, CreateSound, StepsSound, AtSome, At

\* One file is moved from the directory of the download.
LEMMA InstallTypes ==
    ASSUME WTypes, Install
    PROVE  /\ WTypes' /\ cmd # None /\ cmd.at = "install" /\ cmd' = cmd
           /\ \E n \in Files \cup { "json" } :
                 /\ top["temp"][n] # None /\ top'["temp"][n] = None /\ top'[n] = top["temp"][n]
                 /\ \A m \in Names \ { n } : top'["temp"][m] = top["temp"][m]
                 /\ \A m \in Names \ { n, "temp" } : top'[m] = top[m]
<1>1. cmd # None /\ cmd.at = "install" /\ cmd' = cmd /\ top["temp"] # None
  BY DEF Install, At, WTypes, PlacesThere, AtSome
<1>2. IsDir(top) /\ IsPlain(top["temp"])
  BY <1>1 DEF WTypes, TypeOK, IsDir
<1>3. PICK n \in Names : n = First(Entries(top["temp"])) /\ top["temp"][n] # None
  BY FirstIn, EntriesAre DEF Install
<1>4. n \in Files \cup { "json" }
  BY <1>2, <1>3, NamesAre DEF IsPlain
<1>5. PICK x : x = top["temp"][n]
  OBVIOUS
<1>6. Fits(n, x) /\ Fits(n, None)
  BY <1>2, <1>5, EntryFits, PlainIsDir, NoneFits
<1>7. PICK e : e = TempPut(top, n, None)
  OBVIOUS
<1>8. /\ IsDir(e) /\ e["temp"] # None /\ e["temp"][n] = None
      /\ \A m \in Names \ { n } : e["temp"][m] = top["temp"][m]
      /\ \A m \in Names \ { "temp" } : e[m] = top[m]
  BY <1>1, <1>2, <1>4, <1>6, <1>7, TempWith
<1>9. top' = With(e, n, x)
  BY <1>3, <1>5, <1>7 DEF Install, TempPut
<1>10. IsDir(top') /\ top'[n] = x /\ \A m \in Names \ { n } : top'[m] = e[m]
  BY <1>6, <1>8, <1>9, WithDir
<1>11. n # "temp" /\ "temp" \in Names
  BY <1>4, NamesAre
<1>12. TypeOK'
  BY <1>1, <1>10 DEF Install, WTypes, TypeOK, bounds, ghostVars
<1>13. CreateSound' /\ StepsSound' /\ PlacesThere'
  BY <1>1, <1>8, <1>10, <1>11 DEF Install, WTypes, CreateSound, StepsSound, PlacesThere, AtSome, At
<1>. QED BY <1>1, <1>3, <1>4, <1>5, <1>8, <1>10, <1>11, <1>12, <1>13 DEF WTypes

\* The model in the directory is the work on the version.
LEMMA InstalledTypes == ASSUME WTypes, Installed PROVE WTypes'
<1>1. cmd # None /\ cmd.at = "install" /\ GoesTo("fetched")
  BY Going DEF Installed, At
<1>2. Model(top) \in [ Files -> Content ]
  BY DEF Model, WTypes, TypeOK, IsDir, HasModel
<1>3. wanted' \in [ Versions -> { None } \cup [ Files -> Content ] ]
  BY <1>2 DEF Installed, WTypes, TypeOK
<1>4. TypeOK'
  BY <1>1, <1>3 DEF Installed, WTypes, TypeOK, GoesTo, bounds, diskVars
<1>. QED BY <1>1, <1>4 DEF Installed, diskVars, GoesTo, WTypes, PlacesThere, CreateSound, StepsSound, AtSome, At

\* The directory of the download and the lock are removed, and nothing else.
LEMMA LeaveDownloadTypes ==
    ASSUME WTypes, LeaveDownload
    PROVE  /\ WTypes' /\ cmd # None /\ cmd.at \in { "leave", "fetched" }
           /\ \A m \in Names \ { "temp", "lock" } : top'[m] = top[m]
           /\ cmd' = None \/ (cmd.then = "switch" /\ GoesTo("mark"))
<1>1. cmd # None /\ cmd.at \in { "leave", "fetched" }
  BY DEF LeaveDownload, At
<1>2. PICK d : d = Without(top, "temp")
  OBVIOUS
<1>3. IsDir(d) /\ \A m \in Names \ { "temp" } : d[m] = top[m]
  BY <1>2, WithoutDir, NamesAre DEF WTypes, TypeOK
<1>4. IsDir(top') /\ \A m \in Names \ { "lock" } : top'[m] = d[m]
  BY <1>2, <1>3, WithoutDir, NamesAre DEF LeaveDownload
<1>5. cmd' = None \/ (cmd.then = "switch" /\ GoesTo("mark"))
  BY <1>1, Going DEF LeaveDownload, Ends
<1>6. TypeOK'
  BY <1>4, <1>5 DEF LeaveDownload, WTypes, TypeOK, GoesTo, bounds, ghostVars
<1>7. CASE cmd' = None
  BY <1>1, <1>3, <1>4, <1>6, <1>7, NoCmdTypes
<1>8. CASE cmd.then = "switch" /\ GoesTo("mark")
  <2>1. CreateSound' /\ StepsSound' /\ PlacesThere'
    BY <1>1, <1>8, JsonHas DEF GoesTo, WTypes, CreateSound, StepsSound, PlacesThere, AtSome, At
  <2>. QED BY <1>1, <1>3, <1>4, <1>6, <1>8, <2>1 DEF WTypes
<1>. QED BY <1>5, <1>7, <1>8

\* The cache of the current version is emptied, and no other.
LEMMA DropCacheTypes ==
    ASSUME WTypes, DropCache
    PROVE  /\ WTypes' /\ cmd # None /\ cmd.at = "drop" /\ GoesTo("save") /\ top' = top
           /\ cache'[cmd.profile] = Empty /\ \A u \in Versions \ { cmd.profile } : cache'[u] = cache[u]
<1>1. cmd # None /\ cmd.at = "drop" /\ GoesTo("save") /\ cmd.profile \in Versions
  BY Going, CmdIs DEF DropCache, At
<1>2. cache' = CacheMade(cache, cmd.profile, Empty)
  BY DEF DropCache, CacheMade
<1>3. /\ IsCache(cache') /\ cache'[cmd.profile] = Empty
      /\ \A u \in Versions \ { cmd.profile } : cache'[u] = cache[u]
  <2>1. IsCache(cache) /\ IsDir(Empty)
    BY EmptyDir DEF WTypes, TypeOK
  <2>. QED BY <1>1, <1>2, <2>1, CacheWith
<1>4. TypeOK'
  BY <1>1, <1>3 DEF DropCache, WTypes, TypeOK, GoesTo, bounds, ghostVars
<1>5. Empty # None
  BY EmptyDir, DirNotNone
<1>6. CreateSound' /\ StepsSound' /\ PlacesThere'
  <2>1. cmd.then = "create" => SourceOf(cmd.json.versions) \in Versions
    BY <1>1, JsonHas DEF WTypes, CreateSound, SourceOf
  <2>2. cmd.then = "create" => cache'[SourceOf(cmd.json.versions)] # None
    BY <1>1, <1>3, <1>5, <2>1 DEF WTypes, CreateSound
  <2>3. cmd.then = "create" => SourceOf(cmd'.json.versions) = SourceOf(cmd.json.versions)
    BY <1>1 DEF GoesTo
  <2>4. cmd.then = "switch" => cache'[cmd.version] # None
    <3>1. cmd.version \in Versions
      BY <1>1, CmdIs
    <3>. QED BY <1>1, <1>3, <1>5, <3>1 DEF WTypes, PlacesThere, AtSome
  <2>5. PlacesThere'
    BY <1>1, <1>3, <1>5, <2>4 DEF GoesTo, PlacesThere, AtSome, At
  <2>6. CreateSound'
    BY <1>1, <2>2, <2>3 DEF GoesTo, WTypes, CreateSound
  <2>. QED BY <1>1, <2>5, <2>6 DEF GoesTo, WTypes, StepsSound, AtSome, At
<1>. QED BY <1>1, <1>3, <1>4, <1>6 DEF WTypes, DropCache

\* One entry is moved to the cache of the version.
LEMMA SaveTypes ==
    ASSUME WTypes, Save
    PROVE  /\ WTypes' /\ cmd # None /\ cmd.at = "save" /\ cmd' = cmd
           /\ cache'[cmd.profile] # None /\ \A u \in Versions \ { cmd.profile } : cache'[u] = cache[u]
           /\ \E n \in Names :
                 /\ top[n] # None /\ top'[n] = None /\ cache'[cmd.profile][n] = top[n]
                 /\ \A m \in Names \ { n } :
                       top'[m] = top[m] /\ cache'[cmd.profile][m] = cache[cmd.profile][m]
<1>1. cmd # None /\ cmd.at = "save" /\ cmd' = cmd /\ cmd.profile \in Versions
  BY CmdIs DEF Save, At
<1>2. cache[cmd.profile] # None
  BY <1>1 DEF WTypes, PlacesThere, At
<1>3. PICK n \in Names : n = First(Entries(top)) /\ top[n] # None
  BY FirstIn, EntriesAre DEF Save
<1>4. top' = Without(top, n) /\ cache' = CachePut(cache, cmd.profile, n, top[n])
  BY <1>3 DEF Save, CachePut
<1>5. IsDir(top) /\ IsCache(cache)
  BY DEF WTypes, TypeOK
<1>6. IsDir(top') /\ top'[n] = None /\ \A m \in Names \ { n } : top'[m] = top[m]
  BY <1>4, <1>5, WithoutDir
<1>7. PICK x : x = top[n]
  OBVIOUS
<1>8. Fits(n, x)
  BY <1>5, <1>7, EntryFits
<1>9. /\ IsCache(cache') /\ cache'[cmd.profile] # None /\ cache'[cmd.profile][n] = x
      /\ \A m \in Names \ { n } : cache'[cmd.profile][m] = cache[cmd.profile][m]
      /\ \A u \in Versions \ { cmd.profile } : cache'[u] = cache[u]
  BY <1>1, <1>2, <1>4, <1>5, <1>7, <1>8, CacheEntry
<1>10. TypeOK'
  BY <1>1, <1>6, <1>9 DEF Save, WTypes, TypeOK, bounds, ghostVars
<1>11. CreateSound' /\ StepsSound' /\ PlacesThere'
  <2>1. cmd.then = "create" => SourceOf(cmd.json.versions) \in Versions
    BY <1>1, JsonHas DEF WTypes, CreateSound, SourceOf
  <2>2. cmd.then = "create" => cache'[SourceOf(cmd.json.versions)] # None
    BY <1>1, <1>9, <2>1 DEF WTypes, CreateSound
  <2>3. SourceOf(cmd'.json.versions) = SourceOf(cmd.json.versions)
    BY <1>1
  <2>. QED BY <1>1, <1>9, <2>2, <2>3
           DEF Save, WTypes, CreateSound, StepsSound, PlacesThere, AtSome, At
<1>. QED BY <1>1, <1>3, <1>6, <1>7, <1>9, <1>10, <1>11 DEF WTypes

\* A switch goes on with the other version, and create with the new one.
LEMMA SavedTypes == ASSUME WTypes, Saved PROVE WTypes'
<1>1. cmd # None /\ cmd.at = "save"
  BY DEF Saved, At
<1>2. cmd.then = "switch" \/ cmd.then = "create"
  BY <1>1, CmdIs DEF WTypes, StepsSound, AtSome
<1>3. CASE cmd.then = "switch"
  <2>1. GoesTo("load")
    BY <1>1, <1>3, Going DEF Saved
  <2>2. TypeOK'
    BY <1>1, <2>1 DEF Saved, WTypes, TypeOK, GoesTo, bounds, ghostVars, diskVars
  <2>3. cache'[cmd.version] # None
    BY <1>1, <1>3 DEF Saved, diskVars, WTypes, PlacesThere, AtSome
  <2>. QED BY <1>1, <1>3, <2>1, <2>2, <2>3 DEF Saved, diskVars, GoesTo, WTypes, CreateSound, StepsSound, PlacesThere, AtSome, At
<1>4. CASE cmd.then = "create"
  <2>1. GoesTo("new")
    BY <1>1, <1>4, Going DEF Saved
  <2>2. TypeOK'
    BY <1>1, <2>1 DEF Saved, WTypes, TypeOK, GoesTo, bounds, ghostVars, diskVars
  <2>3. SourceOf(cmd'.json.versions) = SourceOf(cmd.json.versions)
    BY <2>1 DEF GoesTo
  <2>. QED BY <1>1, <1>4, <2>1, <2>2, <2>3 DEF Saved, diskVars, GoesTo, WTypes, CreateSound, StepsSound, PlacesThere, AtSome, At
<1>. QED BY <1>2, <1>3, <1>4

\* One entry is moved from the cache of the version.
LEMMA LoadTypes ==
    ASSUME WTypes, Load
    PROVE  /\ WTypes' /\ cmd # None /\ cmd.at = "load" /\ cmd' = cmd
           /\ cache'[cmd.version] # None /\ \A u \in Versions \ { cmd.version } : cache'[u] = cache[u]
           /\ \E n \in Names :
                 /\ cache[cmd.version][n] # None /\ cache'[cmd.version][n] = None
                 /\ top'[n] = cache[cmd.version][n]
                 /\ \A m \in Names \ { n } :
                       top'[m] = top[m] /\ cache'[cmd.version][m] = cache[cmd.version][m]
<1>1. cmd # None /\ cmd.at = "load" /\ cmd' = cmd /\ cmd.version \in Versions /\ cmd.then = "switch"
  BY CmdIs DEF Load, At, WTypes, StepsSound, AtSome
<1>2. cache[cmd.version] # None
  BY <1>1 DEF WTypes, PlacesThere, AtSome
<1>3. PICK n \in Names : n = First(Entries(cache[cmd.version])) /\ cache[cmd.version][n] # None
  BY FirstIn, EntriesAre DEF Load
<1>4. top' = With(top, n, cache[cmd.version][n]) /\ cache' = CachePut(cache, cmd.version, n, None)
  BY <1>3 DEF Load, CachePut
<1>5. IsDir(top) /\ IsCache(cache) /\ IsDir(cache[cmd.version])
  BY <1>1, <1>2 DEF WTypes, TypeOK, IsCache
<1>6. PICK x : x = cache[cmd.version][n]
  OBVIOUS
<1>7. Fits(n, x) /\ Fits(n, None)
  BY <1>5, <1>6, EntryFits, NoneFits
<1>8. IsDir(top') /\ top'[n] = x /\ \A m \in Names \ { n } : top'[m] = top[m]
  BY <1>4, <1>5, <1>6, <1>7, WithDir
<1>9. /\ IsCache(cache') /\ cache'[cmd.version] # None /\ cache'[cmd.version][n] = None
      /\ \A m \in Names \ { n } : cache'[cmd.version][m] = cache[cmd.version][m]
      /\ \A u \in Versions \ { cmd.version } : cache'[u] = cache[u]
  BY <1>1, <1>2, <1>4, <1>5, <1>7, CacheEntry
<1>10. TypeOK'
  BY <1>1, <1>8, <1>9 DEF Load, WTypes, TypeOK, bounds, ghostVars
<1>11. CreateSound' /\ StepsSound' /\ PlacesThere'
  BY <1>1, <1>9 DEF Load, WTypes, CreateSound, StepsSound, PlacesThere, AtSome, At
<1>. QED BY <1>1, <1>3, <1>6, <1>8, <1>9, <1>10, <1>11 DEF WTypes

\* A switch ends without a project.json, and otherwise goes on as that says.
LEMMA LoadedTypes ==
    ASSUME WTypes, Loaded
    PROVE  /\ WTypes' /\ cmd # None /\ cmd.at = "load" /\ cmd.then = "switch"
           /\ \/ ~Legal /\ cmd' = None
              \/ /\ Legal /\ cmd' # None /\ cmd'.at \in { "switched", "download" } /\ cmd'.then = "switch"
                 /\ cmd'.version = cmd.version /\ cmd'.profile = cmd.profile
                 /\ cmd'.json = top["json"] /\ top["json"] \in Jsons
<1>1. cmd # None /\ cmd.at = "load" /\ cmd.then = "switch"
  BY DEF Loaded, At, WTypes, StepsSound, AtSome
<1>2. CASE ~Legal
  <2>1. cmd' = None
    BY <1>2 DEF Loaded, Legal, Ends
  <2>2. TypeOK'
    BY <2>1 DEF Loaded, WTypes, TypeOK, bounds, ghostVars, diskVars
  <2>. QED BY <1>1, <1>2, <2>1, <2>2, NoCmdTypes
<1>3. CASE Legal
  <2>1. top["json"] \in Jsons
    BY <1>3 DEF Legal, WTypes, TypeOK, IsDir, HasModel
  <2>2. PICK at \in { "switched", "download" } : cmd' = [ cmd EXCEPT !.at = at, !.json = top["json"] ]
    BY <1>3 DEF Loaded, Legal
  <2>3. /\ cmd' \in Commands /\ cmd'.at = at /\ cmd'.then = cmd.then /\ cmd'.left = cmd.left
        /\ cmd'.version = cmd.version /\ cmd'.profile = cmd.profile /\ cmd'.json = top["json"]
    BY <1>1, <2>1, <2>2, CmdIs DEF Commands
  <2>4. cmd' # None
    BY <2>3, CmdNotNone
  <2>5. TypeOK'
    BY <2>3 DEF Loaded, WTypes, TypeOK, bounds, ghostVars, diskVars
  <2>6. CreateSound' /\ StepsSound' /\ PlacesThere'
    BY <1>1, <2>1, <2>3, <2>4 DEF Loaded, diskVars, WTypes, CreateSound, StepsSound, PlacesThere, AtSome, At
  <2>. QED BY <1>1, <1>3, <2>1, <2>3, <2>4, <2>5, <2>6 DEF WTypes
<1>. QED BY <1>2, <1>3

\* The project.json that was read is written again, with its mark.
LEMMA MarkSyncedTypes ==
    ASSUME WTypes, MarkSynced
    PROVE  /\ WTypes' /\ cmd # None /\ cmd.at = "mark" /\ cmd.then = "switch" /\ GoesTo("switched")
           /\ cmd.json \in Jsons /\ top'["json"] \in Jsons /\ top'["json"].current = cmd.json.current
           /\ \A m \in Names \ { "json" } : top'[m] = top[m]
<1>1. cmd # None /\ cmd.at = "mark" /\ GoesTo("switched") /\ cmd.then = "switch" /\ cmd.json \in Jsons
  BY Going DEF MarkSynced, At, WTypes, StepsSound, AtSome
<1>2. PICK j : j = [ cmd.json EXCEPT !.synced = TRUE ]
  OBVIOUS
<1>3. j \in Jsons /\ j.current = cmd.json.current
  BY <1>1, <1>2 DEF Jsons
<1>4. Fits("json", j)
  BY <1>3, NamesAre DEF Fits
<1>5. IsDir(top') /\ top'["json"] = j /\ \A m \in Names \ { "json" } : top'[m] = top[m]
  <2>1. top' = With(top, "json", j)
    BY <1>2 DEF MarkSynced
  <2>2. IsDir(top) /\ "json" \in Names
    BY NamesAre DEF WTypes, TypeOK
  <2>. QED BY <1>4, <2>1, <2>2, WithDir
<1>6. TypeOK'
  BY <1>1, <1>5 DEF MarkSynced, WTypes, TypeOK, GoesTo, bounds, ghostVars
<1>7. CreateSound' /\ StepsSound' /\ PlacesThere'
  BY <1>1 DEF MarkSynced, GoesTo, WTypes, CreateSound, StepsSound, PlacesThere, AtSome, At
<1>. QED BY <1>1, <1>3, <1>5, <1>6, <1>7 DEF WTypes

\* The end of a switch changes nothing.
LEMMA SwitchEndsTypes == ASSUME WTypes, SwitchEnds PROVE WTypes' /\ cmd' = None
<1>1. cmd' = None
  BY DEF SwitchEnds, Ends
<1>2. TypeOK'
  BY <1>1 DEF SwitchEnds, WTypes, TypeOK, bounds, ghostVars, diskVars
<1>. QED BY <1>1, <1>2, NoCmdTypes

\* A directory gets the project.json of a version.
Marked(d, e, u) ==
    /\ IsDir(e) /\ e["json"] \in Jsons /\ e["json"].current = u
    /\ \A m \in Names \ { "json" } : e[m] = d[m]

\* Writing one makes such a directory.
LEMMA WithJson ==
    ASSUME NEW s \in Seq(Versions), NEW u \in ToSet(s), NEW d, IsDir(d), NEW b \in BOOLEAN
    PROVE  Marked(d, With(d, "json", Json(u, s, b)), u)
<1>1. u \in Versions
  BY DEF ToSet
<1>2. PICK j : j = Json(u, s, b)
  OBVIOUS
<1>3. j \in Jsons /\ j.current = u
  BY <1>1, <1>2, JsonIs
<1>4. Fits("json", j) /\ "json" \in Names
  BY <1>3, NamesAre DEF Fits
<1>5. PICK e : e = With(d, "json", j)
  OBVIOUS
<1>6. IsDir(e) /\ e["json"] = j /\ \A m \in Names \ { "json" } : e[m] = d[m]
  BY <1>4, <1>5, WithDir
<1>. QED BY <1>2, <1>3, <1>5, <1>6 DEF Marked

\* Every version the project knows gets its project.json, and those of others stay.
LEMMA WriteCachesTypes ==
    ASSUME WTypes, WriteCaches
    PROVE  /\ WTypes' /\ cmd # None /\ cmd.at = "caches" /\ cmd.then = "create" /\ GoesTo("drop")
           /\ Legal /\ top' = top
           /\ \A u \in Versions : cache[u] # None => cache'[u] # None
           /\ \A u \in Versions : cache'[u] # None =>
                 \/ cache[u] # None /\ cache'[u] = cache[u]
                 \/ /\ cache'[u]["json"] \in Jsons /\ cache'[u]["json"].current = u
                    /\ cache[u] # None => \A m \in Names \ { "json" } : cache'[u][m] = cache[u][m]
<1>1. /\ cmd # None /\ cmd.at = "caches" /\ GoesTo("drop") /\ cmd.then = "create"
      /\ cmd.json \in Jsons /\ top["json"] = cmd.json /\ Len(cmd.json.versions) > 1
  BY Going DEF WriteCaches, At, WTypes, StepsSound, CreateSound, AtSome
<1>2. Known = cmd.json.versions /\ Known \in Seq(Versions)
  BY <1>1, JsonHas DEF Known
<1>4. IsCache(cache)
  BY DEF WTypes, TypeOK
<1>5. ASSUME NEW u \in Versions
      PROVE  /\ cache'[u] = None \/ IsDir(cache'[u])
             /\ cache[u] # None => cache'[u] # None
             /\ u \in ToSet(Known) => cache'[u] # None
             /\ cache'[u] # None =>
                 \/ cache[u] # None /\ cache'[u] = cache[u]
                 \/ /\ cache'[u]["json"] \in Jsons /\ cache'[u]["json"].current = u
                    /\ cache[u] # None => \A m \in Names \ { "json" } : cache'[u][m] = cache[u][m]
  <2>1. CASE u \notin ToSet(Known)
    <3>1. cache'[u] = cache[u]
      BY <2>1 DEF WriteCaches
    <3>. QED BY <1>4, <2>1, <3>1 DEF IsCache
  <2>2. CASE u \in ToSet(Known)
    <3>1. PICK d : d = IF cache[u] = None THEN Empty ELSE cache[u]
      OBVIOUS
    <3>2. IsDir(d)
      BY <1>4, <3>1, EmptyDir DEF IsCache
    <3>3. cache'[u] = With(d, "json", Json(u, Known, cmd.json.synced))
      BY <2>2, <3>1 DEF WriteCaches
    <3>4. Marked(d, cache'[u], u)
      <4>1. PICK k, b : k = Known /\ b = cmd.json.synced
        OBVIOUS
      <4>2. /\ k \in Seq(Versions) /\ u \in ToSet(k) /\ b \in BOOLEAN
            /\ cache'[u] = With(d, "json", Json(u, k, b))
        BY <1>1, <1>2, <2>2, <3>3, <4>1, JsonHas
      <4>3. Marked(d, With(d, "json", Json(u, k, b)), u)
        BY <3>2, <4>2, WithJson, Zenon
      <4>. QED BY <4>2, <4>3, Zenon
    <3>5. cache'[u] # None
      BY <3>4, DirNotNone DEF Marked
    <3>. QED BY <3>1, <3>4, <3>5 DEF Marked
  <2>. QED BY <2>1, <2>2
<1>6. IsCache(cache')
  <2>1. cache' = [ u \in Versions |-> cache'[u] ]
    BY DEF WriteCaches
  <2>. QED BY <1>5, <2>1 DEF IsCache
<1>7. TypeOK'
  BY <1>1, <1>6 DEF WriteCaches, WTypes, TypeOK, GoesTo, bounds, ghostVars
<1>8. Legal
  BY <1>1, JsonHas DEF Legal
<1>9. SourceOf(cmd.json.versions) \in ToSet(Known) /\ SourceOf(cmd.json.versions) \in Versions
  BY <1>1, <1>2 DEF SourceOf, ToSet
<1>10. SourceOf(cmd'.json.versions) = SourceOf(cmd.json.versions)
  BY <1>1 DEF GoesTo
<1>11. cache'[SourceOf(cmd.json.versions)] # None
  BY <1>5, <1>9
<1>12. CreateSound' /\ StepsSound' /\ PlacesThere'
  <2>1. Legal'
    BY <1>8 DEF Legal, WriteCaches
  <2>. QED BY <1>1, <2>1, <1>10, <1>11 DEF WriteCaches, GoesTo, WTypes, CreateSound, StepsSound, PlacesThere, AtSome, At
<1>. QED BY <1>1, <1>5, <1>7, <1>8, <1>12 DEF WTypes, WriteCaches

\* The directory of a new version has a project.json, and is to get the files of the one before.
LEMMA NewVersionTypes ==
    ASSUME WTypes, NewVersion
    PROVE  /\ WTypes' /\ cmd # None /\ cmd.at = "new" /\ cmd.then = "create"
           /\ cmd' # None /\ cmd'.at = "copy" /\ cmd'.then = "create" /\ cmd'.json = cmd.json
           /\ cmd'.version = cmd.version /\ cmd'.profile = cmd.profile
           /\ cmd'.left = Entries(cache[SourceOf(cmd.json.versions)]) \ { "json" }
           /\ top'["json"] \in Jsons /\ top'["json"].current = cmd.version
           /\ \A m \in Names \ { "json" } : top'[m] = None
<1>1. /\ cmd # None /\ cmd.at = "new" /\ cmd.then = "create" /\ cmd.json \in Jsons
      /\ cmd.version \in ToSet(cmd.json.versions)
  BY DEF NewVersion, At, WTypes, StepsSound, CreateSound, AtSome
<1>2. cmd.json.versions \in Seq(Versions)
  BY <1>1, JsonHas
<1>3. PICK s, b : s = cmd.json.versions /\ b = cmd.json.synced
  OBVIOUS
<1>4. Marked(Empty, top', cmd.version)
  <2>1. top' = With(Empty, "json", Json(cmd.version, s, b))
    BY <1>3 DEF NewVersion
  <2>2. Marked(Empty, With(Empty, "json", Json(cmd.version, s, b)), cmd.version)
    <3>1. s \in Seq(Versions) /\ cmd.version \in ToSet(s) /\ b \in BOOLEAN /\ cmd.version \in Versions
      BY <1>1, <1>2, <1>3, JsonHas
    <3>. QED BY <3>1, EmptyDir, WithJson
  <2>. QED BY <2>1, <2>2
<1>5. \A m \in Names \ { "json" } : top'[m] = None
  BY <1>4, EmptyDir DEF Marked
<1>6. PICK l : l = Entries(cache[SourceOf(cmd.json.versions)]) \ { "json" }
  OBVIOUS
<1>7. l \subseteq Names
  BY <1>6, EntriesAre
<1>8. cmd' = [ cmd EXCEPT !.at = "copy", !.left = l ]
  BY <1>6 DEF NewVersion
<1>9. /\ cmd' \in Commands /\ cmd'.at = "copy" /\ cmd'.then = cmd.then /\ cmd'.left = l
      /\ cmd'.version = cmd.version /\ cmd'.profile = cmd.profile /\ cmd'.json = cmd.json
  BY <1>1, <1>7, <1>8, CmdIs DEF Commands
<1>10. cmd' # None
  BY <1>9, CmdNotNone
<1>11. TypeOK'
  BY <1>4, <1>9 DEF NewVersion, WTypes, TypeOK, Marked, bounds, ghostVars
<1>12. SourceOf(cmd'.json.versions) = SourceOf(cmd.json.versions) /\ cache' = cache
  BY <1>9 DEF NewVersion
<1>13. CreateSound'
  BY <1>1, <1>9, <1>10, <1>12 DEF WTypes, CreateSound
<1>14. StepsSound' /\ PlacesThere'
  BY <1>1, <1>9, <1>10 DEF WTypes, StepsSound, PlacesThere, AtSome, At
<1>. QED BY <1>1, <1>4, <1>5, <1>6, <1>9, <1>10, <1>11, <1>13, <1>14 DEF WTypes, Marked

\* One of these files is copied.
LEMMA CopyTypes ==
    ASSUME WTypes, Copy
    PROVE  /\ WTypes' /\ cmd # None /\ cmd.at = "copy" /\ cmd.then = "create"
           /\ cmd' # None /\ cmd'.at = "copy" /\ cmd'.then = "create" /\ cmd'.json = cmd.json
           /\ cmd'.version = cmd.version /\ cmd'.profile = cmd.profile
           /\ \E n \in cmd.left :
                 /\ cmd'.left = cmd.left \ { n }
                 /\ top'[n] = cache[SourceOf(cmd.json.versions)][n]
                 /\ \A m \in Names \ { n } : top'[m] = top[m]
<1>1. cmd # None /\ cmd.at = "copy" /\ cmd.then = "create" /\ cmd.left # {} /\ cmd.left \subseteq Names
  BY CmdIs DEF Copy, At, WTypes, StepsSound, AtSome
<1>2. SourceOf(cmd.json.versions) \in Versions /\ cache[SourceOf(cmd.json.versions)] # None
  BY <1>1, JsonHas DEF WTypes, CreateSound, SourceOf
<1>3. PICK d : d = cache[SourceOf(cmd.json.versions)]
  OBVIOUS
<1>4. IsDir(d)
  BY <1>2, <1>3 DEF WTypes, TypeOK, IsCache
<1>5. PICK n \in cmd.left : n = First(cmd.left)
  BY <1>1, FirstIn
<1>6. PICK x : x = d[n]
  OBVIOUS
<1>7. Fits(n, x) /\ n \in Names
  BY <1>1, <1>4, <1>6, EntryFits
<1>8. top' = With(top, n, x) /\ cmd' = [ cmd EXCEPT !.left = cmd.left \ { n } ]
  BY <1>3, <1>5, <1>6 DEF Copy
<1>9. IsDir(top') /\ top'[n] = x /\ \A m \in Names \ { n } : top'[m] = top[m]
  <2>1. IsDir(top)
    BY DEF WTypes, TypeOK
  <2>. QED BY <1>7, <1>8, <2>1, WithDir
<1>10. /\ cmd' \in Commands /\ cmd'.at = "copy" /\ cmd'.then = cmd.then /\ cmd'.left = cmd.left \ { n }
       /\ cmd'.version = cmd.version /\ cmd'.profile = cmd.profile /\ cmd'.json = cmd.json
  BY <1>1, <1>8, CmdIs DEF Commands
<1>11. cmd' # None
  BY <1>10, CmdNotNone
<1>12. TypeOK'
  BY <1>9, <1>10 DEF Copy, WTypes, TypeOK, bounds, ghostVars
<1>13. SourceOf(cmd'.json.versions) = SourceOf(cmd.json.versions) /\ cache' = cache
  BY <1>10 DEF Copy
<1>14. CreateSound'
  BY <1>1, <1>10, <1>11, <1>13 DEF WTypes, CreateSound
<1>15. StepsSound' /\ PlacesThere'
  BY <1>1, <1>10, <1>11 DEF WTypes, StepsSound, PlacesThere, AtSome, At
<1>. QED BY <1>1, <1>3, <1>6, <1>9, <1>10, <1>11, <1>12, <1>14, <1>15 DEF WTypes

\* The end of create only tells what the work on the new version is.
LEMMA CreatedTypes ==
    ASSUME WTypes, Created
    PROVE  /\ WTypes' /\ cmd' = None /\ cmd # None /\ cmd.at = "copy" /\ cmd.then = "create"
           /\ SourceOf(cmd.json.versions) \in Versions /\ cache[SourceOf(cmd.json.versions)] # None
<1>1. cmd' = None /\ cmd # None /\ cmd.at = "copy" /\ cmd.then = "create"
  BY DEF Created, Ends, At, WTypes, StepsSound, AtSome
<1>2. SourceOf(cmd.json.versions) \in Versions /\ cache[SourceOf(cmd.json.versions)] # None
  BY <1>1, JsonHas DEF WTypes, CreateSound, SourceOf
<1>3. Model(top) \in [ Files -> Content ]
  BY DEF Model, WTypes, TypeOK, IsDir, HasModel
<1>4. PICK w : w = IF wanted[SourceOf(cmd.json.versions)] = None THEN Model(top)
                   ELSE wanted[SourceOf(cmd.json.versions)]
  OBVIOUS
<1>5. w \in [ Files -> Content ] /\ wanted' = [ wanted EXCEPT ![cmd.version] = w ]
  <2>1. wanted \in [ Versions -> { None } \cup [ Files -> Content ] ]
    BY DEF WTypes, TypeOK
  <2>2. wanted' = [ wanted EXCEPT ![cmd.version] = w ]
    BY <1>4 DEF Created
  <2>. QED BY <1>2, <1>3, <1>4, <2>1, <2>2
<1>6. wanted' \in [ Versions -> { None } \cup [ Files -> Content ] ]
  BY <1>5 DEF WTypes, TypeOK
<1>7. TypeOK'
  BY <1>1, <1>6 DEF Created, WTypes, TypeOK, bounds, diskVars
<1>. QED BY <1>1, <1>2, <1>7, NoCmdTypes

\* The hub changes beneath a command that runs.
LEMMA WithdrawTypes ==
    ASSUME WTypes, NEW v \in Versions, Withdraw(v)
    PROVE  /\ WTypes' /\ hub[v] # None /\ hub'[v] # None /\ hub'[v].dir = hub[v].dir
           /\ \A u \in Versions \ { v } : hub'[u] = hub[u]
<1>1. hub[v] # None /\ IsVersion(hub[v]) /\ IsHub(hub)
  BY DEF Withdraw, WTypes, TypeOK, IsHub, IsVersion
<1>2. PICK x : x = [ hub[v] EXCEPT !.gone = TRUE ]
  OBVIOUS
<1>3. IsVersion(x) /\ x.dir = hub[v].dir
  <2>1. PICK d, g : hub[v] = [ dir |-> d, gone |-> g ]
    BY <1>1 DEF IsVersion
  <2>2. x = [ dir |-> d, gone |-> TRUE ]
    <3>1. x = [ [ dir |-> d, gone |-> g ] EXCEPT !.gone = TRUE ]
      BY <1>2, <2>1, Zenon
    <3>. QED BY <3>1
  <2>. QED BY <1>1, <2>1, <2>2 DEF IsVersion
<1>4. hub' = CacheMade(hub, v, x)
  BY <1>2 DEF Withdraw, CacheMade
<1>5. IsHub(hub') /\ hub'[v] = x /\ x # None /\ \A u \in Versions \ { v } : hub'[u] = hub[u]
  BY <1>1, <1>3, <1>4, HubWith
<1>6. TypeOK'
  BY <1>5 DEF Withdraw, Touched, WTypes, TypeOK, bounds, diskVars
<1>7. \A u \in Versions : hub[u] # None => hub'[u] # None
  BY <1>5
<1>8. CreateSound' /\ StepsSound' /\ PlacesThere'
  BY <1>7, CmdIs DEF Withdraw, diskVars, WTypes, CreateSound, StepsSound, PlacesThere, Legal, AtSome, At
<1>. QED BY <1>1, <1>3, <1>5, <1>6, <1>8 DEF WTypes

\* A version comes back with other files.
LEMMA RepublishTypes ==
    ASSUME WTypes, NEW v \in Versions, Republish(v)
    PROVE  /\ WTypes' /\ hub[v] # None /\ hub'[v] # None /\ hub'[v].dir["json"] = hub[v].dir["json"]
           /\ \A u \in Versions \ { v } : hub'[u] = hub[u]
<1>1. /\ hub[v] # None /\ IsPlain(hub[v].dir) /\ hub[v].dir["json"] \in Jsons /\ IsHub(hub)
      /\ revision' \in Nat
  BY DEF Republish, WTypes, TypeOK, IsHub
<1>2. PICK d : d = [ n \in Names |-> IF n \in Files THEN revision' ELSE hub[v].dir[n] ]
  OBVIOUS
<1>3. IsPlain(d) /\ d["json"] = hub[v].dir["json"]
  <2>1. d = [ n \in Names |-> d[n] ]
    BY <1>2
  <2>2. \A f \in Files : d[f] \in Content
    BY <1>1, <1>2, NamesAre DEF Content
  <2>3. \A n \in { "json", "lock", "temp", "stray" } : d[n] = hub[v].dir[n]
    BY <1>2, NamesAre
  <2>. QED BY <1>1, <2>1, <2>2, <2>3 DEF IsPlain, HasModel
<1>4. PICK x : x = [ dir |-> d, gone |-> FALSE ]
  OBVIOUS
<1>5. IsVersion(x) /\ x.dir = d
  BY <1>1, <1>3, <1>4 DEF IsVersion
<1>6. hub' = CacheMade(hub, v, x)
  BY <1>2, <1>4 DEF Republish, CacheMade
<1>7. IsHub(hub') /\ hub'[v] = x /\ x # None /\ \A u \in Versions \ { v } : hub'[u] = hub[u]
  BY <1>1, <1>5, <1>6, HubWith
<1>8. TypeOK'
  BY <1>1, <1>7 DEF Republish, Touched, WTypes, TypeOK, diskVars
<1>9. \A u \in Versions : hub[u] # None => hub'[u] # None
  BY <1>7
<1>10. CreateSound' /\ StepsSound' /\ PlacesThere'
  BY <1>9, CmdIs DEF Republish, diskVars, WTypes, CreateSound, StepsSound, PlacesThere, Legal, AtSome, At
<1>. QED BY <1>1, <1>3, <1>5, <1>7, <1>8, <1>10 DEF WTypes

\* The command is killed: what it worked on stays, but the directory of a download may get
\* a name no lock has.
LEMMA KillTypes ==
    ASSUME WTypes, Kill
    PROVE  /\ WTypes' /\ cmd # None /\ cmd' = None
           /\ \A m \in Names \ { "temp", "stray" } : top'[m] = top[m]
           /\ top["temp"] # None => top'["temp"] # None \/ top'["stray"] # None
           /\ top["stray"] # None => top'["stray"] # None
<1>1. cmd # None /\ cmd' = None
  BY DEF Kill, Ends
<1>2. CASE ~(top["temp"] # None /\ top["lock"] # "named")
  <2>1. top' = top
    BY <1>2 DEF Kill
  <2>2. TypeOK'
    BY <1>1, <2>1 DEF Kill, WTypes, TypeOK
  <2>. QED BY <1>1, <2>1, <2>2, NoCmdTypes
<1>3. CASE top["temp"] # None /\ top["lock"] # "named"
  <2>1. PICK d : d = Without(top, "temp")
    OBVIOUS
  <2>2. IsDir(d) /\ \A m \in Names \ { "temp" } : d[m] = top[m]
    BY <2>1, WithoutDir, NamesAre DEF WTypes, TypeOK
  <2>3. Fits("stray", "dir") /\ "stray" \in Names
    BY NamesAre DEF Fits
  <2>4. top' = With(d, "stray", "dir")
    BY <1>3, <2>1 DEF Kill
  <2>5. IsDir(top') /\ top'["stray"] = "dir" /\ \A m \in Names \ { "stray" } : top'[m] = d[m]
    BY <2>2, <2>3, <2>4, WithDir
  <2>6. TypeOK'
    BY <1>1, <2>5 DEF Kill, WTypes, TypeOK
  <2>7. "dir" # None
    BY NoneAssumption
  <2>. QED BY <1>1, <2>2, <2>5, <2>6, <2>7, NoCmdTypes
<1>. QED BY <1>2, <1>3

\* Every step keeps the types.
LEMMA NextTypes == ASSUME WTypes, [Next]_vars PROVE WTypes'
<1>1. CASE User
  BY <1>1, InitProjectTypes, SwitchTypes, CreateTypes, CloneTypes, EditTypes, PullTypes, PushTypes DEF User
<1>2. CASE Download
  BY <1>2, ReadLockTypes, OpenLockTypes, NameLockTypes, NotFoundTypes, AskHubTypes, DownloadFailsTypes,
     FetchTypes, MergeFetchedTypes, CleanTopTypes, CleanedTypes, InstallTypes, InstalledTypes,
     LeaveDownloadTypes DEF Download, Asks
<1>3. CASE Version
  BY <1>3, DropCacheTypes, SaveTypes, SavedTypes, LoadTypes, LoadedTypes, MarkSyncedTypes, SwitchEndsTypes,
     WriteCachesTypes, NewVersionTypes, CopyTypes, CreatedTypes DEF Version
<1>4. CASE Kill
  BY <1>4, KillTypes
<1>5. CASE \E v \in Versions : Withdraw(v) \/ Republish(v)
  BY <1>5, WithdrawTypes, RepublishTypes
<1>6. CASE UNCHANGED vars
  BY <1>6 DEF vars, diskVars, ghostVars, bounds, WTypes, TypeOK, PlacesThere, CreateSound, StepsSound,
              Legal, AtSome, At
<1>. QED BY <1>1, <1>2, <1>3, <1>4, <1>5, <1>6 DEF Next

-----------------------------------------------------------------------------
(* A pull fetches the model of the hub *)

\* Without a download there is nothing to show.
LEMMA NotFetching ==
    ASSUME cmd' = None \/ cmd'.at \notin { "ask", "fetch", "clean", "install", "fetched" }
    PROVE  FetchSound'
BY DEF FetchSound, Fetching, AtSome, At

\* The commands of the user do not start by fetching, and push starts none.
LEMMA UserFetch == ASSUME WTypes, User PROVE FetchSound'
<1>1. ASSUME NEW v \in Versions, InitProject(v) PROVE FetchSound'
  BY <1>1, NotFetching DEF InitProject, Fresh
<1>2. ASSUME NEW v \in Versions, Switch(v) PROVE FetchSound'
  <2>1. cmd'.at = "drop"
    BY <1>2, CmdStart, FreeIs DEF Switch
  <2>. QED BY <2>1, NotFetching
<1>3. ASSUME NEW v \in Versions, Create(v) PROVE FetchSound'
  <2>1. cmd'.at = "caches"
    BY <1>3 DEF Create, Cmd
  <2>. QED BY <2>1, NotFetching
<1>4. ASSUME NEW v \in Versions, NEW named \in BOOLEAN, Clone(v, named) PROVE FetchSound'
  <2>1. cmd'.at = "download"
    BY <1>4, CmdStart DEF Clone
  <2>. QED BY <2>1, NotFetching
<1>5. ASSUME NEW f \in Files, Edit(f) PROVE FetchSound'
  BY <1>5, NotFetching DEF Edit, Free
<1>6. ASSUME Pull PROVE FetchSound'
  <2>1. cmd'.at = "download"
    BY <1>6, CmdStart, FreeIs DEF Pull
  <2>. QED BY <2>1, NotFetching
<1>7. ASSUME Push PROVE FetchSound'
  BY <1>7, NotFetching DEF Push, Free
<1>. QED BY <1>1, <1>2, <1>3, <1>4, <1>5, <1>6, <1>7 DEF User

\* The version that is asked for is not one that is being published, or that shows.
LEMMA AskHubFetch == ASSUME WTypes, FetchSound, Asks PROVE FetchSound'
<1>1. /\ cmd # None /\ cmd.at = "ask" /\ cmd' # None /\ cmd'.at = "fetch" /\ cmd'.profile = cmd.profile
      /\ top' = top /\ hub' = hub
  BY AskHubTypes
<1>2. CASE AskHub
  <2>1. PICK h : h = hub[cmd.profile]
    OBVIOUS
  <2>2. PICK e : e = Sent(h.dir)
    OBVIOUS
  <2>3. h # None /\ cmd'.left = Entries(e) /\ (republished' <=> h.gone)
    <3>1. cmd' = [ cmd EXCEPT !.at = "fetch", !.left = Entries(e) ] /\ h # None
      BY <1>2, <2>1, <2>2 DEF AskHub
    <3>2. h.gone \in BOOLEAN
      BY <1>1, <2>1, <3>1, CmdIs DEF WTypes, TypeOK, IsHub
    <3>3. republished' = h.gone
      BY <1>2, <2>1 DEF AskHub
    <3>. QED BY <1>1, <3>1, <3>2, <3>3, CmdIs DEF Commands
  <2>4. \A n \in Names : top["temp"][n] = None
    BY <1>1 DEF FetchSound, At
  <2>5. \A n \in Names : top'["temp"][n] = IF n \in Entries(e) THEN None ELSE e[n]
    BY <1>1, <2>4, EntriesAre
  <2>6. hub'[cmd'.profile] = h
    BY <1>1, <2>1
  <2>7. ~republished' => FetchedFrom(h)'
    BY <1>1, <2>2, <2>3, <2>5 DEF FetchedFrom, At
  <2>8. FetchedFrom(h)' => FetchedFrom(hub[cmd.profile])'
    BY <2>6 DEF FetchedFrom
  <2>. QED BY <1>1, <2>7, <2>8 DEF FetchSound, Fetching, At
<1>3. ASSUME NEW others \in SUBSET Files, AskAnnounced(others) PROVE FetchSound'
  BY <1>1, <1>3 DEF AskAnnounced, FetchSound, Fetching, At
<1>. QED BY <1>2, <1>3 DEF Asks

\* What is fetched while nothing is published is what the version has.
LEMMA FetchFetch ==
    ASSUME WTypes, FetchSound, NEW n \in Names, Fetch(n) \/ FetchError(n) PROVE FetchSound'
<1>1. /\ cmd # None /\ cmd' # None /\ cmd.at = "fetch" /\ cmd'.at = "fetch"
      /\ cmd'.left = cmd.left \ { n } /\ cmd'.profile = cmd.profile
      /\ \A m \in Names \ { n } : top'["temp"][m] = top["temp"][m]
      /\ n \in cmd.left /\ hub' = hub
  BY FetchTypes
<1>2. CASE FetchError(n)
  BY <1>1, <1>2 DEF FetchError, FetchSound, Fetching, At
<1>3. PICK h : h = hub[cmd.profile]
  OBVIOUS
<1>4. SUFFICES ASSUME ~republished, Fetch(n) PROVE FetchedFrom(h)'
  <2>1. hub'[cmd'.profile] = h
    BY <1>1, <1>3
  <2>2. FetchedFrom(h)' => FetchedFrom(hub[cmd.profile])'
    BY <2>1 DEF FetchedFrom
  <2>3. Fetch(n) => republished' = republished
    BY DEF Fetch, ghostVars
  <2>. QED BY <1>1, <1>2, <2>2, <2>3 DEF FetchSound, Fetching, At
<1>5. FetchedFrom(h)
  BY <1>1, <1>3, <1>4 DEF FetchSound, Fetching, AtSome
<1>6. PICK e : e = Sent(h.dir)
  OBVIOUS
<1>7. /\ h # None /\ ~h.gone /\ cmd.left \subseteq Entries(e)
      /\ \A m \in Names : top["temp"][m] = IF m \in cmd.left THEN None ELSE e[m]
  BY <1>1, <1>5, <1>6 DEF FetchedFrom, At
<1>8. e[n] # None
  BY <1>1, <1>7, EntriesAre
<1>9. top'["temp"][n] = e[n]
  <2>1. top'["temp"][n] = Body(cmd.profile, n)
    BY <1>4, FetchTypes
  <2>2. Body(cmd.profile, n) = h.dir[n]
    BY <1>3, <1>6, <1>7, <1>8 DEF Body
  <2>3. cmd.profile \in Versions
    BY <1>1, CmdIs
  <2>4. IsPlain(h.dir)
    BY <1>3, <1>7, <2>3 DEF WTypes, TypeOK, IsHub
  <2>5. e[n] = h.dir[n]
    BY <1>6, <1>8, <2>4, SentIs
  <2>. QED BY <2>1, <2>2, <2>5
<1>10. \A m \in Names : top'["temp"][m] = IF m \in cmd'.left THEN None ELSE e[m]
  BY <1>1, <1>7, <1>9
<1>. QED BY <1>1, <1>6, <1>7, <1>10 DEF FetchedFrom, At

\* All of the version is there then.
LEMMA MergeFetchedFetch == ASSUME WTypes, FetchSound, MergeFetched PROVE FetchSound'
<1>1. cmd # None /\ cmd.at = "fetch" /\ GoesTo("clean") /\ cmd.left = {}
  BY Going DEF MergeFetched, At
<1>2. hub' = hub /\ top' = top /\ republished' = republished
  BY DEF MergeFetched, diskVars
<1>3. PICK h : h = hub[cmd.profile]
  OBVIOUS
<1>4. SUFFICES ASSUME ~republished PROVE FetchedFrom(h)'
  <2>1. hub'[cmd'.profile] = h
    BY <1>1, <1>2, <1>3 DEF GoesTo
  <2>2. FetchedFrom(h)' => FetchedFrom(hub[cmd.profile])'
    BY <2>1 DEF FetchedFrom
  <2>. QED BY <1>1, <1>2, <2>2 DEF GoesTo, FetchSound, Fetching, At
<1>5. FetchedFrom(h)
  BY <1>1, <1>3, <1>4 DEF FetchSound, Fetching, AtSome
<1>. QED BY <1>1, <1>2, <1>5 DEF GoesTo, FetchedFrom, At

\* Cleaning leaves it alone.
LEMMA CleanTopFetch == ASSUME WTypes, FetchSound, CleanTop PROVE FetchSound'
<1>1. /\ cmd # None /\ cmd.at = "clean" /\ cmd' = cmd /\ top'["temp"] = top["temp"]
  BY CleanTopTypes, NamesAre
<1>2. hub' = hub /\ republished' = republished
  BY DEF CleanTop, ghostVars
<1>. QED BY <1>1, <1>2 DEF FetchSound, Fetching, FetchedFrom, AtSome, At

\* Nothing else is in the directory when the files are moved to it.
LEMMA CleanedFetch == ASSUME WTypes, FetchSound, Cleaned PROVE FetchSound'
<1>1. cmd # None /\ cmd.at = "clean" /\ GoesTo("install") /\ Entries(top) \subseteq { "temp" }
  BY Going DEF Cleaned, At
<1>2. hub' = hub /\ top' = top /\ republished' = republished
  BY DEF Cleaned, diskVars, ghostVars
<1>3. \A n \in Names \ { "temp" } : top[n] = None
  BY <1>1, EntriesAre
<1>. QED BY <1>1, <1>2, <1>3 DEF GoesTo, FetchSound, Fetching, FetchedFrom, AtSome, At

\* A file that is moved is in the one place or in the other.
LEMMA InstallFetch == ASSUME WTypes, FetchSound, Install PROVE FetchSound'
<1>1. cmd # None /\ cmd.at = "install" /\ cmd' = cmd
  BY InstallTypes
<1>2. hub' = hub /\ republished' = republished
  BY DEF Install, ghostVars
<1>3. PICK n \in Files \cup { "json" } :
          /\ top["temp"][n] # None /\ top'["temp"][n] = None /\ top'[n] = top["temp"][n]
          /\ \A m \in Names \ { n } : top'["temp"][m] = top["temp"][m]
          /\ \A m \in Names \ { n, "temp" } : top'[m] = top[m]
  BY InstallTypes
<1>4. PICK h : h = hub[cmd.profile]
  OBVIOUS
<1>5. SUFFICES ASSUME ~republished PROVE FetchedFrom(h)'
  BY <1>1, <1>2, <1>4 DEF FetchSound, Fetching, FetchedFrom, At
<1>6. FetchedFrom(h)
  BY <1>1, <1>4, <1>5 DEF FetchSound, Fetching, AtSome
<1>7. \A m \in Names \ { "temp" } : \/ top[m] = None /\ top["temp"][m] = Sent(h.dir)[m]
                                    \/ top[m] = Sent(h.dir)[m] /\ top["temp"][m] = None
  BY <1>1, <1>6 DEF FetchedFrom, At
<1>8. n \in Names \ { "temp" }
  BY NamesAre
<1>9. \A m \in Names \ { "temp" } : \/ top'[m] = None /\ top'["temp"][m] = Sent(h.dir)[m]
                                    \/ top'[m] = Sent(h.dir)[m] /\ top'["temp"][m] = None
  BY <1>3, <1>7, <1>8
<1>. QED BY <1>1, <1>6, <1>9 DEF FetchedFrom, At

\* At the end all is in the directory.
LEMMA InstalledFetch == ASSUME WTypes, FetchSound, Installed PROVE FetchSound'
<1>1. cmd # None /\ cmd.at = "install" /\ GoesTo("fetched") /\ Entries(top["temp"]) = {}
  BY Going DEF Installed, At
<1>2. hub' = hub /\ top' = top /\ republished' = republished
  BY DEF Installed, diskVars
<1>3. \A n \in Names : top["temp"][n] = None
  BY <1>1, EntriesAre
<1>4. top["temp"] # None
  BY <1>1 DEF WTypes, PlacesThere, AtSome
<1>5. PICK h : h = hub[cmd.profile]
  OBVIOUS
<1>6. SUFFICES ASSUME ~republished PROVE FetchedFrom(h)'
  <2>1. hub'[cmd'.profile] = h
    BY <1>1, <1>2, <1>5 DEF GoesTo
  <2>2. FetchedFrom(h)' => FetchedFrom(hub[cmd.profile])'
    BY <2>1 DEF FetchedFrom
  <2>. QED BY <1>1, <1>2, <2>2 DEF GoesTo, FetchSound, Fetching, At
<1>7. FetchedFrom(h)
  BY <1>1, <1>5, <1>6 DEF FetchSound, Fetching, AtSome
<1>8. \A n \in Names \ { "temp" } : top[n] = Sent(h.dir)[n]
  BY <1>1, <1>3, <1>7 DEF FetchedFrom, At
<1>. QED BY <1>1, <1>2, <1>4, <1>7, <1>8 DEF GoesTo, FetchedFrom, At

\* The other steps of a download fetch nothing.
LEMMA DownloadFetch == ASSUME WTypes, FetchSound, Download PROVE FetchSound'
<1>1. ASSUME ReadLock PROVE FetchSound'
  <2>1. cmd' = None \/ Goes("lock")
    BY <1>1 DEF ReadLock, Ends
  <2>2. Goes("lock") => cmd'.at = "lock"
    BY <1>1, Going DEF ReadLock, GoesTo, At
  <2>. QED BY <2>1, <2>2, NotFetching
<1>2. ASSUME OpenLock PROVE FetchSound'
  BY <1>2, Going, NotFetching DEF OpenLock, GoesTo, At
<1>3. ASSUME NameLock PROVE FetchSound'
  <2>1. cmd' # None /\ cmd'.at = "ask" /\ top'["temp"] = Empty
    BY <1>3, Going, NameLockTypes DEF NameLock, GoesTo, At
  <2>. QED BY <2>1, EmptyDir DEF FetchSound, Fetching, AtSome, At
<1>4. ASSUME DownloadFails \/ NotFound PROVE FetchSound'
  BY <1>4, DownloadFailsTypes, NotFoundTypes, NotFetching DEF GoesTo
<1>5. ASSUME LeaveDownload PROVE FetchSound'
  BY <1>5, LeaveDownloadTypes, NotFetching DEF GoesTo
<1>. QED BY <1>1, <1>2, <1>3, <1>4, <1>5, AskHubFetch, FetchFetch, MergeFetchedFetch, CleanTopFetch,
         CleanedFetch, InstallFetch, InstalledFetch DEF Download, Asks

\* Nor do those of switch and create, which end by themselves or download.
LEMMA VersionFetch == ASSUME WTypes, Version PROVE FetchSound'
<1>1. ASSUME DropCache PROVE FetchSound'
  BY <1>1, DropCacheTypes, NotFetching DEF GoesTo
<1>2. ASSUME Save PROVE FetchSound'
  BY <1>2, SaveTypes, NotFetching
<1>3. ASSUME Saved PROVE FetchSound'
  <2>1. cmd'.at \in { "load", "new" }
    BY <1>3, Going DEF Saved, GoesTo, At
  <2>. QED BY <2>1, NotFetching
<1>4. ASSUME Load PROVE FetchSound'
  BY <1>4, LoadTypes, NotFetching
<1>5. ASSUME Loaded PROVE FetchSound'
  BY <1>5, LoadedTypes, NotFetching
<1>6. ASSUME MarkSynced PROVE FetchSound'
  BY <1>6, MarkSyncedTypes, NotFetching DEF GoesTo
<1>7. ASSUME SwitchEnds PROVE FetchSound'
  BY <1>7, SwitchEndsTypes, NotFetching
<1>8. ASSUME WriteCaches PROVE FetchSound'
  BY <1>8, WriteCachesTypes, NotFetching DEF GoesTo
<1>9. ASSUME NewVersion PROVE FetchSound'
  BY <1>9, NewVersionTypes, NotFetching
<1>10. ASSUME Copy PROVE FetchSound'
  BY <1>10, CopyTypes, NotFetching
<1>11. ASSUME Created PROVE FetchSound'
  BY <1>11, CreatedTypes, NotFetching
<1>. QED BY <1>1, <1>2, <1>3, <1>4, <1>5, <1>6, <1>7, <1>8, <1>9, <1>10, <1>11 DEF Version

\* A version that is published while it is fetched counts as such.
LEMMA HubFetch ==
    ASSUME WTypes, FetchSound, NEW v \in Versions, Withdraw(v) \/ Republish(v) PROVE FetchSound'
<1>1. \A u \in Versions \ { v } : hub'[u] = hub[u]
  BY WithdrawTypes, RepublishTypes
<1>2. cmd' = cmd /\ top' = top /\ Touched(v)
  BY DEF Withdraw, Republish, diskVars
<1>3. cmd # None /\ ~republished' => cmd.profile \in Versions \ { v } /\ ~republished
  BY <1>2, CmdIs DEF Touched
<1>4. cmd # None /\ ~republished' => hub'[cmd.profile] = hub[cmd.profile]
  BY <1>1, <1>3
<1>. QED BY <1>2, <1>3, <1>4 DEF FetchSound, Fetching, FetchedFrom, AtSome, At

\* Every step keeps what is fetched.
LEMMA NextFetch == ASSUME WTypes, FetchSound, [Next]_vars PROVE FetchSound'
<1>1. CASE Kill
  BY <1>1, KillTypes, NotFetching
<1>2. CASE UNCHANGED vars
  BY <1>2 DEF vars, diskVars, ghostVars, FetchSound, Fetching, FetchedFrom, AtSome, At
<1>. QED BY <1>1, <1>2, UserFetch, DownloadFetch, VersionFetch, HubFetch DEF Next

\* Everything is of its kind, at any time.
THEOREM TypesHold == Spec => []TypeOK
<1>1. Init => WTypes
  BY InitTypes
<1>2. WTypes /\ [Next]_vars => WTypes'
  BY NextTypes
<1>3. WTypes => TypeOK
  BY DEF WTypes
<1>. QED BY <1>1, <1>2, <1>3, PTL DEF Spec

\* A pull that reports success leaves exactly the files with content of the model of the hub in
\* the directory, unless that was published again meanwhile, the hub listed what a push has only
\* announced, or an error was answered (Download, api.download, genDownloadTask).
THEOREM PulledIsWhole == Spec => []PulledWhole
<1>1. Init => WTypes /\ FetchSound
  BY InitTypes DEF Init, FetchSound, Fetching, AtSome, At
<1>2. (WTypes /\ FetchSound) /\ [Next]_vars => (WTypes /\ FetchSound)'
  BY NextTypes, NextFetch
<1>3. WTypes /\ FetchSound => PulledWhole
  <2>. SUFFICES ASSUME WTypes, FetchSound, At("fetched"), ~republished
                PROVE  /\ Entries(top) = Entries(Sent(hub[cmd.profile].dir)) \cup { "temp" }
                       /\ Model(top) = Model(Sent(hub[cmd.profile].dir))
    BY DEF PulledWhole
  <2>1. PICK h : h = hub[cmd.profile]
    OBVIOUS
  <2>2. h # None /\ top["temp"] # None /\ \A n \in Names \ { "temp" } : top[n] = Sent(h.dir)[n]
    <3>1. FetchedFrom(h)
      BY <2>1 DEF FetchSound, Fetching, AtSome, At
    <3>. QED BY <3>1 DEF FetchedFrom
  <2>3. IsPlain(h.dir)
    BY <2>1, <2>2, CmdIs DEF At, WTypes, TypeOK, IsHub
  <2>4. Sent(h.dir)["temp"] = None
    BY <2>3, SentIs
  <2>5. Entries(top) = Entries(Sent(h.dir)) \cup { "temp" }
    BY <2>2, <2>4, NamesAre, EntriesAre DEF Entries
  <2>6. Model(top) = Model(Sent(h.dir))
    BY <2>2, NamesAre DEF Model
  <2>. QED BY <2>1, <2>5, <2>6
<1>. QED BY <1>1, <1>2, <1>3, PTL DEF Spec

-----------------------------------------------------------------------------
(* The work is kept *)

\* Who has the work of a version has it still if its files stay.
LEMMA SameKept ==
    ASSUME WTypes', NEW v \in Versions, Kept(v), wanted'[v] = wanted[v],
           cache[v] # None => cache'[v] # None /\ \A f \in Files : cache'[v][f] = cache[v][f]
    PROVE  Kept(v)'
BY DEF Kept, Has, Model

\* So has the directory.
LEMMA SameTop ==
    ASSUME WTypes', NEW v \in Versions, Has(top, v), wanted'[v] = wanted[v],
           \A f \in Files : top'[f] = top[f]
    PROVE  Has(top, v)'
<1>1. top' # None
  BY DirNotNone DEF WTypes, TypeOK
<1>. QED BY <1>1 DEF Has, Model

\* And so they have together.
LEMMA SameKeptWith ==
    ASSUME WTypes', NEW v \in Versions, KeptWith(v), wanted' = wanted, cache' = cache,
           \A f \in Files : top'[f] = top[f]
    PROVE  KeptWith(v)'
<1>1. Has(top, v)'
  BY SameTop DEF KeptWith
<1>2. ASSUME NEW u \in Versions \ { v } PROVE Kept(u)'
  BY SameKept DEF KeptWith, OthersKept
<1>. QED BY <1>1, <1>2 DEF KeptWith, OthersKept

\* A version nothing is wanted of is kept anywhere.
LEMMA NothingWanted ==
    ASSUME NEW v \in Versions, wanted[v] = None
    PROVE  Kept(v) /\ Has(top, v)
BY DEF Kept, Has

\* The directory of one version, with the others in their caches, is a state to end in.
LEMMA KeptSettled ==
    ASSUME NEW v \in Versions, KeptWith(v), Legal => Current = v
    PROVE  Settled
BY DEF Settled, KeptWith, OthersKept

\* It is so after a step, too.
LEMMA KeptSettledNext ==
    ASSUME NEW v \in Versions, KeptWith(v)', Legal' => Current' = v
    PROVE  Settled'
BY DEF Settled, KeptWith, OthersKept, Kept, Has

\* So it is, if files and project.json stay.
LEMMA SameSettled ==
    ASSUME WTypes, WTypes', Settled, wanted' = wanted, cache' = cache, top'["json"] = top["json"],
           \A f \in Files : top'[f] = top[f]
    PROVE  Settled'
<1>1. Legal' = Legal /\ Current' = Current
  BY DEF Legal, Current
<1>2. CASE Legal
  <2>1. PICK v : v = Current
    OBVIOUS
  <2>2. v \in Versions
    BY <1>2, <2>1, JsonHas DEF Legal, Current, WTypes, TypeOK, IsDir, HasModel
  <2>3. KeptWith(v)
    BY <1>2, <2>1 DEF Settled
  <2>4. KeptWith(v)'
    BY <2>2, <2>3, SameKeptWith
  <2>5. Legal' /\ v = Current'
    BY <1>1, <1>2, <2>1
  <2>. QED BY <2>4, <2>5 DEF Settled, KeptWith, OthersKept, Kept, Has
<1>3. CASE ~Legal
  <2>1. ASSUME NEW v \in Versions PROVE Has(top, v)' \/ Kept(v)'
    <3>1. Has(top, v) \/ Kept(v)
      BY <1>3 DEF Settled
    <3>. QED BY <3>1, SameTop, SameKept
  <2>2. ~Legal'
    BY <1>1, <1>3
  <2>. QED BY <2>1, <2>2 DEF Settled
<1>. QED BY <1>2, <1>3

\* What a command leaves.
LEMMA Resting == ASSUME cmd' = None \/ Failing', Settled' PROVE PlacesSound'
BY DEF PlacesSound, AtSome, At, Failing

\* What it works on in most steps.
LEMMA Holding ==
    ASSUME NEW v \in Versions, cmd' # None, cmd'.at \in HeldSteps, Holder' = v, KeptWith(v)',
           Failing' => Settled',
           cmd'.at \in { "clean", "install" } => wanted'[cmd'.profile] = None,
           cmd'.at = "copy" => Copying',
           cmd'.then = "create" => wanted'[cmd'.version] = None
    PROVE  PlacesSound'
<1>1. KeptWith(Holder)'
  BY DEF KeptWith, OthersKept, Kept, Has
<1>2. cmd'.at \notin { "save", "load", "new" }
  BY DEF HeldSteps
<1>. QED BY <1>1, <1>2 DEF PlacesSound, AtSome, At

\* A command that holds a version.
LEMMA Held ==
    ASSUME WTypes, PlacesSound, AtSome(HeldSteps), ~Failing
    PROVE  /\ Holder \in Versions /\ KeptWith(Holder)
           /\ cmd.then = "create" => wanted[cmd.version] = None
BY CmdIs DEF PlacesSound, Holder, AtSome

\* Without a command, only the directory is to be looked at.
LEMMA NoCmdJsons == ASSUME cmd' = None PROVE StepJsons'
BY DEF StepJsons, AtSome, At, Failing

\* And whether there is something, once there is work.
LEMMA NoCmdBegun ==
    ASSUME cmd' = None,
           (\E v \in Versions : wanted'[v] # None) => Begun' \/ top'["temp"] # None \/ top'["stray"] # None
    PROVE  BegunSound'
BY DEF BegunSound, AtSome, At

\* A user's command finds the directory of a version.
LEMMA FreeWork ==
    ASSUME WTypes, WorkSound, Free
    PROVE  Current \in Versions /\ KeptWith(Current) /\ Begun /\ Legal
<1>1. cmd = None /\ Legal /\ Current \in Versions
  BY FreeIs
<1>2. KeptWith(Current)
  BY <1>1 DEF WorkSound, PlacesSound, Settled
<1>. QED BY <1>1, <1>2 DEF Begun, Legal

\* An empty directory holds no work.
LEMMA FreshWork ==
    ASSUME WTypes, WorkSound, Fresh
    PROVE  (\A v \in Versions : wanted[v] = None) /\ \A n \in Names : top[n] = None
<1>1. cmd = None /\ \A v \in Versions : cache[v] = None
  BY DEF Fresh
<1>2. \A n \in Names : top[n] = None
  BY EntriesAre DEF Fresh
<1>3. ~Begun /\ top["temp"] = None /\ top["stray"] = None
  BY <1>1, <1>2, NamesAre DEF Begun
<1>4. ~ \E v \in Versions : wanted[v] # None
  BY <1>1, <1>3 DEF WorkSound, BegunSound
<1>. QED BY <1>2, <1>4

\* A new project has the files of the directory as its version.
LEMMA InitProjectWork ==
    ASSUME WTypes, WTypes', WorkSound, NEW v \in Versions, InitProject(v) PROVE WorkSound'
<1>1. /\ cmd' = None /\ hub' = hub /\ cache' = cache /\ \A u \in Versions : cache[u] = None
      /\ top' = Project(v, << v >>, 0) /\ wanted' = [ wanted EXCEPT ![v] = AllAt(0) ]
  BY DEF InitProject, Fresh
<1>2. \A u \in Versions : wanted[u] = None
  BY FreshWork DEF InitProject
<1>3. << v >> \in Seq(Versions) /\ v \in ToSet(<< v >>) /\ 0 \in Nat
  BY DEF ToSet
<1>4. top'["json"] = Json(v, << v >>, TRUE) /\ \A f \in Files : top'[f] = 0
  BY <1>1, <1>3, ProjectDir
<1>5. top'["json"] \in Jsons /\ Current' = v
  <2>1. PICK s : s = << v >>
    OBVIOUS
  <2>2. s \in Seq(Versions) /\ v \in ToSet(s) /\ top'["json"] = Json(v, s, TRUE)
    BY <1>3, <1>4, <2>1
  <2>3. Json(v, s, TRUE) \in Jsons /\ Json(v, s, TRUE).current = v
    BY <2>2, JsonIs
  <2>. QED BY <2>2, <2>3 DEF Current
<1>6. KeptWith(v)'
  <2>1. wanted'[v] = AllAt(0) /\ \A u \in Versions \ { v } : wanted'[u] = None
    BY <1>1, <1>2 DEF WTypes, TypeOK
  <2>2. Model(top)' = AllAt(0)
    BY <1>4 DEF Model, AllAt
  <2>3. top' # None
    BY DirNotNone DEF WTypes, TypeOK
  <2>. QED BY <2>1, <2>2, <2>3 DEF KeptWith, OthersKept, Kept, Has
<1>7. PlacesSound'
  BY <1>1, <1>5, <1>6, KeptSettledNext, Resting
<1>8. BegunSound'
  <2>1. Begun'
    BY <1>5, JsonHas DEF Begun
  <2>. QED BY <1>1, <2>1, NoCmdBegun
<1>. QED BY <1>1, <1>7, <1>8, NoCmdJsons DEF WorkSound, HubJsons, CacheJsons

\* A clone has no work yet.
LEMMA CloneWork ==
    ASSUME WTypes, WTypes', WorkSound, NEW v \in Versions, NEW named \in BOOLEAN, Clone(v, named)
    PROVE  WorkSound'
<1>1. /\ cmd' # None /\ cmd'.at = "download" /\ cmd'.then = "end" /\ cmd'.version = v /\ cmd'.profile = v
  BY CmdStart DEF Clone
<1>2. /\ hub' = hub /\ wanted' = wanted /\ v \in OnHub
      /\ top' = IF named THEN With(top, "json", Json(v, HubVersions, TRUE)) ELSE top
      /\ cache' = [ u \in Versions |->
            IF u \in OnHub /\ ~ (named /\ u = v)
            THEN With(Empty, "json", Json(u, HubVersions, FALSE)) ELSE None ]
  BY DEF Clone, ghostVars
<1>3. (\A u \in Versions : wanted'[u] = None) /\ \A n \in Names : top[n] = None
  BY <1>2, FreshWork DEF Clone
<1>4. ASSUME NEW u \in OnHub, NEW b \in BOOLEAN, NEW d, IsDir(d)
      PROVE  /\ With(d, "json", Json(u, HubVersions, b))["json"] \in Jsons
             /\ With(d, "json", Json(u, HubVersions, b))["json"].current = u
             /\ With(d, "json", Json(u, HubVersions, b)) # None
  <2>1. u \in Versions /\ HubVersions \in Seq(Versions) /\ u \in ToSet(HubVersions)
    BY <1>4, HubVersionsAre, WorkspaceAssumption
  <2>2. PICK j : j = Json(u, HubVersions, b)
    OBVIOUS
  <2>3. j \in Jsons /\ j.current = u
    BY <2>1, <2>2, JsonIs
  <2>4. Fits("json", j) /\ "json" \in Names
    BY <2>3, NamesAre DEF Fits
  <2>5. IsDir(With(d, "json", j)) /\ With(d, "json", j)["json"] = j
    BY <1>4, <2>4, WithDir
  <2>. QED BY <2>2, <2>3, <2>5, DirNotNone
<1>5. ASSUME named PROVE top'["json"] \in Jsons /\ Current' = v
  <2>1. top' = With(top, "json", Json(v, HubVersions, TRUE)) /\ IsDir(top)
    BY <1>2, <1>5 DEF WTypes, TypeOK
  <2>. QED BY <1>2, <1>4, <2>1 DEF Current
<1>6. ASSUME NEW u \in Versions, cache'[u] # None
      PROVE  cache'[u]["json"] \in Jsons /\ cache'[u]["json"].current = u
  <2>1. u \in OnHub /\ cache'[u] = With(Empty, "json", Json(u, HubVersions, FALSE))
    BY <1>2, <1>6
  <2>. QED BY <1>4, <2>1, EmptyDir
<1>7. Begun'
  <2>1. CASE named
    BY <1>5, <2>1, JsonHas DEF Begun
  <2>2. CASE ~named
    <3>1. cache'[v] = With(Empty, "json", Json(v, HubVersions, FALSE))
      BY <1>2, <2>2
    <3>2. cache'[v] # None
      BY <1>2, <1>4, <3>1, EmptyDir
    <3>. QED BY <3>2 DEF Begun
  <2>. QED BY <2>1, <2>2
<1>8. Legal' => Current' = v
  <2>1. ~named => ~Legal'
    BY <1>2, <1>3, NamesAre DEF Legal
  <2>. QED BY <1>5, <2>1
<1>9. KeptWith(v)'
  BY <1>3 DEF KeptWith, OthersKept, Kept, Has
<1>10. Holder' = v
  BY <1>1 DEF Holder
<1>11. PlacesSound'
  BY <1>1, <1>9, <1>10, Holding DEF HeldSteps, Failing
<1>12. StepJsons'
  BY <1>1, <1>8, <1>10 DEF StepJsons, AtSome, At
<1>13. BegunSound'
  BY <1>1, <1>7 DEF BegunSound, AtSome, At
<1>14. HubJsons' /\ CacheJsons'
  BY <1>2, <1>6 DEF WorkSound, HubJsons, CacheJsons
<1>. QED BY <1>11, <1>12, <1>13, <1>14 DEF WorkSound

\* The work is what the user writes.
LEMMA EditWork ==
    ASSUME WTypes, WTypes', WorkSound, NEW f \in Files, Edit(f) PROVE WorkSound'
<1>1. /\ cmd' = None /\ hub' = hub /\ cache' = cache /\ top' = With(top, f, revision')
      /\ wanted' = [ wanted EXCEPT ![Current] = Model(top') ]
  BY DEF Edit, Free
<1>2. Current \in Versions /\ KeptWith(Current) /\ Begun /\ Legal
  BY FreeWork DEF Edit
<1>3. PICK v \in Versions : v = Current
  BY <1>2
<1>4. top'[f] = revision' /\ \A m \in Names \ { f } : top'[m] = top[m]
  <2>1. revision' \in Content
    BY DEF WTypes, TypeOK, Content
  <2>2. Fits(f, revision') /\ f \in Names
    BY <2>1, NamesAre DEF Fits
  <2>. QED BY <1>1, <2>2, WithDir DEF WTypes, TypeOK
<1>5. top'["json"] = top["json"]
  BY <1>4, NamesAre
<1>6. Has(top, v)'
  <2>1. top' # None
    BY DirNotNone DEF WTypes, TypeOK
  <2>2. wanted'[v] = Model(top')
    BY <1>1, <1>3 DEF WTypes, TypeOK
  <2>. QED BY <2>1, <2>2 DEF Has, Model
<1>7. KeptWith(v)'
  <2>1. ASSUME NEW u \in Versions \ { v } PROVE Kept(u)'
    <3>1. wanted'[u] = wanted[u]
      BY <1>1, <1>3 DEF WTypes, TypeOK
    <3>2. Kept(u)
      BY <1>2, <1>3 DEF KeptWith, OthersKept
    <3>. QED BY <1>1, <3>1, <3>2, SameKept
  <2>. QED BY <1>6, <2>1 DEF KeptWith, OthersKept
<1>8. Current' = v /\ Legal'
  BY <1>2, <1>3, <1>5 DEF Current, Legal
<1>9. PlacesSound'
  BY <1>1, <1>7, <1>8, KeptSettledNext, Resting
<1>10. BegunSound'
  <2>1. Begun'
    BY <1>1, <1>2, <1>5 DEF Begun
  <2>. QED BY <1>1, <2>1, NoCmdBegun
<1>. QED BY <1>1, <1>9, <1>10, NoCmdJsons DEF WorkSound, HubJsons, CacheJsons

\* pull starts from the directory of the current version.
LEMMA PullWork == ASSUME WTypes, WTypes', WorkSound, Pull PROVE WorkSound'
<1>1. /\ cmd' # None /\ cmd'.at = "download" /\ cmd'.then = "end" /\ cmd'.profile = Current
  BY CmdStart, FreeIs DEF Pull
<1>2. top' = top /\ cache' = cache /\ hub' = hub /\ wanted' = wanted
  BY DEF Pull, diskVars, ghostVars
<1>3. Current \in Versions /\ KeptWith(Current) /\ Begun /\ Legal
  BY FreeWork DEF Pull
<1>4. PICK v \in Versions : v = Current
  BY <1>3
<1>5. KeptWith(v)'
  BY <1>2, <1>3, <1>4, SameKeptWith
<1>6. Holder' = v /\ Current' = v /\ Begun'
  BY <1>1, <1>2, <1>3, <1>4 DEF Holder, Current, Begun
<1>7. PlacesSound'
  BY <1>1, <1>5, <1>6, Holding DEF HeldSteps, Failing
<1>8. StepJsons' /\ BegunSound'
  BY <1>1, <1>6 DEF StepJsons, BegunSound, AtSome, At
<1>. QED BY <1>2, <1>7, <1>8 DEF WorkSound, HubJsons, CacheJsons

\* So does switch.
LEMMA SwitchWork ==
    ASSUME WTypes, WTypes', WorkSound, NEW w \in Versions, Switch(w) PROVE WorkSound'
<1>1. /\ cmd' # None /\ cmd'.at = "drop" /\ cmd'.then = "switch" /\ cmd'.profile = Current
  BY CmdStart, FreeIs DEF Switch
<1>2. top' = top /\ cache' = cache /\ hub' = hub /\ wanted' = wanted
  BY DEF Switch, diskVars, ghostVars
<1>3. Current \in Versions /\ KeptWith(Current) /\ Begun /\ Legal
  BY FreeWork DEF Switch
<1>4. PICK v \in Versions : v = Current
  BY <1>3
<1>5. KeptWith(v)'
  BY <1>2, <1>3, <1>4, SameKeptWith
<1>6. Holder' = v /\ Current' = v /\ Begun'
  BY <1>1, <1>2, <1>3, <1>4 DEF Holder, Current, Begun
<1>7. PlacesSound'
  BY <1>1, <1>5, <1>6, Holding DEF HeldSteps, Failing
<1>8. StepJsons' /\ BegunSound'
  BY <1>1, <1>6 DEF StepJsons, BegunSound, AtSome, At
<1>. QED BY <1>2, <1>7, <1>8 DEF WorkSound, HubJsons, CacheJsons

\* create does, too, and nothing is wanted of the new version yet.
LEMMA CreateWork ==
    ASSUME WTypes, WTypes', WorkSound, NEW w \in Versions, Create(w) PROVE WorkSound'
<1>1. PICK j : j = [ top["json"] EXCEPT !.versions = Append(@, w) ]
  OBVIOUS
<1>2. /\ top["json"] \in Jsons /\ Current \in Versions /\ Current \in ToSet(Known) /\ w \notin ToSet(Known)
  BY FreeIs DEF Create
<1>3. j.current = Current
  BY <1>1, <1>2 DEF Current, Jsons
<1>4. top' = With(top, "json", j)
  BY <1>1, NamesAre DEF Create, With, WTypes, TypeOK, IsDir, HasModel
<1>5. top'["json"] = j /\ \A m \in Names \ { "json" } : top'[m] = top[m]
  BY <1>4, NamesAre DEF WTypes, TypeOK, IsDir, HasModel, With
<1>6. cache' = cache /\ hub' = hub /\ wanted' = [ wanted EXCEPT ![w] = None ]
  BY DEF Create
<1>7. cmd' = [ Cmd("caches", "create", w, Current) EXCEPT !.json = top'["json"] ]
  BY DEF Create
<1>8. /\ cmd'.at = "caches" /\ cmd'.then = "create" /\ cmd'.version = w /\ cmd'.profile = Current
  BY <1>7 DEF Cmd
<1>9. cmd' # None
  BY CreateTypes
<1>10. KeptWith(Current) /\ Begun
  BY FreeWork DEF Create
<1>11. PICK v \in Versions : v = Current
  BY <1>2
<1>12. v # w
  BY <1>2, <1>11
<1>13. KeptWith(v)'
  <2>1. wanted'[w] = None /\ \A u \in Versions \ { w } : wanted'[u] = wanted[u]
    BY <1>6 DEF WTypes, TypeOK
  <2>2. Has(top, v)'
    <3>1. Has(top, v)
      BY <1>10, <1>11 DEF KeptWith
    <3>2. \A f \in Files : top'[f] = top[f]
      BY <1>5, NamesAre
    <3>. QED BY <1>12, <2>1, <3>1, <3>2, SameTop
  <2>3. ASSUME NEW u \in Versions \ { v } PROVE Kept(u)'
    <3>1. CASE u = w
      BY <2>1, <3>1 DEF Kept, Has
    <3>2. CASE u # w
      <4>1. Kept(u)
        BY <1>10, <1>11 DEF KeptWith, OthersKept
      <4>. QED BY <1>6, <2>1, <3>2, <4>1, SameKept
    <3>. QED BY <3>1, <3>2
  <2>. QED BY <2>2, <2>3 DEF KeptWith, OthersKept
<1>14. Holder' = v /\ Current' = v
  BY <1>3, <1>5, <1>8, <1>11 DEF Holder, Current
<1>15. wanted'[w] = None
  BY <1>6 DEF WTypes, TypeOK
<1>16. PlacesSound'
  BY <1>8, <1>9, <1>13, <1>14, <1>15, Holding DEF HeldSteps, Failing
<1>17. Begun'
  <2>1. top'["json"] # None
    BY <1>8, <1>9 DEF WTypes, StepsSound, Legal, At
  <2>. QED BY <2>1 DEF Begun
<1>18. StepJsons' /\ BegunSound'
  BY <1>8, <1>14, <1>17 DEF StepJsons, BegunSound, AtSome, At
<1>. QED BY <1>6, <1>16, <1>18 DEF WorkSound, HubJsons, CacheJsons

\* push gives the hub a directory whose project.json is of the version.
LEMMA PushWork == ASSUME WTypes, WTypes', WorkSound, Push PROVE WorkSound'
<1>1. cmd' = None /\ top' = top /\ cache' = cache /\ wanted' = wanted
  BY DEF Push, Free, diskVars, ghostVars
<1>2. Current \in Versions /\ KeptWith(Current) /\ Begun /\ Legal
  BY FreeWork DEF Push
<1>3. hub' = [ hub EXCEPT ![Current] = [ dir |-> top, gone |-> FALSE ] ]
  BY DEF Push
<1>4. PICK v \in Versions : v = Current
  BY <1>2
<1>5. PICK x : x = [ dir |-> top, gone |-> FALSE ]
  OBVIOUS
<1>6. hub' = CacheMade(hub, v, x)
  BY <1>3, <1>4, <1>5 DEF CacheMade
<1>7. hub'[v] = x /\ \A u \in Versions \ { v } : hub'[u] = hub[u]
  BY <1>6 DEF CacheMade, WTypes, TypeOK, IsHub
<1>8. x.dir["json"].current = v
  BY <1>4, <1>5 DEF Current
<1>9. HubJsons'
  BY <1>7, <1>8 DEF WorkSound, HubJsons
<1>10. Settled
  BY <1>2 DEF Settled
<1>11. Settled'
  BY <1>1, <1>10, SameSettled
<1>12. BegunSound'
  BY <1>1, <1>2, NoCmdBegun DEF Begun
<1>. QED BY <1>1, <1>9, <1>11, <1>12, Resting, NoCmdJsons DEF WorkSound, CacheJsons

-----------------------------------------------------------------------------
\* The steps of a download.

\* A step that leaves files and caches alone and goes on.
LEMMA StillHolding ==
    ASSUME WTypes, WTypes', WorkSound, AtSome(HeldSteps), ~Failing,
           cmd' # None, cmd'.at \in HeldSteps \ { "clean", "install", "copy" }, cmd'.then # "create",
           Holder' = Holder, ~Failing', wanted' = wanted, cache' = cache,
           \A f \in Files : top'[f] = top[f]
    PROVE  PlacesSound'
<1>1. Holder \in Versions /\ KeptWith(Holder)
  BY Held DEF WorkSound
<1>2. PICK v \in Versions : v = Holder
  BY <1>1
<1>3. KeptWith(v)'
  BY <1>1, <1>2, SameKeptWith
<1>. QED BY <1>2, <1>3, Holding

\* A step after which the command only has its directory to remove.
LEMMA StillSettled ==
    ASSUME WTypes, WTypes', WorkSound, AtSome(HeldSteps),
           cmd' = None \/ Failing', wanted' = wanted, cache' = cache, top'["json"] = top["json"],
           \A f \in Files : top'[f] = top[f]
    PROVE  PlacesSound' /\ Settled'
<1>1. Settled
  <2>1. CASE Failing
    BY <2>1 DEF WorkSound, PlacesSound
  <2>2. CASE ~Failing
    <3>1. Holder \in Versions /\ KeptWith(Holder)
      BY <2>2, Held DEF WorkSound
    <3>2. Legal => Current = Holder
      BY <2>2 DEF WorkSound, StepJsons, AtSome
    <3>. QED BY <3>1, <3>2, KeptSettled
  <2>. QED BY <2>1, <2>2
<1>2. Settled'
  BY <1>1, SameSettled
<1>. QED BY <1>2, Resting

\* The old lock and its directory are not of the project.
LEMMA ReadLockWork == ASSUME WTypes, WTypes', WorkSound, ReadLock, ~torn' PROVE WorkSound'
<1>1. top["lock"] # "empty"
  BY DEF ReadLock
<1>2. /\ cmd # None /\ cmd.at = "download" /\ Goes("lock")
      /\ cache' = cache /\ hub' = hub /\ wanted' = wanted
      /\ top' = IF top["lock"] = "named" THEN Without(top, "temp") ELSE top
  BY <1>1 DEF ReadLock, At
<1>3. GoesTo("lock")
  BY <1>2, Going
<1>4. \A m \in Names \ { "temp" } : top'[m] = top[m]
  BY <1>2, WithoutDir, NamesAre DEF WTypes, TypeOK
<1>5. top'["json"] = top["json"] /\ \A f \in Files : top'[f] = top[f]
  BY <1>4, NamesAre
<1>6. Holder' = Holder /\ Legal' = Legal /\ Current' = Current /\ Begun' = Begun
  BY <1>2, <1>3, <1>5 DEF GoesTo, Holder, Legal, Current, Begun
<1>7. cmd.then # "create"
  BY <1>2 DEF WTypes, CreateSound
<1>8. PlacesSound'
  BY <1>2, <1>3, <1>5, <1>6, <1>7, StillHolding DEF GoesTo, HeldSteps, AtSome, Failing
<1>9. StepJsons'
  BY <1>2, <1>3, <1>6 DEF GoesTo, WorkSound, StepJsons, AtSome, At, Failing
<1>10. BegunSound'
  BY <1>2, <1>3, <1>6 DEF GoesTo, WorkSound, BegunSound, AtSome, At
<1>. QED BY <1>2, <1>8, <1>9, <1>10 DEF WorkSound, HubJsons, CacheJsons

\* Nor is the new one.
LEMMA LockWork == ASSUME WTypes, WTypes', WorkSound, OpenLock \/ NameLock PROVE WorkSound'
<1>1. /\ cmd # None /\ cmd.at \in { "lock", "name" }
      /\ cache' = cache /\ hub' = hub /\ wanted' = wanted
  BY DEF OpenLock, NameLock, At, ghostVars
<1>2. GoesTo("name") \/ GoesTo("ask")
  BY <1>1, Going DEF OpenLock, NameLock
<1>3. \A m \in Names \ { "temp", "lock" } : top'[m] = top[m]
  <2>1. Fits("lock", "empty") /\ Fits("lock", "named") /\ Fits("temp", Empty)
    BY NamesAre, EmptyDir DEF Fits
  <2>2. IsDir(top) /\ "lock" \in Names /\ "temp" \in Names
    BY NamesAre DEF WTypes, TypeOK
  <2>3. CASE OpenLock
    <3>1. top' = With(top, "lock", "empty")
      BY <2>3 DEF OpenLock
    <3>. QED BY <2>1, <2>2, <3>1, WithDir
  <2>4. CASE NameLock
    <3>1. PICK d : d = With(top, "lock", "named")
      OBVIOUS
    <3>2. IsDir(d) /\ \A m \in Names \ { "lock" } : d[m] = top[m]
      BY <2>1, <2>2, <3>1, WithDir
    <3>3. top' = With(d, "temp", Empty)
      BY <2>4, <3>1 DEF NameLock
    <3>4. \A m \in Names \ { "temp" } : top'[m] = d[m]
      BY <2>1, <2>2, <3>2, <3>3, WithDir
    <3>. QED BY <3>2, <3>4
  <2>. QED BY <2>3, <2>4
<1>4. top'["json"] = top["json"] /\ \A f \in Files : top'[f] = top[f]
  BY <1>3, NamesAre
<1>5. Holder' = Holder /\ Legal' = Legal /\ Current' = Current /\ Begun' = Begun
  BY <1>1, <1>2, <1>4 DEF GoesTo, Holder, Legal, Current, Begun
<1>6. cmd.then # "create"
  BY <1>1 DEF WTypes, CreateSound
<1>7. PlacesSound'
  BY <1>1, <1>2, <1>4, <1>5, <1>6, StillHolding DEF GoesTo, HeldSteps, AtSome, Failing
<1>8. StepJsons'
  BY <1>1, <1>2, <1>5 DEF GoesTo, WorkSound, StepJsons, AtSome, At, Failing
<1>9. BegunSound'
  BY <1>1, <1>2, <1>5 DEF GoesTo, WorkSound, BegunSound, AtSome, At
<1>. QED BY <1>1, <1>7, <1>8, <1>9 DEF WorkSound, HubJsons, CacheJsons

\* A download that ends, or fails in a switch, has changed nothing.
LEMMA LeaveWork ==
    ASSUME WTypes, WTypes', WorkSound, cmd # None, cmd.at \in { "ask", "fetch" },
           cmd' # None, cmd'.at = "leave", cmd'.then \in { cmd.then, "end" }, cmd'.json = cmd.json,
           cmd'.version = cmd.version, cmd'.profile = cmd.profile,
           top' = top, cache' = cache, hub' = hub, wanted' = wanted
    PROVE  WorkSound'
<1>1. cmd.then # "create" /\ AtSome(HeldSteps) /\ ~Failing
  BY DEF WTypes, CreateSound, HeldSteps, AtSome, Failing
<1>2. CASE cmd'.then = "end"
  <2>1. PlacesSound'
    BY <1>1, <1>2, StillSettled DEF Failing
  <2>2. StepJsons' /\ BegunSound'
    BY <1>1, <1>2 DEF WorkSound, StepJsons, BegunSound, Begun, AtSome, At, Failing
  <2>. QED BY <2>1, <2>2 DEF WorkSound, HubJsons, CacheJsons
<1>3. CASE cmd'.then # "end"
  <2>1. cmd'.then = cmd.then /\ Holder' = Holder
    BY <1>3 DEF Holder
  <2>2. PlacesSound'
    BY <1>1, <1>3, <2>1, StillHolding DEF Failing, HeldSteps
  <2>3. Legal' = Legal /\ Current' = Current /\ Begun' = Begun
    BY DEF Legal, Current, Begun
  <2>4. StepJsons'
    BY <1>1, <1>3, <2>1, <2>3 DEF WorkSound, StepJsons, AtSome, At, Failing
  <2>5. BegunSound'
    BY <1>1, <2>1, <2>3 DEF WorkSound, BegunSound, AtSome, At
  <2>. QED BY <2>2, <2>4, <2>5 DEF WorkSound, HubJsons, CacheJsons
<1>. QED BY <1>2, <1>3

\* What is to be fetched has a project.json.
LEMMA AskHubWork == ASSUME WTypes, WTypes', WorkSound, FetchSound, Asks PROVE WorkSound'
<1>1. /\ cmd # None /\ cmd.at = "ask" /\ top' = top /\ cache' = cache /\ hub' = hub /\ wanted' = wanted
      /\ cmd'.at = "fetch" /\ cmd'.then = cmd.then /\ "json" \in cmd'.left
      /\ cmd'.version = cmd.version /\ cmd'.profile = cmd.profile /\ cmd'.json = cmd.json
      /\ cmd' # None
  BY AskHubTypes
<1>5. top["temp"]["json"] = None
  BY <1>1, NamesAre DEF FetchSound, At
<1>6. Holder' = Holder /\ Legal' = Legal /\ Current' = Current /\ Begun' = Begun
  BY <1>1 DEF Holder, Legal, Current, Begun
<1>7. cmd.then # "create" /\ AtSome(HeldSteps) /\ ~Failing /\ ~Failing'
  BY <1>1 DEF WTypes, CreateSound, HeldSteps, AtSome, Failing
<1>8. PlacesSound'
  BY <1>1, <1>6, <1>7, StillHolding DEF HeldSteps
<1>9. StepJsons'
  <2>1. top'["temp"]["json"] \notin Jsons
    BY <1>1, <1>5, JsonHas
  <2>. QED BY <1>1, <1>6, <1>7, <2>1 DEF WorkSound, StepJsons, AtSome, At
<1>10. BegunSound'
  BY <1>1, <1>6 DEF WorkSound, BegunSound, AtSome, At
<1>. QED BY <1>1, <1>8, <1>9, <1>10 DEF WorkSound, HubJsons, CacheJsons

\* So does what was fetched of it.
LEMMA FetchWork ==
    ASSUME WTypes, WTypes', WorkSound, NEW n \in Names, Fetch(n) \/ FetchError(n) PROVE WorkSound'
<1>1. /\ cmd # None /\ cmd' # None /\ cmd.at = "fetch" /\ cmd'.at = "fetch"
      /\ cmd'.then = cmd.then /\ cmd'.left = cmd.left \ { n } /\ cmd'.json = cmd.json
      /\ cmd'.version = cmd.version /\ cmd'.profile = cmd.profile
      /\ \A m \in Names \ { n } : top'["temp"][m] = top["temp"][m]
      /\ \A m \in Names \ { "temp" } : top'[m] = top[m]
  BY FetchTypes
<1>2. cache' = cache /\ hub' = hub /\ wanted' = wanted
  BY FetchTypes
<1>3. top'["json"] = top["json"] /\ \A f \in Files : top'[f] = top[f]
  BY <1>1, NamesAre
<1>4. Holder' = Holder /\ Legal' = Legal /\ Current' = Current /\ Begun' = Begun
  BY <1>1, <1>2, <1>3 DEF Holder, Legal, Current, Begun
<1>5. cmd.then # "create" /\ AtSome(HeldSteps) /\ ~Failing /\ ~Failing'
  BY <1>1 DEF WTypes, CreateSound, HeldSteps, AtSome, Failing
<1>6. PlacesSound'
  BY <1>1, <1>2, <1>3, <1>4, <1>5, StillHolding DEF HeldSteps
<1>7. PICK h : h = hub[cmd.profile]
  OBVIOUS
<1>8. h # None => h.dir["json"] \in Jsons /\ h.dir["json"].current = cmd.profile
  <2>1. cmd.profile \in Versions
    BY <1>1, CmdIs
  <2>. QED BY <1>7, <2>1 DEF WTypes, TypeOK, IsHub, WorkSound, HubJsons
<1>9. n = "json" => \/ top'["temp"]["json"] = ErrorText
                    \/ h # None /\ top'["temp"]["json"] = h.dir["json"]
  <2>1. \/ top'["temp"][n] = ErrorText
        \/ h # None /\ top'["temp"][n] = h.dir[n]
    BY <1>7, FetchTypes
  <2>. QED BY <2>1
<1>10. n # "json" => top'["temp"]["json"] = top["temp"]["json"]
  BY <1>1, NamesAre
<1>11. top'["temp"]["json"] \in Jsons => top'["temp"]["json"].current = cmd.profile
  <2>1. n # "json" =>
            (top'["temp"]["json"] \in Jsons => top'["temp"]["json"].current = cmd.profile)
    BY <1>1, <1>10 DEF WorkSound, StepJsons, AtSome
  <2>. QED BY <1>8, <1>9, <2>1, NoneAssumption
<1>12. top'["temp"]["json"] # None \/ "json" \in cmd'.left
  <2>1. n = "json" => top'["temp"]["json"] # None
    BY <1>8, <1>9, JsonHas, NoneAssumption
  <2>. QED BY <1>1, <1>10, <2>1 DEF WorkSound, BegunSound, At
<1>13. StepJsons'
  BY <1>1, <1>4, <1>5, <1>11 DEF WorkSound, StepJsons, AtSome, At
<1>14. BegunSound'
  BY <1>1, <1>4, <1>12 DEF WorkSound, BegunSound, AtSome, At
<1>. QED BY <1>2, <1>6, <1>13, <1>14 DEF WorkSound, HubJsons, CacheJsons

\* The work on the version is given up.
LEMMA MergeFetchedWork == ASSUME WTypes, WTypes', WorkSound, MergeFetched, ~torn' PROVE WorkSound'
<1>1. /\ cmd # None /\ cmd.at = "fetch" /\ cmd.left = {} /\ GoesTo("clean")
      /\ cmd.then # "switch" /\ top' = top /\ cache' = cache /\ hub' = hub
      /\ wanted' = [ wanted EXCEPT ![cmd.profile] = None ]
  BY Going DEF MergeFetched, At, diskVars
<1>2. cmd.then = "end" /\ cmd.profile \in Versions
  BY <1>1, CmdIs DEF WTypes, CreateSound
<1>3. PICK v \in Versions : v = cmd.profile
  BY <1>2
<1>4. Holder = v /\ Holder' = v /\ ~Failing /\ ~Failing' /\ AtSome(HeldSteps)
  BY <1>1, <1>2, <1>3 DEF GoesTo, Holder, Failing, HeldSteps, AtSome
<1>5. KeptWith(v)
  BY <1>4, Held DEF WorkSound
<1>6. wanted'[v] = None /\ \A u \in Versions \ { v } : wanted'[u] = wanted[u]
  BY <1>1, <1>3 DEF WTypes, TypeOK
<1>7. KeptWith(v)'
  <2>1. ASSUME NEW u \in Versions \ { v } PROVE Kept(u)'
    <3>1. Kept(u)
      BY <1>5 DEF KeptWith, OthersKept
    <3>. QED BY <1>1, <1>6, <3>1, SameKept
  <2>. QED BY <1>6, <2>1 DEF KeptWith, OthersKept, Has
<1>8. Legal' = Legal /\ Current' = Current /\ Begun' = Begun
  BY <1>1 DEF Legal, Current, Begun
<1>9. PlacesSound'
  BY <1>1, <1>2, <1>3, <1>4, <1>6, <1>7, Holding DEF GoesTo, HeldSteps
<1>10. StepJsons'
  BY <1>1, <1>2, <1>4, <1>8 DEF GoesTo, WorkSound, StepJsons, AtSome, At
<1>11. BegunSound'
  <2>1. top'["temp"]["json"] # None
    BY <1>1 DEF WorkSound, BegunSound, At
  <2>2. top'["temp"] # None
    BY <1>1 DEF WTypes, PlacesThere, AtSome
  <2>. QED BY <1>1, <2>1, <2>2 DEF GoesTo, BegunSound, AtSome, At
<1>. QED BY <1>1, <1>9, <1>10, <1>11 DEF WorkSound, HubJsons, CacheJsons

\* A pull that replaces the files of its version, of which nothing is wanted.
LEMMA Replacing ==
    ASSUME WTypes, WTypes', WorkSound, cmd # None, cmd' # None, cmd.at \in { "clean", "install" },
           cmd'.at \in { "clean", "install" }, cmd'.then = cmd.then, cmd'.profile = cmd.profile,
           cache' = cache, wanted' = wanted
    PROVE  /\ PlacesSound' /\ cmd.then = "end" /\ ~Failing /\ ~Failing'
           /\ Holder = cmd.profile /\ Holder' = cmd.profile
<1>1. cmd.then = "end" /\ cmd.profile \in Versions /\ wanted[cmd.profile] = None
  BY CmdIs DEF WorkSound, StepJsons, PlacesSound, AtSome
<1>2. PICK v \in Versions : v = cmd.profile
  BY <1>1
<1>3. Holder = v /\ Holder' = v /\ ~Failing /\ ~Failing' /\ AtSome(HeldSteps)
  BY <1>1, <1>2 DEF Holder, Failing, HeldSteps, AtSome
<1>4. KeptWith(v)
  BY <1>3, Held DEF WorkSound
<1>5. KeptWith(v)'
  <2>1. ASSUME NEW u \in Versions \ { v } PROVE Kept(u)'
    <3>1. Kept(u)
      BY <1>4 DEF KeptWith, OthersKept
    <3>. QED BY <3>1, SameKept
  <2>2. Has(top, v)'
    BY <1>1, <1>2 DEF Has
  <2>. QED BY <2>1, <2>2 DEF KeptWith, OthersKept
<1>6. PlacesSound'
  BY <1>1, <1>2, <1>3, <1>5, Holding DEF HeldSteps
<1>. QED BY <1>1, <1>2, <1>3, <1>6

\* What was there before goes.
LEMMA CleanTopWork == ASSUME WTypes, WTypes', WorkSound, CleanTop PROVE WorkSound'
<1>1. /\ cmd # None /\ cmd.at = "clean" /\ cmd' = cmd
      /\ cache' = cache /\ hub' = hub /\ wanted' = wanted
  BY CleanTopTypes DEF CleanTop, ghostVars
<1>2. PICK n \in Names \ { "temp" } : top'[n] = None /\ \A m \in Names \ { n } : top'[m] = top[m]
  BY CleanTopTypes
<1>3. top'["temp"] = top["temp"] /\ top'["json"] \in { None, top["json"] }
  BY <1>2, NamesAre
<1>4. /\ PlacesSound' /\ cmd.then = "end" /\ ~Failing /\ ~Failing'
      /\ Holder = cmd.profile /\ Holder' = cmd.profile
  BY <1>1, Replacing
<1>5. Legal' => Legal /\ Current' = Current
  BY <1>3 DEF Legal, Current
<1>6. StepJsons'
  BY <1>1, <1>3, <1>4, <1>5 DEF WorkSound, StepJsons, AtSome, At
<1>7. BegunSound'
  <2>1. top'["temp"] # None
    BY <1>1 DEF WTypes, PlacesThere, AtSome
  <2>. QED BY <1>1, <1>3, <2>1 DEF WorkSound, BegunSound, AtSome, At
<1>. QED BY <1>1, <1>4, <1>6, <1>7 DEF WorkSound, HubJsons, CacheJsons

\* The end of that changes nothing.
LEMMA CleanedWork == ASSUME WTypes, WTypes', WorkSound, Cleaned PROVE WorkSound'
<1>1. /\ cmd # None /\ cmd.at = "clean" /\ GoesTo("install")
      /\ top' = top /\ cache' = cache /\ hub' = hub /\ wanted' = wanted
  BY Going DEF Cleaned, At, diskVars, ghostVars
<1>2. /\ PlacesSound' /\ cmd.then = "end" /\ ~Failing /\ ~Failing'
      /\ Holder = cmd.profile /\ Holder' = cmd.profile
  BY <1>1, Replacing DEF GoesTo
<1>3. Legal' = Legal /\ Current' = Current
  BY <1>1 DEF Legal, Current
<1>4. StepJsons'
  BY <1>1, <1>2, <1>3 DEF GoesTo, WorkSound, StepJsons, AtSome, At
<1>5. BegunSound'
  <2>1. top'["temp"] # None
    BY <1>1 DEF WTypes, PlacesThere, AtSome
  <2>. QED BY <1>1, <2>1 DEF GoesTo, WorkSound, BegunSound, AtSome, At
<1>. QED BY <1>1, <1>2, <1>4, <1>5 DEF WorkSound, HubJsons, CacheJsons

\* What was fetched comes.
LEMMA InstallWork == ASSUME WTypes, WTypes', WorkSound, Install PROVE WorkSound'
<1>1. /\ cmd # None /\ cmd.at = "install" /\ cmd' = cmd
      /\ cache' = cache /\ hub' = hub /\ wanted' = wanted
  BY InstallTypes DEF Install, ghostVars
<1>2. PICK n \in Files \cup { "json" } :
          /\ top["temp"][n] # None /\ top'["temp"][n] = None /\ top'[n] = top["temp"][n]
          /\ \A m \in Names \ { n } : top'["temp"][m] = top["temp"][m]
          /\ \A m \in Names \ { n, "temp" } : top'[m] = top[m]
  BY InstallTypes
<1>3. /\ PlacesSound' /\ cmd.then = "end" /\ ~Failing /\ ~Failing'
      /\ Holder = cmd.profile /\ Holder' = cmd.profile
  BY <1>1, Replacing
<1>4. CASE n = "json"
  <2>1. top'["json"] = top["temp"]["json"] /\ top["temp"]["json"] # None /\ top'["temp"]["json"] = None
    BY <1>2, <1>4
  <2>2. Legal' => Current' = cmd.profile
    <3>1. Legal' => top'["json"] \in Jsons
      BY DEF Legal, WTypes, TypeOK, IsDir, HasModel
    <3>. QED BY <1>1, <2>1, <3>1 DEF Current, WorkSound, StepJsons, AtSome
  <2>3. StepJsons'
    BY <1>1, <1>3, <2>1, <2>2, JsonHas DEF WorkSound, StepJsons, AtSome, At
  <2>4. BegunSound'
    BY <1>1, <2>1 DEF WorkSound, BegunSound, Begun, AtSome, At
  <2>. QED BY <1>1, <1>3, <2>3, <2>4 DEF WorkSound, HubJsons, CacheJsons
<1>5. CASE n # "json"
  <2>1. top'["json"] = top["json"] /\ top'["temp"]["json"] = top["temp"]["json"]
    BY <1>2, <1>5, NamesAre
  <2>2. Legal' = Legal /\ Current' = Current
    BY <2>1 DEF Legal, Current
  <2>3. StepJsons'
    BY <1>1, <1>3, <2>1, <2>2 DEF WorkSound, StepJsons, AtSome, At
  <2>4. BegunSound'
    <3>1. top'["temp"] # None
      BY <1>1 DEF WTypes, PlacesThere, AtSome
    <3>. QED BY <1>1, <2>1, <3>1 DEF WorkSound, BegunSound, AtSome, At
  <2>. QED BY <1>1, <1>3, <2>3, <2>4 DEF WorkSound, HubJsons, CacheJsons
<1>. QED BY <1>4, <1>5

\* It is the work on the version from then on.
LEMMA InstalledWork == ASSUME WTypes, WTypes', WorkSound, Installed PROVE WorkSound'
<1>1. /\ cmd # None /\ cmd.at = "install" /\ GoesTo("fetched") /\ Entries(top["temp"]) = {}
      /\ top' = top /\ cache' = cache /\ hub' = hub
  BY Going DEF Installed, At, diskVars
<1>2. cmd.then = "end" /\ cmd.profile \in Versions
  BY <1>1, CmdIs DEF WorkSound, StepJsons, AtSome
<1>3. PICK v \in Versions : v = cmd.profile
  BY <1>2
<1>4. wanted' = [ wanted EXCEPT ![v] = Model(top) ]
  BY <1>2, <1>3 DEF Installed
<1>5. Holder = v /\ Holder' = v /\ ~Failing /\ ~Failing' /\ AtSome(HeldSteps)
  BY <1>1, <1>2, <1>3 DEF GoesTo, Holder, Failing, HeldSteps, AtSome
<1>6. KeptWith(v)
  BY <1>5, Held DEF WorkSound
<1>7. KeptWith(v)'
  <2>1. wanted'[v] = Model(top) /\ \A u \in Versions \ { v } : wanted'[u] = wanted[u]
    BY <1>4 DEF WTypes, TypeOK
  <2>2. ASSUME NEW u \in Versions \ { v } PROVE Kept(u)'
    <3>1. Kept(u)
      BY <1>6 DEF KeptWith, OthersKept
    <3>. QED BY <1>1, <2>1, <3>1, SameKept
  <2>3. Has(top, v)'
    <3>1. top' # None
      BY DirNotNone DEF WTypes, TypeOK
    <3>. QED BY <1>1, <2>1, <3>1 DEF Has
  <2>. QED BY <2>2, <2>3 DEF KeptWith, OthersKept
<1>8. PlacesSound'
  BY <1>1, <1>2, <1>5, <1>7, Holding DEF GoesTo, HeldSteps
<1>9. top["temp"]["json"] = None
  BY <1>1, EntriesAre, NamesAre
<1>10. Begun'
  BY <1>1, <1>9 DEF WorkSound, BegunSound, Begun, At
<1>11. Legal' = Legal /\ Current' = Current
  BY <1>1 DEF Legal, Current
<1>12. StepJsons' /\ BegunSound'
  BY <1>1, <1>2, <1>5, <1>10, <1>11 DEF GoesTo, WorkSound, StepJsons, BegunSound, AtSome, At
<1>. QED BY <1>1, <1>8, <1>12 DEF WorkSound, HubJsons, CacheJsons

\* The directory of the download and the lock go.
LEMMA LeaveDownloadWork == ASSUME WTypes, WTypes', WorkSound, LeaveDownload PROVE WorkSound'
<1>1. /\ cmd # None /\ cmd.at \in { "leave", "fetched" }
      /\ \A m \in Names \ { "temp", "lock" } : top'[m] = top[m]
      /\ cmd' = None \/ (cmd.then = "switch" /\ GoesTo("mark"))
  BY LeaveDownloadTypes
<1>2. cache' = cache /\ hub' = hub /\ wanted' = wanted
  BY DEF LeaveDownload, ghostVars
<1>3. top'["json"] = top["json"] /\ \A f \in Files : top'[f] = top[f]
  BY <1>1, NamesAre
<1>4. Legal' = Legal /\ Current' = Current /\ Begun' = Begun /\ Begun
  BY <1>1, <1>2, <1>3 DEF Legal, Current, Begun, WorkSound, BegunSound, AtSome
<1>5. AtSome(HeldSteps)
  BY <1>1 DEF HeldSteps, AtSome
<1>6. CASE cmd' = None
  <2>1. PlacesSound'
    BY <1>2, <1>3, <1>5, <1>6, StillSettled
  <2>2. BegunSound'
    BY <1>4, <1>6, NoCmdBegun
  <2>. QED BY <1>2, <1>6, <2>1, <2>2, NoCmdJsons DEF WorkSound, HubJsons, CacheJsons
<1>7. CASE cmd.then = "switch" /\ GoesTo("mark")
  <2>1. Holder' = Holder /\ ~Failing /\ ~Failing'
    BY <1>1, <1>7 DEF GoesTo, Holder, Failing
  <2>2. PlacesSound'
    BY <1>2, <1>3, <1>5, <1>7, <2>1, StillHolding DEF GoesTo, HeldSteps
  <2>3. StepJsons'
    BY <1>1, <1>4, <1>7, <2>1 DEF GoesTo, WorkSound, StepJsons, AtSome, At
  <2>4. BegunSound'
    BY <1>4, <1>7 DEF GoesTo, BegunSound, AtSome, At
  <2>. QED BY <1>2, <2>2, <2>3, <2>4 DEF WorkSound, HubJsons, CacheJsons
<1>. QED BY <1>1, <1>6, <1>7

\* The steps of a download keep the work.
LEMMA DownloadWork ==
    ASSUME WTypes, WTypes', FetchSound, WorkSound, Download, ~torn' PROVE WorkSound'
<1>1. ASSUME DownloadFails PROVE WorkSound'
  <2>1. top' = top /\ cache' = cache /\ hub' = hub /\ wanted' = wanted
    BY <1>1 DEF DownloadFails, diskVars, ghostVars
  <2>. QED BY <1>1, <2>1, DownloadFailsTypes, LeaveWork
<1>2. ASSUME NotFound PROVE WorkSound'
  <2>1. top' = top /\ cache' = cache /\ hub' = hub /\ wanted' = wanted
    BY <1>2 DEF NotFound, diskVars, ghostVars
  <2>2. cmd # None /\ cmd.at = "ask" /\ GoesTo("leave")
    BY <1>2, NotFoundTypes DEF At
  <2>. QED BY <2>1, <2>2, LeaveWork DEF GoesTo
<1>. QED BY <1>1, <1>2, ReadLockWork, LockWork, AskHubWork, FetchWork, MergeFetchedWork, CleanTopWork, CleanedWork,
         InstallWork, InstalledWork, LeaveDownloadWork DEF Download, Asks

-----------------------------------------------------------------------------
\* The steps of switch and of create.

\* The cache of the version is empty when its files come.
LEMMA DropCacheWork == ASSUME WTypes, WTypes', WorkSound, DropCache PROVE WorkSound'
<1>1. /\ cmd # None /\ cmd.at = "drop" /\ GoesTo("save") /\ top' = top
      /\ cache'[cmd.profile] = Empty /\ \A u \in Versions \ { cmd.profile } : cache'[u] = cache[u]
  BY DropCacheTypes
<1>2. hub' = hub /\ wanted' = wanted
  BY DEF DropCache, ghostVars
<1>3. PICK v \in Versions : v = cmd.profile
  BY <1>1, CmdIs
<1>4. Holder = v /\ Holder' = v /\ AtSome(HeldSteps) /\ ~Failing /\ ~Failing'
  BY <1>1, <1>3 DEF GoesTo, Holder, HeldSteps, AtSome, Failing
<1>5. KeptWith(v) /\ (cmd.then = "create" => wanted[cmd.version] = None)
  BY <1>4, Held DEF WorkSound
<1>6. cache'[v] = Empty /\ \A u \in Versions \ { v } : cache'[u] = cache[u]
  BY <1>1, <1>3
<1>7. \A n \in Names : cache'[v][n] = None
  BY <1>6, EmptyDir
<1>8. OthersKept(v)'
  <2>1. ASSUME NEW u \in Versions \ { v } PROVE Kept(u)'
    <3>1. Kept(u)
      BY <1>5 DEF KeptWith, OthersKept
    <3>. QED BY <1>2, <1>6, <3>1, SameKept
  <2>. QED BY <2>1 DEF OthersKept
<1>9. /\ top' # None /\ cache'[v] # None
      /\ \A n \in Names : top'[n] = None \/ cache'[v][n] = None
      /\ wanted'[v] # None =>
             \A f \in Files : wanted'[v][f] = IF top'[f] # None THEN top'[f] ELSE cache'[v][f]
  <2>1. top' # None /\ cache'[v] # None
    BY <1>6, EmptyDir, DirNotNone DEF WTypes, TypeOK
  <2>2. ASSUME wanted[v] # None PROVE \A f \in Files : wanted[v][f] = top[f]
    <3>1. Model(top) = wanted[v]
      BY <1>5, <2>2 DEF KeptWith, Has
    <3>. QED BY <3>1 DEF Model
  <2>. QED BY <1>1, <1>2, <1>7, <2>1, <2>2, NamesAre
<1>10. cmd'.profile = v /\ cmd'.at = "save" /\ cmd' # None
  BY <1>1, <1>3 DEF GoesTo
<1>11. PlacesSound'
  <2>1. Moving(top, cache[cmd.profile], cmd.profile)' /\ OthersKept(cmd.profile)'
    BY <1>8, <1>9, <1>10 DEF Moving, OthersKept, Kept, Has
  <2>. QED BY <1>1, <1>2, <1>5, <1>10, <2>1 DEF GoesTo, PlacesSound, AtSome, At, Failing, HeldSteps
<1>12. CacheJsons'
  <2>1. cache'[v]["json"] = None
    BY <1>7, NamesAre
  <2>. QED BY <1>6, <2>1 DEF WorkSound, CacheJsons
<1>13. Legal /\ Legal' = Legal /\ Current' = Current
  BY <1>1 DEF Legal, Current, WTypes, StepsSound, At
<1>14. StepJsons'
  <2>1. top'["json"] # ErrorText
    BY <1>1, <1>13 DEF Legal
  <2>. QED BY <1>1, <1>4, <1>10, <1>13, <2>1 DEF WorkSound, StepJsons, AtSome, At
<1>15. BegunSound'
  BY <1>9, <1>10 DEF BegunSound, Begun, AtSome, At
<1>. QED BY <1>2, <1>11, <1>12, <1>14, <1>15 DEF WorkSound, HubJsons

\* An entry is in the directory or in the cache while it is moved.
LEMMA SaveWork == ASSUME WTypes, WTypes', WorkSound, Save PROVE WorkSound'
<1>1. /\ cmd # None /\ cmd.at = "save" /\ cmd' = cmd
      /\ cache'[cmd.profile] # None /\ \A u \in Versions \ { cmd.profile } : cache'[u] = cache[u]
  BY SaveTypes
<1>2. PICK n \in Names :
          /\ top[n] # None /\ top'[n] = None /\ cache'[cmd.profile][n] = top[n]
          /\ \A m \in Names \ { n } :
                top'[m] = top[m] /\ cache'[cmd.profile][m] = cache[cmd.profile][m]
  BY SaveTypes
<1>3. hub' = hub /\ wanted' = wanted
  BY DEF Save, ghostVars
<1>4. PICK v \in Versions : v = cmd.profile
  BY <1>1, CmdIs
<1>5. /\ cache'[v] # None /\ (\A u \in Versions \ { v } : cache'[u] = cache[u])
      /\ top[n] # None /\ top'[n] = None /\ cache'[v][n] = top[n]
      /\ \A m \in Names \ { n } : top'[m] = top[m] /\ cache'[v][m] = cache[v][m]
  BY <1>1, <1>2, <1>4
<1>6. OthersKept(v) /\ Moving(top, cache[v], v)
  BY <1>1, <1>4 DEF WorkSound, PlacesSound, At
<1>7. OthersKept(v)'
  <2>1. ASSUME NEW u \in Versions \ { v } PROVE Kept(u)'
    <3>1. Kept(u)
      BY <1>6 DEF OthersKept
    <3>. QED BY <1>3, <1>5, <3>1, SameKept
  <2>. QED BY <2>1 DEF OthersKept
<1>8. /\ top' # None
      /\ \A m \in Names : top'[m] = None \/ cache'[v][m] = None
      /\ wanted'[v] # None =>
             \A f \in Files : wanted'[v][f] = IF top'[f] # None THEN top'[f] ELSE cache'[v][f]
  <2>1. top' # None
    BY DirNotNone DEF WTypes, TypeOK
  <2>2. /\ \A m \in Names : top[m] = None \/ cache[v][m] = None
        /\ wanted[v] # None => \A f \in Files : wanted[v][f] = IF top[f] # None THEN top[f] ELSE cache[v][f]
    BY <1>6 DEF Moving
  <2>. QED BY <1>3, <1>5, <2>1, <2>2, NamesAre
<1>9. PlacesSound'
  <2>1. Moving(top, cache[cmd.profile], cmd.profile)' /\ OthersKept(cmd.profile)'
    BY <1>1, <1>4, <1>5, <1>7, <1>8 DEF Moving, OthersKept, Kept, Has
  <2>. QED BY <1>1, <1>3, <2>1 DEF WorkSound, PlacesSound, AtSome, At, Failing, HeldSteps
<1>10. Holder = v /\ Holder' = v /\ ~Failing
  BY <1>1, <1>4 DEF Holder, Failing
<1>11. top["json"] # ErrorText /\ (Legal => Current = v)
  BY <1>1, <1>10 DEF WorkSound, StepJsons, At
<1>12. top["json"] \in { None } \cup Jsons
  BY <1>11 DEF WTypes, TypeOK, IsDir, HasModel
<1>13. CacheJsons'
  <2>1. CASE n = "json"
    <3>1. cache'[v]["json"] \in Jsons /\ cache'[v]["json"].current = v
      BY <1>5, <1>11, <1>12, <2>1 DEF Legal, Current
    <3>. QED BY <1>5, <3>1 DEF WorkSound, CacheJsons
  <2>2. CASE n # "json"
    <3>1. cache'[v]["json"] = cache[v]["json"]
      BY <1>5, <2>2, NamesAre
    <3>2. cache[v] # None
      BY <1>6 DEF Moving
    <3>. QED BY <1>5, <3>1, <3>2 DEF WorkSound, CacheJsons
  <2>. QED BY <2>1, <2>2
<1>14. top'["json"] \in { None, top["json"] }
  BY <1>5, NamesAre
<1>15. StepJsons'
  <2>1. (Legal' => Current' = v) /\ top'["json"] # ErrorText
    BY <1>11, <1>14, NoneAssumption DEF Legal, Current
  <2>. QED BY <1>1, <1>10, <2>1 DEF StepJsons, AtSome, At
<1>16. BegunSound'
  BY <1>1, <1>5 DEF BegunSound, Begun, AtSome, At
<1>. QED BY <1>3, <1>9, <1>13, <1>15, <1>16 DEF WorkSound, HubJsons

\* All of the version is in its cache.
LEMMA SavedWork == ASSUME WTypes, WTypes', WorkSound, Saved PROVE WorkSound'
<1>1. /\ cmd # None /\ cmd.at = "save" /\ Entries(top) = {}
      /\ top' = top /\ cache' = cache /\ hub' = hub /\ wanted' = wanted
  BY DEF Saved, At, diskVars, ghostVars
<1>2. PICK v \in Versions : v = cmd.profile
  BY <1>1, CmdIs
<1>3. \A n \in Names : top[n] = None
  BY <1>1, EntriesAre
<1>4. OthersKept(v) /\ Moving(top, cache[v], v)
  BY <1>1, <1>2 DEF WorkSound, PlacesSound, At
<1>5. Kept(v)
  <2>1. ASSUME wanted[v] # None PROVE Model(cache[v]) = wanted[v]
    <3>1. \A f \in Files : wanted[v][f] = cache[v][f]
      BY <1>3, <1>4, <2>1, NamesAre DEF Moving
    <3>2. wanted[v] \in [ Files -> Content ]
      BY <2>1 DEF WTypes, TypeOK
    <3>. QED BY <3>1, <3>2 DEF Model
  <2>. QED BY <1>4, <2>1 DEF Kept, Has, Moving
<1>6. \A u \in Versions : Kept(u)
  BY <1>4, <1>5 DEF OthersKept
<1>7. top["json"] = None /\ cache[v] # None
  BY <1>3, <1>4, NamesAre DEF Moving
<1>8. cmd.then = "switch" \/ cmd.then = "create"
  BY <1>1, CmdIs DEF WTypes, StepsSound, AtSome
<1>9. \A u \in Versions : Kept(u)'
  <2>1. ASSUME NEW u \in Versions PROVE Kept(u)'
    BY <1>1, <1>6, SameKept
  <2>. QED BY <2>1
<1>10. ~Legal'
  BY <1>1, <1>7 DEF Legal
<1>11. Begun'
  BY <1>1, <1>7 DEF Begun
<1>12. CASE cmd.then = "switch"
  <2>1. GoesTo("load")
    BY <1>1, <1>12, Going DEF Saved
  <2>2. PICK w \in Versions : w = cmd.version
    BY <1>1, CmdIs
  <2>3. OthersKept(w)'
    BY <1>9 DEF OthersKept
  <2>4. /\ cache'[w] # None /\ top' # None
        /\ \A n \in Names : cache'[w][n] = None \/ top'[n] = None
        /\ wanted'[w] # None =>
               \A f \in Files : wanted'[w][f] = IF cache'[w][f] # None THEN cache'[w][f] ELSE top'[f]
    <3>1. cache[w] # None
      BY <1>1, <1>12, <2>2 DEF WTypes, PlacesThere, AtSome
    <3>2. top' # None
      BY DirNotNone DEF WTypes, TypeOK
    <3>3. ASSUME wanted[w] # None PROVE \A f \in Files : wanted[w][f] = cache[w][f]
      <4>1. Model(cache[w]) = wanted[w]
        BY <1>6, <3>3 DEF Kept, Has
      <4>. QED BY <4>1 DEF Model
    <3>. QED BY <1>1, <1>3, <3>1, <3>2, <3>3, NamesAre
  <2>5. cmd'.version = w /\ cmd'.at = "load" /\ cmd' # None /\ cmd'.then = "switch"
    BY <1>12, <2>1, <2>2 DEF GoesTo
  <2>6. PlacesSound'
    <3>1. Moving(cache[cmd.version], top, cmd.version)' /\ OthersKept(cmd.version)'
      BY <2>3, <2>4, <2>5 DEF Moving, OthersKept, Kept, Has
    <3>. QED BY <2>5, <3>1 DEF PlacesSound, AtSome, At, Failing, HeldSteps
  <2>7. StepJsons' /\ BegunSound'
    BY <1>10, <1>11, <2>5 DEF StepJsons, BegunSound, AtSome, At
  <2>. QED BY <1>1, <2>6, <2>7 DEF WorkSound, HubJsons, CacheJsons
<1>13. CASE cmd.then = "create"
  <2>1. GoesTo("new")
    BY <1>1, <1>13, Going DEF Saved
  <2>2. wanted'[cmd'.version] = None
    BY <1>1, <1>13, <2>1 DEF GoesTo, WorkSound, PlacesSound
  <2>3. cmd'.at = "new" /\ cmd' # None /\ cmd'.then = "create"
    BY <1>13, <2>1 DEF GoesTo
  <2>4. PlacesSound'
    BY <1>9, <2>2, <2>3 DEF PlacesSound, AtSome, At, Failing, HeldSteps
  <2>5. StepJsons' /\ BegunSound'
    BY <1>10, <1>11, <2>3 DEF StepJsons, BegunSound, AtSome, At
  <2>. QED BY <1>1, <2>4, <2>5 DEF WorkSound, HubJsons, CacheJsons
<1>. QED BY <1>8, <1>12, <1>13

\* The other version comes entry by entry in the same way.
LEMMA LoadWork == ASSUME WTypes, WTypes', WorkSound, Load PROVE WorkSound'
<1>1. /\ cmd # None /\ cmd.at = "load" /\ cmd' = cmd
      /\ cache'[cmd.version] # None /\ \A u \in Versions \ { cmd.version } : cache'[u] = cache[u]
  BY LoadTypes
<1>2. PICK n \in Names :
          /\ cache[cmd.version][n] # None /\ cache'[cmd.version][n] = None
          /\ top'[n] = cache[cmd.version][n]
          /\ \A m \in Names \ { n } :
                top'[m] = top[m] /\ cache'[cmd.version][m] = cache[cmd.version][m]
  BY LoadTypes
<1>3. hub' = hub /\ wanted' = wanted
  BY DEF Load, ghostVars
<1>4. PICK v \in Versions : v = cmd.version
  BY <1>1, CmdIs
<1>5. /\ cache'[v] # None /\ (\A u \in Versions \ { v } : cache'[u] = cache[u])
      /\ cache[v][n] # None /\ cache'[v][n] = None /\ top'[n] = cache[v][n]
      /\ \A m \in Names \ { n } : top'[m] = top[m] /\ cache'[v][m] = cache[v][m]
  BY <1>1, <1>2, <1>4
<1>6. OthersKept(v) /\ Moving(cache[v], top, v)
  BY <1>1, <1>4 DEF WorkSound, PlacesSound, At
<1>7. OthersKept(v)'
  <2>1. ASSUME NEW u \in Versions \ { v } PROVE Kept(u)'
    <3>1. Kept(u)
      BY <1>6 DEF OthersKept
    <3>. QED BY <1>3, <1>5, <3>1, SameKept
  <2>. QED BY <2>1 DEF OthersKept
<1>8. /\ top' # None
      /\ \A m \in Names : cache'[v][m] = None \/ top'[m] = None
      /\ wanted'[v] # None =>
             \A f \in Files : wanted'[v][f] = IF cache'[v][f] # None THEN cache'[v][f] ELSE top'[f]
  <2>1. top' # None
    BY DirNotNone DEF WTypes, TypeOK
  <2>2. /\ \A m \in Names : cache[v][m] = None \/ top[m] = None
        /\ wanted[v] # None => \A f \in Files : wanted[v][f] = IF cache[v][f] # None THEN cache[v][f] ELSE top[f]
    BY <1>6 DEF Moving
  <2>. QED BY <1>3, <1>5, <2>1, <2>2, NamesAre
<1>9. PlacesSound'
  <2>1. Moving(cache[cmd.version], top, cmd.version)' /\ OthersKept(cmd.version)'
    BY <1>1, <1>4, <1>5, <1>7, <1>8 DEF Moving, OthersKept, Kept, Has
  <2>. QED BY <1>1, <1>3, <2>1 DEF WorkSound, PlacesSound, AtSome, At, Failing, HeldSteps
<1>10. cmd.then = "switch"
  BY <1>1 DEF WTypes, StepsSound, AtSome
<1>11. Holder = v /\ Holder' = v /\ ~Failing
  BY <1>1, <1>4, <1>10 DEF Holder, Failing
<1>12. Legal => Current = v
  BY <1>1, <1>11 DEF WorkSound, StepJsons
<1>13. cache[v] # None
  BY <1>6 DEF Moving
<1>14. CacheJsons' /\ (Legal' => Current' = v)
  <2>1. CASE n = "json"
    <3>1. cache[v]["json"] # None /\ top'["json"] = cache[v]["json"] /\ cache'[v]["json"] = None
      BY <1>5, <2>1
    <3>2. top'["json"].current = v
      BY <1>13, <3>1 DEF WorkSound, CacheJsons
    <3>. QED BY <1>5, <3>1, <3>2 DEF WorkSound, CacheJsons, Current
  <2>2. CASE n # "json"
    <3>1. cache'[v]["json"] = cache[v]["json"] /\ top'["json"] = top["json"]
      BY <1>5, <2>2, NamesAre
    <3>. QED BY <1>5, <1>12, <1>13, <3>1 DEF WorkSound, CacheJsons, Legal, Current
  <2>. QED BY <2>1, <2>2
<1>15. StepJsons'
  BY <1>1, <1>11, <1>14 DEF StepJsons, AtSome, At
<1>16. BegunSound'
  BY <1>1, <1>5 DEF BegunSound, Begun, AtSome, At
<1>. QED BY <1>3, <1>9, <1>14, <1>15, <1>16 DEF WorkSound, HubJsons

\* All of it is in the directory.
LEMMA LoadedWork == ASSUME WTypes, WTypes', WorkSound, Loaded PROVE WorkSound'
<1>1. cmd # None /\ cmd.at = "load" /\ cmd.then = "switch" /\ Entries(cache[cmd.version]) = {}
  BY LoadedTypes DEF Loaded
<1>2. top' = top /\ cache' = cache /\ hub' = hub /\ wanted' = wanted
  BY DEF Loaded, diskVars, ghostVars
<1>3. PICK v \in Versions : v = cmd.version
  BY <1>1, CmdIs
<1>4. \A n \in Names : cache[v][n] = None
  BY <1>1, <1>3, EntriesAre
<1>5. OthersKept(v) /\ Moving(cache[v], top, v)
  BY <1>1, <1>3 DEF WorkSound, PlacesSound, At
<1>6. Has(top, v)
  <2>1. ASSUME wanted[v] # None PROVE Model(top) = wanted[v]
    <3>1. \A f \in Files : wanted[v][f] = top[f]
      BY <1>4, <1>5, <2>1, NamesAre DEF Moving
    <3>2. wanted[v] \in [ Files -> Content ]
      BY <2>1 DEF WTypes, TypeOK
    <3>. QED BY <3>1, <3>2 DEF Model
  <2>. QED BY <1>5, <2>1 DEF Has, Moving
<1>7. KeptWith(v)
  BY <1>5, <1>6 DEF KeptWith
<1>8. KeptWith(v)'
  BY <1>2, <1>7, SameKeptWith
<1>9. Holder = v /\ ~Failing
  BY <1>1, <1>3 DEF Holder, Failing
<1>10. Legal => Current = v
  BY <1>1, <1>9 DEF WorkSound, StepJsons
<1>11. Legal' = Legal /\ Current' = Current
  BY <1>2 DEF Legal, Current
<1>12. Begun'
  BY <1>2, <1>3, <1>5 DEF Begun, Moving
<1>13. CASE cmd' = None
  <2>1. PlacesSound'
    BY <1>8, <1>10, <1>11, <1>13, KeptSettledNext, Resting
  <2>. QED BY <1>2, <1>12, <1>13, <2>1, NoCmdJsons, NoCmdBegun DEF WorkSound, HubJsons, CacheJsons
<1>14. CASE cmd' # None
  <2>1. /\ Legal /\ cmd'.at \in { "switched", "download" } /\ cmd'.then = "switch"
        /\ cmd'.version = v /\ cmd'.json = top["json"]
    BY <1>3, <1>14, LoadedTypes
  <2>2. Holder' = v /\ ~Failing'
    BY <2>1 DEF Holder, Failing
  <2>3. PlacesSound'
    BY <1>8, <1>14, <2>1, <2>2, Holding DEF HeldSteps
  <2>4. cmd'.json.current = v
    BY <1>10, <2>1 DEF Current
  <2>5. StepJsons'
    BY <1>10, <1>11, <1>14, <2>1, <2>2, <2>4 DEF StepJsons, AtSome, At
  <2>6. BegunSound'
    BY <1>12, <1>14, <2>1 DEF BegunSound, AtSome, At
  <2>. QED BY <1>2, <2>3, <2>5, <2>6 DEF WorkSound, HubJsons, CacheJsons
<1>. QED BY <1>13, <1>14

\* The mark is put on the version that came.
LEMMA MarkSyncedWork == ASSUME WTypes, WTypes', WorkSound, MarkSynced PROVE WorkSound'
<1>1. /\ cmd # None /\ cmd.at = "mark" /\ cmd.then = "switch" /\ GoesTo("switched")
      /\ top'["json"] \in Jsons /\ top'["json"].current = cmd.json.current
      /\ \A m \in Names \ { "json" } : top'[m] = top[m]
  BY MarkSyncedTypes
<1>2. cache' = cache /\ hub' = hub /\ wanted' = wanted
  BY DEF MarkSynced, ghostVars
<1>3. \A f \in Files : top'[f] = top[f]
  BY <1>1, NamesAre
<1>4. Holder = cmd.version /\ Holder' = Holder /\ ~Failing /\ ~Failing' /\ AtSome(HeldSteps)
  BY <1>1 DEF GoesTo, Holder, Failing, HeldSteps, AtSome
<1>5. PlacesSound'
  BY <1>1, <1>2, <1>3, <1>4, StillHolding DEF GoesTo, HeldSteps
<1>6. cmd.json.current = cmd.version
  BY <1>1 DEF WorkSound, StepJsons, AtSome
<1>7. Current' = Holder'
  BY <1>1, <1>4, <1>6 DEF Current
<1>8. StepJsons'
  BY <1>1, <1>6, <1>7 DEF GoesTo, StepJsons, AtSome, At
<1>9. BegunSound'
  BY <1>1, JsonHas DEF GoesTo, BegunSound, Begun, AtSome, At
<1>. QED BY <1>2, <1>5, <1>8, <1>9 DEF WorkSound, HubJsons, CacheJsons

\* switch is done.
LEMMA SwitchEndsWork == ASSUME WTypes, WTypes', WorkSound, SwitchEnds PROVE WorkSound'
<1>1. /\ cmd # None /\ cmd.at = "switched" /\ cmd' = None
      /\ top' = top /\ cache' = cache /\ hub' = hub /\ wanted' = wanted
  BY DEF SwitchEnds, At, Ends, diskVars, ghostVars
<1>2. PlacesSound'
  BY <1>1, StillSettled DEF HeldSteps, AtSome
<1>3. BegunSound'
  <2>1. Begun' \/ top'["temp"] # None \/ top'["stray"] # None
    BY <1>1 DEF WorkSound, BegunSound, Begun
  <2>. QED BY <1>1, <2>1, NoCmdBegun
<1>. QED BY <1>1, <1>2, <1>3, NoCmdJsons DEF WorkSound, HubJsons, CacheJsons

\* create writes a project.json to every cache, and nothing else.
LEMMA WriteCachesWork == ASSUME WTypes, WTypes', WorkSound, WriteCaches PROVE WorkSound'
<1>1. /\ cmd # None /\ cmd.at = "caches" /\ cmd.then = "create" /\ GoesTo("drop") /\ top' = top
      /\ \A u \in Versions : cache[u] # None => cache'[u] # None
      /\ \A u \in Versions : cache'[u] # None =>
            \/ cache[u] # None /\ cache'[u] = cache[u]
            \/ /\ cache'[u]["json"] \in Jsons /\ cache'[u]["json"].current = u
               /\ cache[u] # None => \A m \in Names \ { "json" } : cache'[u][m] = cache[u][m]
  BY WriteCachesTypes
<1>2. hub' = hub /\ wanted' = wanted
  BY DEF WriteCaches, ghostVars
<1>3. CacheJsons'
  BY <1>1 DEF WorkSound, CacheJsons
<1>4. PICK v \in Versions : v = Holder
  BY <1>1, CmdIs DEF Holder
<1>5. AtSome(HeldSteps) /\ ~Failing /\ ~Failing' /\ Holder' = v
  BY <1>1, <1>4 DEF GoesTo, Holder, HeldSteps, AtSome, Failing
<1>6. KeptWith(v) /\ wanted[cmd.version] = None
  BY <1>1, <1>4, <1>5, Held DEF WorkSound
<1>7. KeptWith(v)'
  <2>1. Has(top, v)'
    BY <1>1, <1>2, <1>6, SameTop DEF KeptWith
  <2>2. ASSUME NEW u \in Versions \ { v } PROVE Kept(u)'
    <3>1. Kept(u)
      BY <1>6 DEF KeptWith, OthersKept
    <3>2. cache[u] # None => cache'[u] # None /\ \A f \in Files : cache'[u][f] = cache[u][f]
      BY <1>1, NamesAre
    <3>. QED BY <1>2, <3>1, <3>2, SameKept
  <2>. QED BY <2>1, <2>2 DEF KeptWith, OthersKept
<1>8. PlacesSound'
  BY <1>1, <1>2, <1>5, <1>6, <1>7, Holding DEF GoesTo, HeldSteps
<1>9. StepJsons'
  <2>1. Legal => Current = v
    BY <1>1, <1>4, <1>5 DEF WorkSound, StepJsons
  <2>2. Legal' = Legal /\ Current' = Current
    BY <1>1 DEF Legal, Current
  <2>. QED BY <1>1, <1>5, <2>1, <2>2 DEF GoesTo, StepJsons, AtSome, At
<1>10. BegunSound'
  <2>1. Begun'
    <3>1. top["json"] # None
      BY <1>1, WriteCachesTypes DEF Legal
    <3>. QED BY <1>1, <3>1 DEF Begun
  <2>. QED BY <1>1, <2>1 DEF GoesTo, BegunSound, AtSome, At
<1>. QED BY <1>2, <1>3, <1>8, <1>9, <1>10 DEF WorkSound, HubJsons

\* The directory is of the new version, with nothing in it yet.
LEMMA NewVersionWork == ASSUME WTypes, WTypes', WorkSound, NewVersion PROVE WorkSound'
<1>1. /\ cmd # None /\ cmd.at = "new" /\ cmd.then = "create"
      /\ cmd' # None /\ cmd'.at = "copy" /\ cmd'.then = "create" /\ cmd'.json = cmd.json
      /\ cmd'.version = cmd.version /\ cmd'.profile = cmd.profile
      /\ cmd'.left = Entries(cache[SourceOf(cmd.json.versions)]) \ { "json" }
      /\ top'["json"] \in Jsons /\ top'["json"].current = cmd.version
      /\ \A m \in Names \ { "json" } : top'[m] = None
  BY NewVersionTypes
<1>2. cache' = cache /\ hub' = hub /\ wanted' = wanted
  BY DEF NewVersion, ghostVars
<1>3. PICK v \in Versions : v = cmd.version
  BY <1>1, CmdIs
<1>4. wanted'[v] = None
  BY <1>1, <1>2, <1>3 DEF WorkSound, PlacesSound
<1>5. KeptWith(v)'
  <2>1. ASSUME NEW u \in Versions \ { v } PROVE Kept(u)'
    <3>1. Kept(u)
      BY <1>1 DEF WorkSound, PlacesSound, At
    <3>. QED BY <1>2, <3>1, SameKept
  <2>. QED BY <1>4, <2>1 DEF KeptWith, OthersKept, Has
<1>6. Holder' = v /\ ~Failing'
  BY <1>1, <1>3 DEF Holder, Failing
<1>7. PICK d : d = cache[SourceOf(cmd.json.versions)]
  OBVIOUS
<1>8. cache'[SourceOf(cmd'.json.versions)] = d
  BY <1>1, <1>2, <1>7
<1>9. cmd'.left \subseteq Entries(d) \ { "json" } /\ \A f \in Files \ cmd'.left : top'[f] = d[f]
  <2>1. cmd'.left = Entries(d) \ { "json" }
    BY <1>1, <1>7
  <2>2. ASSUME NEW f \in Files \ cmd'.left PROVE top'[f] = d[f]
    BY <1>1, <2>1, <2>2, NamesAre, EntriesAre
  <2>. QED BY <2>1, <2>2
<1>10. Copying'
  BY <1>8, <1>9 DEF Copying, Entries
<1>11. PlacesSound'
  BY <1>1, <1>3, <1>4, <1>5, <1>6, <1>10, Holding DEF HeldSteps
<1>12. StepJsons'
  BY <1>1, <1>3, <1>6 DEF StepJsons, Current, AtSome, At
<1>13. BegunSound'
  BY <1>1, JsonHas DEF BegunSound, Begun, AtSome, At
<1>. QED BY <1>2, <1>11, <1>12, <1>13 DEF WorkSound, HubJsons, CacheJsons

\* It gets the files of the version before it.
LEMMA CopyWork == ASSUME WTypes, WTypes', WorkSound, Copy PROVE WorkSound'
<1>1. /\ cmd # None /\ cmd.at = "copy" /\ cmd.then = "create"
      /\ cmd' # None /\ cmd'.at = "copy" /\ cmd'.then = "create" /\ cmd'.json = cmd.json
      /\ cmd'.version = cmd.version /\ cmd'.profile = cmd.profile
  BY CopyTypes
<1>2. PICK n \in cmd.left :
          /\ cmd'.left = cmd.left \ { n }
          /\ top'[n] = cache[SourceOf(cmd.json.versions)][n]
          /\ \A m \in Names \ { n } : top'[m] = top[m]
  BY CopyTypes
<1>3. cache' = cache /\ hub' = hub /\ wanted' = wanted
  BY DEF Copy, ghostVars
<1>4. PICK v \in Versions : v = cmd.version
  BY <1>1, CmdIs
<1>5. Holder = v /\ Holder' = v /\ ~Failing /\ ~Failing' /\ AtSome(HeldSteps)
  BY <1>1, <1>4 DEF Holder, Failing, HeldSteps, AtSome
<1>6. KeptWith(v) /\ wanted[v] = None
  BY <1>1, <1>4, <1>5, Held DEF WorkSound
<1>7. KeptWith(v)'
  <2>1. ASSUME NEW u \in Versions \ { v } PROVE Kept(u)'
    <3>1. Kept(u)
      BY <1>6 DEF KeptWith, OthersKept
    <3>. QED BY <1>3, <3>1, SameKept
  <2>. QED BY <1>3, <1>6, <2>1 DEF KeptWith, OthersKept, Has
<1>8. PICK d : d = cache[SourceOf(cmd.json.versions)]
  OBVIOUS
<1>9. cache'[SourceOf(cmd'.json.versions)] = d
  BY <1>1, <1>3, <1>8
<1>10. cmd.left \subseteq Entries(d) \ { "json" } /\ \A f \in Files \ cmd.left : top[f] = d[f]
  BY <1>1, <1>8 DEF WorkSound, PlacesSound, Copying, At
<1>11. cmd'.left \subseteq Entries(d) \ { "json" } /\ \A f \in Files \ cmd'.left : top'[f] = d[f]
  BY <1>2, <1>8, <1>10, NamesAre
<1>12. Copying'
  BY <1>9, <1>11 DEF Copying, Entries
<1>13. PlacesSound'
  BY <1>1, <1>3, <1>4, <1>5, <1>6, <1>7, <1>12, Holding DEF HeldSteps
<1>14. top'["json"] = top["json"]
  BY <1>2, <1>10, NamesAre
<1>15. Legal' = Legal /\ Current' = Current /\ Begun' = Begun
  BY <1>3, <1>14 DEF Legal, Current, Begun
<1>16. StepJsons'
  BY <1>1, <1>5, <1>15 DEF WorkSound, StepJsons, AtSome, At
<1>17. BegunSound'
  <2>1. Begun
    <3>1. SourceOf(cmd.json.versions) \in Versions /\ cache[SourceOf(cmd.json.versions)] # None
      BY <1>1, JsonHas DEF WTypes, CreateSound, SourceOf
    <3>. QED BY <3>1 DEF Begun
  <2>. QED BY <1>1, <1>15, <2>1 DEF BegunSound, AtSome, At
<1>. QED BY <1>3, <1>13, <1>16, <1>17 DEF WorkSound, HubJsons, CacheJsons

\* And with them the work on it.
LEMMA CreatedWork == ASSUME WTypes, WTypes', WorkSound, Created PROVE WorkSound'
<1>1. /\ cmd # None /\ cmd' = None /\ cmd.at = "copy" /\ cmd.then = "create" /\ cmd.left = {}
      /\ SourceOf(cmd.json.versions) \in Versions /\ cache[SourceOf(cmd.json.versions)] # None
  BY CreatedTypes DEF Created
<1>2. top' = top /\ cache' = cache /\ hub' = hub
  BY DEF Created, diskVars
<1>3. PICK v \in Versions : v = cmd.version
  BY <1>1, CmdIs
<1>4. PICK s \in Versions : s = SourceOf(cmd.json.versions)
  BY <1>1
<1>5. s # v /\ cache[s] # None
  BY <1>1, <1>3, <1>4 DEF WTypes, CreateSound
<1>6. Holder = v /\ ~Failing /\ AtSome(HeldSteps)
  BY <1>1, <1>3 DEF Holder, Failing, HeldSteps, AtSome
<1>7. KeptWith(v)
  BY <1>6, Held DEF WorkSound
<1>8. \A f \in Files : top[f] = cache[s][f]
  BY <1>1, <1>4 DEF WorkSound, PlacesSound, Copying, At
<1>9. wanted[s] # None => wanted[s] = Model(top)
  <2>1. Model(top) = Model(cache[s])
    BY <1>8 DEF Model
  <2>2. Kept(s)
    BY <1>5, <1>7 DEF KeptWith, OthersKept
  <2>. QED BY <2>1, <2>2 DEF Kept, Has
<1>10. wanted' = [ wanted EXCEPT ![v] = Model(top) ]
  <2>1. wanted' = [ wanted EXCEPT ![v] = IF wanted[s] = None THEN Model(top) ELSE wanted[s] ]
    BY <1>3, <1>4 DEF Created
  <2>. QED BY <1>9, <2>1
<1>11. KeptWith(v)'
  <2>1. wanted'[v] = Model(top) /\ \A u \in Versions \ { v } : wanted'[u] = wanted[u]
    BY <1>10 DEF WTypes, TypeOK
  <2>2. ASSUME NEW u \in Versions \ { v } PROVE Kept(u)'
    <3>1. Kept(u)
      BY <1>7 DEF KeptWith, OthersKept
    <3>. QED BY <1>2, <2>1, <3>1, SameKept
  <2>3. Has(top, v)'
    <3>1. top' # None
      BY DirNotNone DEF WTypes, TypeOK
    <3>. QED BY <1>2, <2>1, <3>1 DEF Has
  <2>. QED BY <2>2, <2>3 DEF KeptWith, OthersKept
<1>12. Legal' => Current' = v
  BY <1>1, <1>2, <1>6 DEF WorkSound, StepJsons, Legal, Current
<1>13. PlacesSound'
  BY <1>1, <1>11, <1>12, KeptSettledNext, Resting
<1>14. BegunSound'
  <2>1. Begun'
    BY <1>2, <1>4, <1>5 DEF Begun
  <2>. QED BY <1>1, <2>1, NoCmdBegun
<1>. QED BY <1>1, <1>2, <1>13, <1>14, NoCmdJsons DEF WorkSound, HubJsons, CacheJsons

\* The steps of switch and of create keep the work.
LEMMA VersionWork == ASSUME WTypes, WTypes', WorkSound, Version PROVE WorkSound'
BY DropCacheWork, SaveWork, SavedWork, LoadWork, LoadedWork, MarkSyncedWork, SwitchEndsWork,
   WriteCachesWork, NewVersionWork, CopyWork, CreatedWork DEF Version

-----------------------------------------------------------------------------
\* The hub, and a command that is killed.

\* What others publish is no work of the user, and of the same version.
LEMMA HubWork ==
    ASSUME WTypes, WTypes', WorkSound, NEW v \in Versions, Withdraw(v) \/ Republish(v)
    PROVE  WorkSound'
<1>1. /\ hub[v] # None /\ hub'[v].dir["json"] = hub[v].dir["json"]
      /\ \A u \in Versions \ { v } : hub'[u] = hub[u]
  BY WithdrawTypes, RepublishTypes
<1>2. top' = top /\ cache' = cache /\ cmd' = cmd /\ wanted' = wanted
  BY DEF Withdraw, Republish, diskVars
<1>3. HubJsons'
  BY <1>1 DEF WorkSound, HubJsons
<1>4. CacheJsons' /\ StepJsons' /\ BegunSound'
  BY <1>2 DEF WorkSound, CacheJsons, StepJsons, BegunSound, Begun, Legal, Current, Holder, Failing, AtSome, At
<1>5. PlacesSound'
  BY <1>2 DEF WorkSound, PlacesSound, Settled, KeptWith, OthersKept, Kept, Has, Moving, Copying,
              Legal, Current, Holder, Failing, AtSome, At
<1>. QED BY <1>3, <1>4, <1>5 DEF WorkSound

\* What is not split is in a state to end in.
LEMMA KillSettled ==
    ASSUME WTypes, WorkSound, cmd # None,
           ~(At("save") /\ Split(top, cache[cmd.profile])),
           ~(At("load") /\ Split(top, cache[cmd.version]))
    PROVE  Settled
<1>1. CASE Failing
  BY <1>1 DEF WorkSound, PlacesSound
<1>2. CASE AtSome(HeldSteps) /\ ~Failing
  <2>1. Holder \in Versions /\ KeptWith(Holder)
    BY <1>2, Held DEF WorkSound
  <2>2. Legal => Current = Holder
    BY <1>2 DEF WorkSound, StepJsons
  <2>. QED BY <2>1, <2>2, KeptSettled
<1>3. CASE cmd.at = "save"
  <2>1. PICK v \in Versions : v = cmd.profile
    BY CmdIs
  <2>2. OthersKept(v) /\ Moving(top, cache[v], v)
    BY <1>3, <2>1 DEF WorkSound, PlacesSound, At
  <2>3. CASE Entries(top) = {}
    <3>1. \A n \in Names : top[n] = None
      BY <2>3, EntriesAre
    <3>2. ASSUME wanted[v] # None PROVE Model(cache[v]) = wanted[v]
      <4>1. \A f \in Files : wanted[v][f] = cache[v][f]
        BY <2>2, <3>1, <3>2, NamesAre DEF Moving
      <4>2. wanted[v] \in [ Files -> Content ]
        BY <3>2 DEF WTypes, TypeOK
      <4>. QED BY <4>1, <4>2 DEF Model
    <3>3. Kept(v)
      BY <2>2, <3>2 DEF Kept, Has, Moving
    <3>4. ~Legal
      BY <3>1, NamesAre DEF Legal
    <3>. QED BY <2>2, <3>3, <3>4 DEF Settled, OthersKept
  <2>4. CASE Entries(cache[v]) = {}
    <3>1. \A n \in Names : cache[v][n] = None
      BY <2>4, EntriesAre
    <3>2. ASSUME wanted[v] # None PROVE Model(top) = wanted[v]
      <4>1. \A f \in Files : wanted[v][f] = top[f]
        BY <2>2, <3>1, <3>2, NamesAre DEF Moving
      <4>2. wanted[v] \in [ Files -> Content ]
        BY <3>2 DEF WTypes, TypeOK
      <4>. QED BY <4>1, <4>2 DEF Model
    <3>3. KeptWith(v)
      BY <2>2, <3>2 DEF KeptWith, Has, Moving
    <3>4. Legal => Current = v
      BY <1>3, <2>1 DEF WorkSound, StepJsons, Holder, Failing
    <3>. QED BY <3>3, <3>4, KeptSettled
  <2>. QED BY <1>3, <2>1, <2>3, <2>4 DEF Split, At
<1>4. CASE cmd.at = "load"
  <2>1. PICK v \in Versions : v = cmd.version
    BY CmdIs
  <2>2. OthersKept(v) /\ Moving(cache[v], top, v)
    BY <1>4, <2>1 DEF WorkSound, PlacesSound, At
  <2>3. CASE Entries(top) = {}
    <3>1. \A n \in Names : top[n] = None
      BY <2>3, EntriesAre
    <3>2. ASSUME wanted[v] # None PROVE Model(cache[v]) = wanted[v]
      <4>1. \A f \in Files : wanted[v][f] = cache[v][f]
        BY <2>2, <3>1, <3>2, NamesAre DEF Moving
      <4>2. wanted[v] \in [ Files -> Content ]
        BY <3>2 DEF WTypes, TypeOK
      <4>. QED BY <4>1, <4>2 DEF Model
    <3>3. Kept(v)
      BY <2>2, <3>2 DEF Kept, Has, Moving
    <3>4. ~Legal
      BY <3>1, NamesAre DEF Legal
    <3>. QED BY <2>2, <3>3, <3>4 DEF Settled, OthersKept
  <2>4. CASE Entries(cache[v]) = {}
    <3>1. \A n \in Names : cache[v][n] = None
      BY <2>4, EntriesAre
    <3>2. ASSUME wanted[v] # None PROVE Model(top) = wanted[v]
      <4>1. \A f \in Files : wanted[v][f] = top[f]
        BY <2>2, <3>1, <3>2, NamesAre DEF Moving
      <4>2. wanted[v] \in [ Files -> Content ]
        BY <3>2 DEF WTypes, TypeOK
      <4>. QED BY <4>1, <4>2 DEF Model
    <3>3. KeptWith(v)
      BY <2>2, <3>2 DEF KeptWith, Has, Moving
    <3>4. cmd.then = "switch"
      BY <1>4 DEF WTypes, StepsSound, AtSome
    <3>5. Legal => Current = v
      BY <1>4, <2>1, <3>4 DEF WorkSound, StepJsons, Holder, Failing
    <3>. QED BY <3>3, <3>5, KeptSettled
  <2>. QED BY <1>4, <2>1, <2>3, <2>4 DEF Split, At
<1>5. CASE cmd.at = "new"
  <2>1. PICK v \in Versions : v = cmd.version
    BY CmdIs
  <2>2. cmd.then = "create"
    BY <1>5 DEF WTypes, StepsSound, AtSome
  <2>3. wanted[v] = None /\ \A u \in Versions : Kept(u)
    BY <1>5, <2>1, <2>2 DEF WorkSound, PlacesSound, At
  <2>4. KeptWith(v)
    BY <2>3 DEF KeptWith, OthersKept, Has
  <2>5. Legal => Current = v
    BY <1>5, <2>1, <2>2 DEF WorkSound, StepJsons, Holder, Failing
  <2>. QED BY <2>4, <2>5, KeptSettled
<1>. QED BY <1>1, <1>2, <1>3, <1>4, <1>5, CmdIs DEF AtSome, HeldSteps, Commands

\* A command that is killed leaves such a state, unless a version is in two places.
LEMMA KillWork == ASSUME WTypes, WTypes', WorkSound, Kill, ~torn' PROVE WorkSound'
<1>1. /\ cmd # None /\ cmd' = None
      /\ \A m \in Names \ { "temp", "stray" } : top'[m] = top[m]
      /\ top["temp"] # None => top'["temp"] # None \/ top'["stray"] # None
      /\ top["stray"] # None => top'["stray"] # None
  BY KillTypes
<1>2. cache' = cache /\ hub' = hub /\ wanted' = wanted
  BY DEF Kill
<1>3. top'["json"] = top["json"] /\ \A f \in Files : top'[f] = top[f]
  BY <1>1, NamesAre
<1>4. Settled
  BY <1>1, KillSettled DEF Kill
<1>5. PlacesSound'
  BY <1>1, <1>2, <1>3, <1>4, SameSettled, Resting
<1>6. BegunSound'
  <2>1. Begun \/ top["temp"] # None \/ top["stray"] # None
    BY <1>1 DEF WorkSound, BegunSound
  <2>2. Begun' = Begun
    BY <1>2, <1>3 DEF Begun
  <2>. QED BY <1>1, <2>1, <2>2, NoCmdBegun
<1>. QED BY <1>1, <1>2, <1>5, <1>6, NoCmdJsons DEF WorkSound, HubJsons, CacheJsons

\* Every step keeps the work, unless something is torn by it.
LEMMA NextWork == ASSUME WTypes, WTypes', FetchSound, WorkInv, [Next]_vars PROVE WorkInv'
<1>. SUFFICES ASSUME ~torn' PROVE WorkSound'
  BY DEF WorkInv
<1>1. CASE User
  <2>1. torn' = torn
    BY <1>1 DEF User, InitProject, Switch, Create, Clone, Edit, Pull, Push, ghostVars
  <2>2. WorkSound
    BY <2>1 DEF WorkInv
  <2>. QED BY <1>1, <2>2, InitProjectWork, SwitchWork, CreateWork, CloneWork, EditWork, PullWork, PushWork
           DEF User
<1>2. CASE Download
  <2>1. ~torn
    BY <1>2 DEF Download, ReadLock, OpenLock, NameLock, NotFound, AskHub, AskAnnounced, DownloadFails,
                Fetch, FetchError, MergeFetched,
                CleanTop, Cleaned, Install, Installed, LeaveDownload, ghostVars
  <2>. QED BY <1>2, <2>1, DownloadWork DEF WorkInv
<1>3. CASE Version
  <2>1. torn' = torn
    BY <1>3 DEF Version, DropCache, Save, Saved, Load, Loaded, MarkSynced, SwitchEnds, WriteCaches,
                NewVersion, Copy, Created, ghostVars
  <2>. QED BY <1>3, <2>1, VersionWork DEF WorkInv
<1>4. CASE Kill
  <2>1. ~torn
    BY <1>4 DEF Kill
  <2>. QED BY <1>4, <2>1, KillWork DEF WorkInv
<1>5. CASE \E v \in Versions : Withdraw(v) \/ Republish(v)
  <2>1. torn' = torn
    BY <1>5 DEF Withdraw, Republish
  <2>. QED BY <1>5, <2>1, HubWork DEF WorkInv
<1>6. CASE UNCHANGED vars
  <2>1. top' = top /\ cache' = cache /\ cmd' = cmd /\ wanted' = wanted /\ hub' = hub /\ torn' = torn
    BY <1>6 DEF vars, diskVars, ghostVars
  <2>2. WorkSound
    BY <2>1 DEF WorkInv
  <2>. QED BY <2>1, <2>2
           DEF WorkSound, HubJsons, CacheJsons, StepJsons, BegunSound, Begun, PlacesSound, Settled,
               KeptWith, OthersKept, Kept, Has, Moving, Copying, Legal, Current, Holder, Failing, AtSome, At
<1>. QED BY <1>1, <1>2, <1>3, <1>4, <1>5, <1>6 DEF Next

\* At first there is no work.
LEMMA InitWork == ASSUME Init PROVE WorkSound
<1>1. /\ cmd = None /\ (\A v \in Versions : wanted[v] = None /\ cache[v] = None)
      /\ top["json"] = None
  BY EmptyDir, NamesAre DEF Init
<1>2. ASSUME NEW v \in Versions, hub[v] # None PROVE hub[v].dir["json"].current = v
  <2>1. v \in OnHub
    BY <1>2 DEF Init
  <2>2. PICK i \in DOMAIN HubVersions :
            i = CHOOSE j \in DOMAIN HubVersions : HubVersions[j] = v
    BY <2>1, HubVersionsAre DEF ToSet
  <2>3. i \in Nat /\ HubVersions \in Seq(Versions) /\ v \in ToSet(HubVersions)
    BY <2>1, <2>2, HubVersionsAre
  <2>4. hub[v] = [ dir |-> Project(v, HubVersions, i), gone |-> FALSE ]
    <3>1. hub[v] = [ dir |-> Project(v, HubVersions, CHOOSE j \in DOMAIN HubVersions : HubVersions[j] = v),
                     gone |-> FALSE ]
      BY <2>1, Zenon DEF Init
    <3>. QED BY <2>2, <3>1, Zenon
  <2>5. Project(v, HubVersions, i)["json"] = Json(v, HubVersions, TRUE)
    BY <2>3, ProjectDir, Zenon
  <2>6. Json(v, HubVersions, TRUE).current = v
    BY <2>3, JsonIs
  <2>7. PICK d : d = Project(v, HubVersions, i)
    OBVIOUS
  <2>8. hub[v] = [ dir |-> d, gone |-> FALSE ]
    BY <2>4, <2>7, Zenon
  <2>9. hub[v].dir = d
    BY <2>8
  <2>. QED BY <2>5, <2>6, <2>7, <2>9, Zenon
<1>3. Settled
  BY <1>1 DEF Settled, Legal, Kept, Has
<1>4. PlacesSound /\ StepJsons
  BY <1>1, <1>3 DEF PlacesSound, StepJsons, AtSome, At, Failing
<1>5. HubJsons /\ CacheJsons
  BY <1>1, <1>2 DEF HubJsons, CacheJsons
<1>6. BegunSound
  BY <1>1 DEF BegunSound, AtSome, At
<1>. QED BY <1>4, <1>5, <1>6 DEF WorkSound

\* A version that is kept by some directory has each of its files there.
LEMMA HasFiles ==
    ASSUME NEW v \in Versions, NEW d, Has(d, v), wanted[v] # None
    PROVE  d # None /\ \A f \in Files : d[f] = wanted[v][f]
<1>1. d # None /\ Model(d) = wanted[v]
  BY DEF Has
<1>2. \A f \in Files : Model(d)[f] = d[f]
  BY DEF Model
<1>. QED BY <1>1, <1>2

\* What the work of a version is in, at any step.
LEMMA WorkInPlaces ==
    ASSUME WTypes, WorkSound, NEW v \in Versions, wanted[v] # None, NEW f \in Files
    PROVE  wanted[v][f] \in { None, top[f] } \/ (cache[v] # None /\ cache[v][f] = wanted[v][f])
<1>1. ASSUME Has(top, v) \/ Kept(v)
      PROVE  wanted[v][f] \in { None, top[f] } \/ (cache[v] # None /\ cache[v][f] = wanted[v][f])
  BY <1>1, HasFiles DEF Kept
<1>2. ASSUME NEW u \in Versions, KeptWith(u) PROVE Has(top, v) \/ Kept(v)
  BY <1>2 DEF KeptWith, OthersKept
<1>3. ASSUME Settled PROVE Has(top, v) \/ Kept(v)
  <2>1. CASE Legal
    <3>1. Current \in Versions
      BY <2>1, JsonHas DEF Legal, Current, WTypes, TypeOK, IsDir, HasModel
    <3>. QED BY <1>2, <1>3, <2>1, <3>1 DEF Settled
  <2>2. CASE ~Legal
    BY <1>3, <2>2 DEF Settled
  <2>. QED BY <2>1, <2>2
<1>4. CASE cmd = None \/ Failing
  BY <1>1, <1>3, <1>4 DEF WorkSound, PlacesSound
<1>5. CASE AtSome(HeldSteps) /\ ~Failing
  BY <1>1, <1>2, <1>5, Held DEF WorkSound
<1>6. CASE cmd # None /\ cmd.at = "save"
  <2>1. PICK u \in Versions : u = cmd.profile
    BY <1>6, CmdIs
  <2>2. OthersKept(u) /\ Moving(top, cache[u], u)
    BY <1>6, <2>1 DEF WorkSound, PlacesSound, At
  <2>3. u # v => Kept(v)
    BY <2>2 DEF OthersKept
  <2>. QED BY <1>1, <2>2, <2>3 DEF Moving
<1>7. CASE cmd # None /\ cmd.at = "load"
  <2>1. PICK u \in Versions : u = cmd.version
    BY <1>7, CmdIs
  <2>2. OthersKept(u) /\ Moving(cache[u], top, u)
    BY <1>7, <2>1 DEF WorkSound, PlacesSound, At
  <2>3. u # v => Kept(v)
    BY <2>2 DEF OthersKept
  <2>. QED BY <1>1, <2>2, <2>3 DEF Moving
<1>8. CASE cmd # None /\ cmd.at = "new"
  BY <1>1, <1>8 DEF WorkSound, PlacesSound, At
<1>. QED BY <1>4, <1>5, <1>6, <1>7, <1>8, CmdIs DEF AtSome, HeldSteps, Commands

\* No work of the user is lost: every file of every version is in the directory or in the cache
\* of its version at every step of every command, and a version is whole in its place between
\* two.  Nothing is claimed after a transfer or the writing of a lock that was killed half way,
\* nor after a switch that had to fetch; and a pull, or the creation of a version the project
\* has forgotten, gives up what the version held (transfer, rmAll, clean, create, _switch,
\* Download).
THEOREM WorkIsKept == Spec => []WorkKept
<1>1. Init => WInv
  BY InitTypes, InitWork DEF Init, WInv, WorkInv, FetchSound, Fetching, AtSome, At
<1>2. WInv /\ [Next]_vars => WInv'
  BY NextTypes, NextFetch, NextWork DEF WInv
<1>3. WInv => WorkKept
  <2>. SUFFICES ASSUME WTypes, WorkSound, NEW v \in Versions, wanted[v] # None
                PROVE  /\ \A f \in Files :
                             wanted[v][f] \in { None, top[f] } \/ (cache[v] # None /\ cache[v][f] = wanted[v][f])
                       /\ Free /\ Current \in Versions => Place(v) # None /\ Model(Place(v)) = wanted[v]
    BY DEF WInv, WorkInv, WorkKept
  <2>1. ASSUME Free PROVE Place(v) # None /\ Model(Place(v)) = wanted[v]
    <3>1. KeptWith(Current)
      BY <2>1, FreeWork
    <3>2. Has(Place(v), v)
      BY <2>1, <3>1 DEF Place, KeptWith, OthersKept, Kept
    <3>. QED BY <3>2 DEF Has
  <2>. QED BY <2>1, WorkInPlaces
<1>. QED BY <1>1, <1>2, <1>3, PTL DEF Spec

=============================================================================
