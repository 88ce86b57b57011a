------------------------------ MODULE Workspace ------------------------------
(***************************************************************************)
(* The working copy of model-client (src/model-client): the model of the   *)
(* current version in a directory, those of the others under .ms, and the  *)
(* commands init, clone, pull, push, version create and version switch,    *)
(* file by file.  A command may be killed between any two of its steps,    *)
(* the hub may fail, and others publish versions meanwhile.                *)
(*                                                                         *)
(* A file is the number of the revision it is from.  A push is one step    *)
(* here (ModelPush has its steps) and is made from a tidy directory.       *)
(***************************************************************************)
EXTENDS Naturals, Sequences, FiniteSets, SequencesExt

CONSTANTS
    Versions,
    Files,
    OnHub,        \* versions published before
    None,
    ErrorText,    \* the body of a failed download, taken for a file
    Listing,      \* the names a directory may hold, in the order readdir has them
    MaxRevision,  \* bound: revisions of files
    MaxCommands,  \* bound: commands of the user
    MaxFaults     \* bound: commands killed, requests failed, pushes announced by others

ASSUME WorkspaceAssumption ==
    /\ OnHub \subseteq Versions /\ IsFiniteSet(OnHub)
    /\ Listing \in Seq(Files \cup { "json", "lock", "temp", "stray" })
    /\ ToSet(Listing) = Files \cup { "json", "lock", "temp", "stray" }
    /\ Files \cap { "json", "lock", "temp", "stray" } = {}
    /\ MaxRevision \in Nat /\ MaxCommands \in Nat /\ MaxFaults \in Nat

VARIABLES
    top,          \* the directory of the project
    cache,        \* cache[v]: .ms/v<v>, or None
    cmd,          \* the command that is running, or None
    hub,          \* hub[v]: the version on the hub, or None
    wanted,       \* ghost: wanted[v][f]: what the user's work on v is; None: the hub's
    torn,         \* ghost: a command was killed between two places of a version, a lock was
                  \* empty, or a switch fetched a model
    republished,  \* ghost: the version being fetched was published or announced meanwhile, or
                  \* a file of it was not answered with
    revision,     \* revisions so far
    commands,     \* commands so far
    faults        \* faults so far

diskVars  == << top, cache >>
ghostVars == << wanted, torn, republished >>
bounds    == << revision, commands, faults >>
vars      == << diskVars, cmd, hub, ghostVars, bounds >>

-----------------------------------------------------------------------------
\* Directories: the files, project.json, download.lock, the directory the lock names,
\* and others of that kind that no lock names.

Names == ToSet(Listing)
Empty == [ n \in Names |-> None ]
Entries(d) == { n \in Names : d[n] # None }
First(S) == Listing[CHOOSE i \in DOMAIN Listing :
                /\ Listing[i] \in S
                /\ \A j \in 1 .. i - 1 : Listing[j] \notin S]
Model(d) == [ f \in Files |-> d[f] ]

\* A file without content has no block, and no task to fetch it; project.json has some.
NoBytes == 0
Sent(d) == [ n \in Names |-> IF n \in Files /\ d[n] = NoBytes THEN None ELSE d[n] ]
AllAt(r) == [ f \in Files |-> r ]

\* What a file and project.json may hold, a directory with nothing else in it, as a
\* download or the hub has them, and any.
Content == Nat \cup { None, ErrorText }
Jsons == { j \in [ current : Versions, versions : Seq(Versions), synced : BOOLEAN ] :
              j.current \in ToSet(j.versions) }
HasModel(d) ==
    /\ d = [ n \in Names |-> d[n] ]
    /\ \A f \in Files : d[f] \in Content
    /\ d["json"] \in { None, ErrorText } \cup Jsons
IsPlain(d) == HasModel(d) /\ \A n \in { "lock", "temp", "stray" } : d[n] = None
IsDir(d) ==
    /\ HasModel(d)
    /\ d["lock"] \in { None, "empty", "named" } /\ d["stray"] \in { None, "dir" }
    /\ d["temp"] = None \/ IsPlain(d["temp"])

IsCache(c) ==
    c = [ v \in Versions |-> c[v] ] /\ \A v \in Versions : c[v] = None \/ IsDir(c[v])
IsHub(h) ==
    /\ h = [ v \in Versions |-> h[v] ]
    /\ \A v \in Versions : h[v] # None =>
          /\ h[v] = [ dir |-> h[v].dir, gone |-> h[v].gone ] /\ h[v].gone \in BOOLEAN
          /\ IsPlain(h[v].dir) /\ h[v].dir["json"] \in Jsons

Commands ==
    [ at : { "download", "lock", "name", "ask", "fetch", "leave", "clean", "install", "fetched",
             "drop", "save", "load", "mark", "switched", "caches", "new", "copy" },
      then : { "end", "switch", "create" }, version : Versions, profile : Versions,
      left : SUBSET Names, json : { None } \cup Jsons ]

Entry == Content \cup Jsons \cup { "empty", "named", "dir" }

\* Nothing is no number, text, record or directory.
ASSUME NoneAssumption ==
    /\ None \notin Nat \cup { ErrorText, "empty", "named", "dir" } \cup Jsons \cup Commands
    /\ None \notin [ Names -> Entry \cup [ Names -> Entry ] ]
    /\ None \notin [ dir : [ Names -> Entry ], gone : BOOLEAN ]
    /\ ErrorText \notin Nat \cup Jsons

Json(v, versions, synced) == [ current |-> v, versions |-> versions, synced |-> synced ]
Project(v, versions, r) == [ n \in Names |->
    IF n \in Files THEN r ELSE IF n = "json" THEN Json(v, versions, TRUE) ELSE None ]

\* fs.rename of one entry, the step of `transfer`.
Without(d, n) == [ d EXCEPT ![n] = None ]
With(d, n, x) == [ d EXCEPT ![n] = x ]

-----------------------------------------------------------------------------
\* A command: its step, what it does after a part it shares with others, the version it is
\* about, that of the profile the middleware read before it, what it has still to fetch or
\* copy, and the project.json it has read.
Cmd(at, then, version, profile) ==
    [ at |-> at, then |-> then, version |-> version, profile |-> profile,
      left |-> {}, json |-> None ]
At(pc) == cmd # None /\ cmd.at = pc
Goes(pc) == cmd' = [ cmd EXCEPT !.at = pc ]
Ends == cmd' = None

\* project_exist: without a legal project.json no command runs.
Free == cmd = None /\ top["json"] \notin { None, ErrorText }
Current == top["json"].current
Known == top["json"].versions

HubVersions == SetToSeq(OnHub)

Init ==
    /\ top = Empty /\ cache = [ v \in Versions |-> None ]
    /\ cmd = None
    /\ hub = [ v \in Versions |->
                IF v \notin OnHub THEN None
                ELSE [ dir  |-> Project(v, HubVersions, CHOOSE i \in DOMAIN HubVersions : HubVersions[i] = v),
                       gone |-> FALSE ] ]
    /\ wanted = [ v \in Versions |-> None ]
    /\ torn = FALSE /\ republished = FALSE
    /\ revision = Len(HubVersions) /\ commands = 0 /\ faults = 0

Fresh == cmd = None /\ Entries(top) = {} /\ \A v \in Versions : cache[v] = None

\* `init` in a directory with files.
InitProject(v) ==
    /\ Fresh /\ ~ torn
    /\ top' = Project(v, << v >>, 0)
    /\ wanted' = [ wanted EXCEPT ![v] = AllAt(0) ]
    /\ UNCHANGED << cache, cmd, hub, torn, republished, bounds >>

\* `clone`: only a version that was asked for has its project.json in the directory; the
\* others, and the one fetched by default, are remembered as not synced.
Clone(v, named) ==
    /\ Fresh /\ ~ torn /\ v \in OnHub
    /\ top' = IF named THEN With(top, "json", Json(v, HubVersions, TRUE)) ELSE top
    /\ cache' = [ u \in Versions |->
            IF u \in OnHub /\ ~ (named /\ u = v)
            THEN With(Empty, "json", Json(u, HubVersions, FALSE)) ELSE None ]
    /\ cmd' = Cmd("download", "end", v, v)
    /\ UNCHANGED << hub, ghostVars, bounds >>

\* One more command on the project.
Counted == commands < MaxCommands /\ commands' = commands + 1

\* The user writes a file.
Edit(f) ==
    /\ Free /\ revision < MaxRevision
    /\ revision' = revision + 1
    /\ top' = With(top, f, revision')
    /\ wanted' = [ wanted EXCEPT ![Current] = Model(top') ]
    /\ UNCHANGED << cache, cmd, hub, torn, republished, commands, faults >>

-----------------------------------------------------------------------------
\* download, the whole of `pull` and a part of `clone` and of `version switch`.

Pull ==
    /\ Free
    /\ cmd' = Cmd("download", "end", Current, Current)
    /\ Counted
    /\ UNCHANGED << diskVars, hub, ghostVars, revision, faults >>

\* The directory an old lock names is removed: the working copy, if the lock is empty.
ReadLock ==
    /\ At("download")
    /\ IF top["lock"] = "empty"
       THEN top' = Empty /\ cache' = [ v \in Versions |-> None ] /\ torn' = TRUE /\ Ends
       ELSE /\ top' = IF top["lock"] = "named" THEN Without(top, "temp") ELSE top
            /\ Goes("lock")
            /\ UNCHANGED << cache, torn >>
    /\ UNCHANGED << hub, wanted, republished, bounds >>

\* The lock is written in two steps, and names a new directory.
OpenLock ==
    /\ At("lock")
    /\ top' = With(top, "lock", "empty")
    /\ Goes("name")
    /\ UNCHANGED << cache, hub, ghostVars, bounds >>

NameLock ==
    /\ At("name")
    /\ top' = With(With(top, "lock", "named"), "temp", Empty)
    /\ Goes("ask")
    /\ UNCHANGED << cache, hub, ghostVars, bounds >>

\* api.init: the hub does not know the version of the profile.
NotFound ==
    /\ At("ask") /\ hub[cmd.profile] = None
    /\ Goes("leave")
    /\ UNCHANGED << diskVars, hub, ghostVars, bounds >>

\* api.init: the files of the row in ms_projects, with project.json among them.
AskHub ==
    /\ At("ask") /\ hub[cmd.profile] # None
    /\ cmd' = [ cmd EXCEPT !.at = "fetch", !.left = Entries(Sent(hub[cmd.profile].dir)) ]
    /\ republished' = hub[cmd.profile].gone
    /\ UNCHANGED << diskVars, hub, wanted, torn, bounds >>

\* The row is of the last push that was announced, which others may have begun at any time and
\* need not end: `others` are the files with content that it lists.
AskAnnounced(others) ==
    /\ At("ask")
    /\ faults < MaxFaults
    /\ faults' = faults + 1
    /\ cmd' = [ cmd EXCEPT !.at = "fetch", !.left = others \cup { "json" } ]
    /\ republished' = TRUE
    /\ UNCHANGED << diskVars, hub, wanted, torn, revision, commands >>

\* One file: a body that comes with another status than 200 is taken for it, such as 500 if
\* there is no such file or no such block of it.
Body(v, n) ==
    IF hub[v] = None \/ hub[v].gone \/ Sent(hub[v].dir)[n] = None THEN ErrorText ELSE hub[v].dir[n]
Fetch(n) ==
    /\ At("fetch") /\ n \in cmd.left
    /\ top' = [ top EXCEPT !["temp"][n] = Body(cmd.profile, n) ]
    /\ cmd' = [ cmd EXCEPT !.left = @ \ { n } ]
    /\ UNCHANGED << cache, hub, ghostVars, bounds >>

\* So it is if the database fails, or the token has expired, and a body that is cut.
FetchError(n) ==
    /\ At("fetch") /\ n \in cmd.left
    /\ faults < MaxFaults
    /\ faults' = faults + 1
    /\ top' = [ top EXCEPT !["temp"][n] = ErrorText ]
    /\ cmd' = [ cmd EXCEPT !.left = @ \ { n } ]
    /\ republished' = TRUE
    /\ UNCHANGED << cache, hub, wanted, torn, revision, commands >>

\* The request fails, and ends the command, or is refused, or a file fails in every round.
DownloadFails ==
    /\ At("ask") \/ (At("fetch") /\ cmd.left # {})
    /\ faults < MaxFaults
    /\ faults' = faults + 1
    /\ \/ At("ask") /\ cmd' = [ cmd EXCEPT !.at = "leave", !.then = "end" ]
       \/ Goes("leave")
    /\ UNCHANGED << diskVars, hub, ghostVars, revision, commands >>

\* All is there, and merged: what the directory held before is given up.  In a switch it is
\* the model of another version that replaces it, with its project.json.
MergeFetched ==
    /\ At("fetch") /\ cmd.left = {}
    /\ Goes("clean")
    /\ IF cmd.then = "switch" THEN torn' = TRUE /\ UNCHANGED wanted
       ELSE wanted' = [ wanted EXCEPT ![cmd.profile] = None ] /\ UNCHANGED torn
    /\ UNCHANGED << diskVars, hub, republished, bounds >>

\* clean(cwd, [temp, ".ms"]), which removes the lock too.
CleanTop ==
    /\ At("clean") /\ Entries(top) \ { "temp" } # {}
    /\ top' = Without(top, First(Entries(top) \ { "temp" }))
    /\ UNCHANGED << cache, cmd, hub, ghostVars, bounds >>

\* Mutant: what the directory held before may stay.
CleanedInPart ==
    /\ At("clean")
    /\ Goes("install")
    /\ UNCHANGED << diskVars, hub, ghostVars, bounds >>

Cleaned ==
    /\ At("clean") /\ Entries(top) \subseteq { "temp" }
    /\ Goes("install")
    /\ UNCHANGED << diskVars, hub, ghostVars, bounds >>

\* transfer(temp, cwd)
Install ==
    /\ At("install") /\ Entries(top["temp"]) # {}
    /\ LET n == First(Entries(top["temp"]))
       IN  top' = With([ top EXCEPT !["temp"][n] = None ], n, top["temp"][n])
    /\ UNCHANGED << cache, cmd, hub, ghostVars, bounds >>

\* "Fetch successfully!"
Installed ==
    /\ At("install") /\ Entries(top["temp"]) = {}
    /\ Goes("fetched")
    /\ wanted' = IF cmd.then = "switch" THEN wanted ELSE [ wanted EXCEPT ![cmd.profile] = Model(top) ]
    /\ UNCHANGED << diskVars, hub, torn, republished, bounds >>

\* The deferred part: the directory goes, and the lock.  To remove the lock fails if it is
\* gone already, and then the command may end there.
LeaveDownload ==
    /\ At("leave") \/ At("fetched")
    /\ top' = Without(Without(top, "temp"), "lock")
    /\ \/ IF cmd.then = "switch" THEN Goes("mark") ELSE Ends
       \/ top["lock"] = None /\ Ends
    /\ UNCHANGED << cache, hub, ghostVars, bounds >>

-----------------------------------------------------------------------------
\* version switch.

Switch(v) ==
    /\ Free /\ v # Current /\ v \in ToSet(Known)
    /\ cache[v] # None /\ cache[v]["json"] # None
    /\ cmd' = Cmd("drop", "switch", v, Current)
    /\ Counted
    /\ UNCHANGED << diskVars, hub, ghostVars, revision, faults >>

\* Mutant: the cache of the other version is made anew too.
DropCaches ==
    /\ At("drop")
    /\ cache' = [ cache EXCEPT ![cmd.profile] = Empty, ![cmd.version] = Empty ]
    /\ Goes("save")
    /\ UNCHANGED << top, hub, ghostVars, bounds >>

\* The cache of the current version is made anew, and all of the directory is moved there.
DropCache ==
    /\ At("drop")
    /\ cache' = [ cache EXCEPT ![cmd.profile] = Empty ]
    /\ Goes("save")
    /\ UNCHANGED << top, hub, ghostVars, bounds >>

Save ==
    /\ At("save") /\ Entries(top) # {}
    /\ LET n == First(Entries(top))
       IN  /\ top' = Without(top, n)
           /\ cache' = [ cache EXCEPT ![cmd.profile][n] = top[n] ]
    /\ UNCHANGED << cmd, hub, ghostVars, bounds >>

Saved ==
    /\ At("save") /\ Entries(top) = {}
    /\ Goes(IF cmd.then = "switch" THEN "load" ELSE "new")
    /\ UNCHANGED << diskVars, hub, ghostVars, bounds >>

Load ==
    /\ At("load") /\ Entries(cache[cmd.version]) # {}
    /\ LET n == First(Entries(cache[cmd.version]))
       IN  /\ top' = With(top, n, cache[cmd.version][n])
           /\ cache' = [ cache EXCEPT ![cmd.version][n] = None ]
    /\ UNCHANGED << cmd, hub, ghostVars, bounds >>

\* A version that is not synced is downloaded: that of the profile, which was read before
\* the switch.
Loaded ==
    /\ At("load") /\ Entries(cache[cmd.version]) = {}
    /\ IF top["json"] \in { None, ErrorText } THEN Ends
       ELSE cmd' = [ cmd EXCEPT !.at = IF top["json"].synced THEN "switched" ELSE "download",
                                !.json = top["json"] ]
    /\ UNCHANGED << diskVars, hub, ghostVars, bounds >>

\* Whatever the download came to, the version is synced from now on.
MarkSynced ==
    /\ At("mark")
    /\ top' = With(top, "json", [ cmd.json EXCEPT !.synced = TRUE ])
    /\ Goes("switched")
    /\ UNCHANGED << cache, hub, ghostVars, bounds >>

\* "Successfully"
SwitchEnds ==
    /\ At("switched")
    /\ Ends
    /\ UNCHANGED << diskVars, hub, ghostVars, bounds >>

-----------------------------------------------------------------------------
\* version create, perhaps of a version a pull has made the project forget, whose work is
\* given up then.

Create(v) ==
    /\ Free /\ v \notin ToSet(Known)
    /\ wanted' = [ wanted EXCEPT ![v] = None ]
    /\ top' = [ top EXCEPT !["json"].versions = Append(@, v) ]
    /\ cmd' = [ Cmd("caches", "create", v, Current) EXCEPT !.json = top'["json"] ]
    /\ Counted
    /\ UNCHANGED << cache, hub, torn, republished, revision, faults >>

\* Every version's project.json learns of the new one, and takes the mark over that was read:
\* that of a version whose download failed makes all of them not synced.
WriteCaches ==
    /\ At("caches")
    /\ cache' = [ u \in Versions |->
            IF u \in ToSet(Known)
            THEN With(IF cache[u] = None THEN Empty ELSE cache[u], "json",
                      Json(u, Known, cmd.json.synced))
            ELSE cache[u] ]
    /\ Goes("drop")
    /\ UNCHANGED << top, hub, ghostVars, bounds >>

\* The last version before the new one.
SourceOf(versions) == versions[Len(versions) - 1]

NewVersion ==
    /\ At("new")
    /\ top' = With(Empty, "json", Json(cmd.version, cmd.json.versions, cmd.json.synced))
    /\ cmd' = [ cmd EXCEPT !.at = "copy",
                           !.left = Entries(cache[SourceOf(cmd.json.versions)]) \ { "json" } ]
    /\ UNCHANGED << cache, hub, ghostVars, bounds >>

Copy ==
    /\ At("copy") /\ cmd.left # {}
    /\ LET n == First(cmd.left)
       IN  /\ top' = With(top, n, cache[SourceOf(cmd.json.versions)][n])
           /\ cmd' = [ cmd EXCEPT !.left = @ \ { n } ]
    /\ UNCHANGED << cache, hub, ghostVars, bounds >>

Created ==
    /\ At("copy") /\ cmd.left = {}
    /\ Ends
    /\ LET source == wanted[SourceOf(cmd.json.versions)] IN
       wanted' = [ wanted EXCEPT ![cmd.version] = IF source = None THEN Model(top) ELSE source ]
    /\ UNCHANGED << diskVars, hub, torn, republished, bounds >>

-----------------------------------------------------------------------------
\* The hub.

Push ==
    /\ Free /\ Entries(top) \cap { "lock", "temp", "stray" } = {}
    /\ hub' = [ hub EXCEPT ![Current] = [ dir |-> top, gone |-> FALSE ] ]
    /\ Counted
    /\ UNCHANGED << diskVars, cmd, ghostVars, revision, faults >>

\* Others publish a version: the old one goes, and then the new one comes (Commit).
Touched(v) == republished' = (republished \/ (cmd # None /\ cmd.profile = v))

Withdraw(v) ==
    /\ hub[v] # None /\ ~ hub[v].gone /\ revision < MaxRevision
    /\ hub' = [ hub EXCEPT ![v].gone = TRUE ]
    /\ Touched(v)
    /\ UNCHANGED << diskVars, cmd, wanted, torn, bounds >>

Republish(v) ==
    /\ hub[v] # None /\ hub[v].gone /\ revision < MaxRevision
    /\ revision' = revision + 1
    /\ hub' = [ hub EXCEPT ![v] =
            [ dir  |-> [ n \in Names |-> IF n \in Files THEN revision' ELSE @.dir[n] ],
              gone |-> FALSE ] ]
    /\ Touched(v)
    /\ UNCHANGED << diskVars, cmd, wanted, torn, commands, faults >>

-----------------------------------------------------------------------------
\* The command is killed.  A version it was moving is in two places now.

Split(d, e) == Entries(d) # {} /\ Entries(e) # {}

Kill ==
    /\ cmd # None /\ faults < MaxFaults
    /\ faults' = faults + 1
    /\ Ends
    /\ torn' = \/ torn
               \/ At("save") /\ Split(top, cache[cmd.profile])
               \/ At("load") /\ Split(top, cache[cmd.version])
    /\ top' = IF top["temp"] # None /\ top["lock"] # "named"
              THEN With(Without(top, "temp"), "stray", "dir") ELSE top
    /\ UNCHANGED << cache, hub, wanted, republished, revision, commands >>

User ==
    \/ \E v \in Versions :
        \/ InitProject(v) \/ Switch(v) \/ Create(v)
        \/ \E named \in BOOLEAN : Clone(v, named)
    \/ \E f \in Files : Edit(f)
    \/ Pull \/ Push

Download ==
    \/ ReadLock \/ OpenLock \/ NameLock \/ NotFound \/ DownloadFails
    \/ AskHub \/ \E others \in SUBSET Files : AskAnnounced(others)
    \/ \E n \in Names : Fetch(n) \/ FetchError(n)
    \/ MergeFetched \/ CleanTop \/ Cleaned \/ Install \/ Installed \/ LeaveDownload

Version ==
    \/ DropCache \/ Save \/ Saved \/ Load \/ Loaded \/ MarkSynced \/ SwitchEnds
    \/ WriteCaches \/ NewVersion \/ Copy \/ Created

Next ==
    \/ User \/ Download \/ Version \/ Kill
    \/ \E v \in Versions : Withdraw(v) \/ Republish(v)

Spec == Init /\ [][Next]_vars

-----------------------------------------------------------------------------
(***************************************************************************)
(* Properties.                                                             *)
(***************************************************************************)

\* Everything is of its kind.
TypeOK ==
    /\ IsDir(top) /\ IsCache(cache) /\ IsHub(hub)
    /\ cmd \in { None } \cup Commands
    /\ wanted \in [ Versions -> { None } \cup [ Files -> Content ] ]
    /\ torn \in BOOLEAN /\ republished \in BOOLEAN
    /\ revision \in Nat /\ commands \in Nat /\ faults \in Nat

\* No work of the user is lost: every file of every version that was written, copied or
\* pulled is in the directory or in the cache of its version, at every step of every
\* command, and a version is complete in its place between two; but after a transfer or the
\* writing of a lock that was killed half way, and after a switch that had to fetch, which
\* replaces the version by another one.  A pull gives up what its version held, and to create
\* a version again that a pull made the project forget gives up what it held
\* (transfer, rmAll, clean, create, _switch, Download).
Place(v) == IF Free /\ Current = v THEN top ELSE cache[v]

WorkKept ==
    ~ torn => \A v \in Versions : wanted[v] # None =>
        /\ \A f \in Files :
            wanted[v][f] \in { None, top[f] } \/ (cache[v] # None /\ cache[v][f] = wanted[v][f])
        /\ Free /\ Current \in Versions => Place(v) # None /\ Model(Place(v)) = wanted[v]

\* A pull that reports success leaves in the directory exactly the files with content of the
\* model that is on the hub: no older file, no part of one.  But not if the hub listed what a
\* push that is not committed has announced, the version was published again meanwhile, or an
\* error was answered, whose text is in the file then (Download, api.download,
\* genDownloadTask).
PulledWhole ==
    At("fetched") /\ ~ republished =>
        /\ Entries(top) = Entries(Sent(hub[cmd.profile].dir)) \cup { "temp" }
        /\ Model(top) = Model(Sent(hub[cmd.profile].dir))

=============================================================================
