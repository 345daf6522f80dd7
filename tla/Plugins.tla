------------------------------ MODULE Plugins ------------------------------
(***************************************************************************)
(* Installing, updating, removing and loading plugin transforms: the       *)
(* registry client with its cached index (cli/registry.py), the installer  *)
(* with its lock file and boot requirements (cli/installer.py,             *)
(* cli/lockfile.py), the endpoints of the API (api/registry.py,            *)
(* api/plugins.py), the commands of the CLI (cli/commands/transform.py)    *)
(* and the engines that hold the loaded code (engine/plugin_engine.py,     *)
(* engine/transform_engine.py).                                            *)
(*                                                                         *)
(* The requests of the API are tasks of one event loop: they change places *)
(* only where the code awaits.  A CLI command is a process of its own that *)
(* shares the directory of the plugins, the lock file and the index cache  *)
(* with the API at any moment.  Whole-file reads are taken as atomic; a    *)
(* crash can leave half a file.  A slug is both the directory and the      *)
(* name in the manifest.                                                   *)
(***************************************************************************)
EXTENDS Integers, FiniteSets, FiniteSetsExt

CONSTANTS
  Slugs, Names,        \* the entries of the registry, the names of transforms
  BuiltIns,            \* names registered by auto_discover
  Tasks, Clis,         \* requests of the API, runs of the CLI
  Server,              \* the API process
  None,
  MaxRevision,         \* bound: revisions of the registry
  MaxOperations,       \* bound: requests and commands
  MaxRestarts,         \* bound: crashes
  Version,             \* [slug][revision]: the version the index names, or 0
  Defines,             \* [slug][version]: the names its modules define
  Needs,               \* [slug][version]: its python_dependencies
  Checksummed,         \* slugs whose entry has a sha256
  Bundled,             \* slugs that come with OGI
  RefusedTiers         \* slugs of a tier the cloud mode does not allow

Processes == Tasks \cup Clis
Revisions == 1 .. MaxRevision
Versions  == 0 .. MaxRevision
Absent     == 0        \* no such file, or nothing in memory
Unreadable == -1       \* a file cut off by a crash

ASSUME PluginsAssumption ==
  /\ MaxRevision \in Nat \ {0} /\ MaxOperations \in Nat /\ MaxRestarts \in Nat
  /\ Tasks \cap Clis = {} /\ Server \notin Processes /\ None \notin Slugs
  /\ Checksummed \subseteq Slugs
  /\ Version \in [Slugs -> [Revisions -> Versions]]
  /\ DOMAIN Defines = Slugs /\ DOMAIN Needs = Slugs
  /\ \A s \in Slugs : DOMAIN Defines[s] = Versions /\ DOMAIN Needs[s] = Versions
  /\ \A s \in Slugs, v \in Versions : Defines[s][v] \subseteq Names
  /\ \A s \in Slugs : Defines[s][0] = {} /\ Needs[s][0] = {}

VARIABLES
  main,         \* the newest revision of the registry repository
  cache, etag,  \* index.json and index_etag: a revision, Absent or Unreadable
  index,        \* RegistryClient._index of each process, a revision or Absent
  disk,         \* the directory of each slug: versions of manifest and modules
  lock,         \* ogi-lock.json: the version of each entry, or Absent
  requirements, \* requirements.txt
  packages,     \* the Python packages of the environment
  plugins,      \* PluginEngine.plugins: version of the manifest, or Absent
  attributed,   \* PluginEngine._plugin_transforms
  registered,   \* TransformEngine._transforms: who defined each name
  proc,         \* where each request or command stands
  operations, restarts,
  unsettled,    \* history: slugs whose last change failed half-way
  overwritten,  \* history: two processes crossed in the lock file
  raced,        \* history: two writers of the index cache crossed
  stray         \* history: names registered by a reload that answered 404

vars == <<main, cache, etag, index, disk, lock, requirements, packages,
          plugins, attributed, registered, proc, operations, restarts,
          unsettled, overwritten, raced, stray>>
fetching == <<main, cache, etag, index, raced>>
files    == <<disk, lock, requirements, packages, overwritten>>
engines  == <<plugins, attributed, registered, stray>>
bounds   == <<operations, restarts>>

Idle == [pc |-> "idle", op |-> "none", todo |-> {}, slug |-> None, meta |-> 0,
         got |-> 0, since |-> 0, base |-> [s \in Slugs |-> 0]]
Owner(s, v) == [by |-> s, version |-> v]
BuiltIn     == Owner(None, 0)
Host(p)     == IF p \in Tasks THEN Server ELSE p

\* RegistryClient.get_transform: what the process knows of the slug.
Known(p, s) == IF index[Host(p)] = Absent THEN 0 ELSE Version[s][index[Host(p)]]

\* A task of the API that has not reached its next await keeps the loop.
Holding == {"writecache", "writetag", "check", "next", "verify", "depend",
            "readlock", "delete", "writelock", "require"}
Runs(p) == p \in Tasks => \A t \in Tasks \ {p} : proc[t].pc \notin Holding
LoopFree == \A t \in Tasks : proc[t].pc \notin Holding

At(p, pc)  == proc[p].pc = pc /\ Runs(p)
Go(p, pc)  == proc' = [proc EXCEPT ![p].pc = pc]
End(p)     == proc' = [proc EXCEPT ![p] = Idle]
Complete(s, v) == disk[s] = [manifest |-> v, modules |-> v]
Wiped          == [manifest |-> 0, modules |-> 0]

\* The next slug of a command that updates them all, or the end of it.
Rest(r) == IF r.todo = {} THEN Idle ELSE [r EXCEPT !.pc = "next"]

EndSlug(p) == proc' = [proc EXCEPT ![p] = Rest(@)]

(***************************************************************************)
(* What every process loads from the disk when it starts, and the registry *)
(* of a process that has loaded S.                                         *)
(***************************************************************************)
\* PluginEngine.load_transforms: the names of the modules on disk.
Loaded(s) == Defines[s][disk[s].modules]

\* PluginEngine.load_all after auto_discover: the plugins with a manifest; of
\* two that define a name the last in the order of the directories stays.
Found == {s \in Slugs : disk[s].manifest # 0}
StartRegistry ==
  [n \in Names |->
    LET from == {s \in Found : n \in Loaded(s)}
        last == CHOOSE s \in from : TRUE
    IN IF from # {} THEN Owner(last, disk[last].modules)
       ELSE IF n \in BuiltIns THEN BuiltIn ELSE None]
StartAttribution == [s \in Slugs |-> IF s \in Found THEN Loaded(s) ELSE {}]

LoadAll ==
  /\ plugins' = [s \in Slugs |-> disk[s].manifest]
  /\ attributed' = StartAttribution
  /\ registered' = StartRegistry
  /\ stray' = {}

\* A mistake: the transforms loaded before are not taken out.
ReregisterOver(s) ==
  registered' = [n \in Names |->
    IF n \in Loaded(s) THEN Owner(s, disk[s].modules) ELSE registered[n]]

\* The transforms of the slug are taken out and its modules loaded again.
Reregister(s) ==
  registered' = [n \in Names |->
    IF n \in Loaded(s) THEN Owner(s, disk[s].modules)
    ELSE IF n \in attributed[s] THEN None ELSE registered[n]]

\* PluginEngine.discover and _reload_plugin_runtime of api/registry.py.
ReloadRuntime(s) ==
  /\ plugins' = [plugins EXCEPT ![s] = IF disk[s].manifest # 0 THEN disk[s].manifest ELSE @]
  /\ Reregister(s)
  /\ attributed' = [attributed EXCEPT ![s] = Loaded(s)]
  /\ stray' = stray \ Loaded(s)

\* The reload endpoint: a plugin it does not know is answered 404, after its
\* transforms have been registered.
Reload(s) ==
  /\ Reregister(s)
  /\ IF plugins[s] # 0
     THEN attributed' = [attributed EXCEPT ![s] = Loaded(s)] /\ stray' = stray \ Loaded(s)
     ELSE UNCHANGED attributed /\ stray' = stray \cup Loaded(s)
  /\ UNCHANGED plugins

\* A mistake: the slugs are written instead of what they need.
RequiredSlugs(locked) == {s \in Slugs : locked[s] # 0}

\* TransformInstaller._sync_boot_requirements
Required(locked) == UNION {Needs[s][locked[s]] : s \in Slugs}

-----------------------------------------------------------------------------
\* A server that has just started with some plugins installed.
Init ==
  /\ main = 1 /\ cache = Absent /\ etag = Absent
  /\ index = [h \in Clis \cup {Server} |-> Absent]
  /\ \E S \in SUBSET (Slugs \ Bundled) : lock = [s \in Slugs |-> IF s \in S THEN Version[s][1] ELSE 0]
  /\ disk = [s \in Slugs |-> [manifest |-> lock[s], modules |-> lock[s]]]
  /\ requirements = Required(lock) /\ packages = requirements
  /\ plugins = lock /\ attributed = StartAttribution /\ registered = StartRegistry
  /\ proc = [p \in Processes |-> Idle]
  /\ operations = 0 /\ restarts = 0
  /\ unsettled = {} /\ overwritten = FALSE /\ raced = FALSE /\ stray = {}

\* A new revision of the registry is published.
Publish ==
  /\ main < MaxRevision
  /\ main' = main + 1
  /\ UNCHANGED <<cache, etag, index, raced, files, engines, proc, bounds, unsettled>>

\* A request or a command begins.  "all" is the update command without a
\* slug; a CLI process knows nothing yet; the API removes without fetching.
Begin(p, op, s) ==
  /\ At(p, "idle") /\ operations < MaxOperations
  /\ op = "all" => p \in Clis
  /\ operations' = operations + 1
  /\ LET first == IF op = "remove" /\ p \in Tasks THEN "readlock" ELSE "fetch" IN
     proc' = [proc EXCEPT ![p] = [Idle EXCEPT !.pc = first, !.op = op, !.slug = s]]
  /\ index' = IF p \in Clis THEN [index EXCEPT ![p] = Absent] ELSE index
  /\ UNCHANGED <<main, cache, etag, raced, files, engines, restarts, unsettled>>

(***************************************************************************)
(* RegistryClient.fetch_index                                              *)
(***************************************************************************)
\* The cache is fresh: the index in memory, or the file, is used.
UseCache(p) ==
  /\ At(p, "fetch") /\ cache # Absent
  /\ \/ index[Host(p)] # Absent /\ UNCHANGED index
     \/ /\ index[Host(p)] = Absent /\ cache # Unreadable
        /\ index' = [index EXCEPT ![Host(p)] = cache]
  /\ Go(p, "check")
  /\ UNCHANGED <<main, cache, etag, raced, files, engines, bounds, unsettled>>

\* The cache is old, absent or unreadable, or a refresh was asked for: the
\* index is requested with the etag as a condition.
Request(p) ==
  /\ At(p, "fetch")
  /\ proc' = [proc EXCEPT ![p].pc = "asked", ![p].got = etag, ![p].since = main]
  /\ UNCHANGED <<fetching, files, engines, bounds, unsettled>>

\* Reading the cache when the answer has no body; a file that cannot be read
\* ends the request with an error.
FromCache(p) ==
  /\ cache # Absent
  /\ IF cache = Unreadable THEN UNCHANGED index /\ End(p)
     ELSE index' = [index EXCEPT ![Host(p)] = cache] /\ Go(p, "check")
  /\ UNCHANGED <<main, cache, etag, raced, files, engines, bounds, unsettled>>

\* The registry answers from a revision it had since the request.
NotModified(p) ==
  At(p, "asked") /\ proc[p].got \in proc[p].since .. main /\ FromCache(p)

\* The request failed (or was answered "not modified" with no cache to read):
\* an old cache serves; without one the answer is an empty index that is not
\* remembered.
FetchFails(p) ==
  /\ At(p, "asked")
  /\ \/ FromCache(p)
     \/ cache = Absent /\ Go(p, "check") /\ UNCHANGED <<fetching, files, engines, bounds, unsettled>>

Fetched(p) ==
  /\ At(p, "asked")
  /\ \E r \in (proc[p].since .. main) \ {proc[p].got} :
       /\ index' = [index EXCEPT ![Host(p)] = r]
       /\ proc' = [proc EXCEPT ![p].pc = "writecache", ![p].got = r]
  /\ UNCHANGED <<main, cache, etag, raced, files, engines, bounds, unsettled>>

Crossing(p) == \E q \in Processes :
  Host(q) # Host(p) /\ proc[q].pc \in {"writecache", "writetag"}

\* A mistake: a cache that is there is not written again.
WriteCacheOnce(p) ==
  /\ At(p, "writecache")
  /\ cache' = IF cache = Absent THEN proc[p].got ELSE cache
  /\ raced' = (raced \/ Crossing(p))
  /\ Go(p, "writetag")
  /\ UNCHANGED <<main, etag, index, files, engines, bounds, unsettled>>

WriteCache(p) ==
  /\ At(p, "writecache")
  /\ cache' = proc[p].got
  /\ raced' = (raced \/ Crossing(p))
  /\ Go(p, "writetag")
  /\ UNCHANGED <<main, etag, index, files, engines, bounds, unsettled>>

WriteTag(p) ==
  /\ At(p, "writetag")
  /\ etag' = proc[p].got
  /\ raced' = (raced \/ Crossing(p))
  /\ Go(p, "check")
  /\ UNCHANGED <<main, cache, index, files, engines, bounds, unsettled>>

(***************************************************************************)
(* What is done with the index.                                            *)
(***************************************************************************)
\* The list, the search and the popularity read the index and end; an install
\* of a tier the server refuses, or of a slug that is bundled or unknown, ends
\* with an error.
Installable(p, s) ==
  /\ Known(p, s) # 0 /\ s \notin Bundled
  /\ p \in Tasks => s \notin RefusedTiers

\* TransformInstaller.check_updates
Outdated(p) == {s \in Slugs : lock[s] # 0 /\ Known(p, s) \notin {0, lock[s]}}

\* The files of a slug change under another process that has verified them
\* and not locked them yet.
Write(p, s, content) ==
  /\ disk' = [disk EXCEPT ![s] = content]
  /\ overwritten' = (overwritten \/ \E q \in Processes :
        Host(q) # Host(p) /\ proc[q].slug = s /\ proc[q].pc \in {"depend", "readlock", "writelock"})

Install(p, s, todo) ==
  /\ Write(p, s, Wiped)
  /\ proc' = [proc EXCEPT ![p].pc = "manifest", ![p].slug = s, ![p].todo = todo,
                          ![p].meta = Known(p, s)]
  /\ UNCHANGED <<lock, requirements, packages>>

Check(p) ==
  LET s == proc[p].slug IN
  /\ At(p, "check")
  /\ \/ proc[p].op = "browse" /\ End(p) /\ UNCHANGED files
     \/ proc[p].op = "install" /\ ~ Installable(p, s) /\ End(p) /\ UNCHANGED files
     \/ proc[p].op = "install" /\ Installable(p, s) /\ Install(p, s, {})
     \/ /\ proc[p].op = "update"
        /\ proc' = [proc EXCEPT ![p].pc = "next", ![p].todo = {s}]
        /\ UNCHANGED files
     \/ /\ proc[p].op = "all"
        /\ proc' = [proc EXCEPT ![p] = Rest([@ EXCEPT !.todo = Outdated(p)])]
        /\ UNCHANGED files
     \/ proc[p].op = "remove" /\ Go(p, "readlock") /\ UNCHANGED files
  /\ UNCHANGED <<fetching, engines, bounds, unsettled>>

\* TransformInstaller.update: not installed, unknown or current slugs are
\* passed over; the tier is not asked for.
NextUpdate(p) ==
  \E s \in proc[p].todo :
    /\ At(p, "next")
    /\ IF lock[s] = 0 \/ Known(p, s) \in {0, lock[s]} \/ s \in Bundled
       THEN /\ proc' = [proc EXCEPT ![p] = Rest([@ EXCEPT !.todo = proc[p].todo \ {s}])]
            /\ UNCHANGED files
       ELSE Install(p, s, proc[p].todo \ {s})
    /\ UNCHANGED <<fetching, engines, bounds, unsettled>>

(***************************************************************************)
(* TransformInstaller.install: manifest and modules come from the newest   *)
(* revision, whatever the index said.                                      *)
(***************************************************************************)

\* A mistake: the files are taken from the revision of the index.
DownloadPinned(p) ==
  LET s == proc[p].slug IN
  /\ \/ /\ At(p, "manifest") /\ Go(p, "modules")
        /\ Write(p, s, [disk[s] EXCEPT !.manifest = proc[p].meta])
     \/ /\ At(p, "modules") /\ Go(p, "verify")
        /\ Write(p, s, [disk[s] EXCEPT !.modules = proc[p].meta])
  /\ UNCHANGED <<fetching, lock, requirements, packages, engines, bounds, unsettled>>

Download(p) ==
  LET s == proc[p].slug IN
  /\ \/ /\ At(p, "manifest") /\ Go(p, "modules")
        /\ Write(p, s, [disk[s] EXCEPT !.manifest = Version[s][main]])
     \/ /\ At(p, "modules") /\ Go(p, "verify")
        /\ Write(p, s, [disk[s] EXCEPT !.modules = Version[s][main]])
  /\ UNCHANGED <<fetching, lock, requirements, packages, engines, bounds, unsettled>>

\* An error of the network is not an InstallError: it ends the command.
DownloadFails(p) ==
  /\ At(p, "manifest") \/ At(p, "modules")
  /\ unsettled' = unsettled \cup {proc[p].slug}
  /\ End(p)
  /\ UNCHANGED <<fetching, files, engines, bounds>>

\* A mistake: only the manifest is compared.
VerifyManifest(p) ==
  LET s == proc[p].slug IN
  /\ At(p, "verify")
  /\ IF s \in Checksummed => disk[s].manifest = proc[p].meta
     THEN Go(p, "depend") /\ UNCHANGED <<disk, overwritten, unsettled>>
     ELSE /\ Write(p, s, Wiped)
          /\ unsettled' = unsettled \cup {s}
          /\ EndSlug(p)
  /\ UNCHANGED <<fetching, lock, requirements, packages, engines, bounds>>

Verify(p) ==
  LET s == proc[p].slug IN
  /\ At(p, "verify")
  /\ IF s \in Checksummed => Complete(s, proc[p].meta)
     THEN Go(p, "depend") /\ UNCHANGED <<disk, overwritten, unsettled>>
     ELSE /\ Write(p, s, Wiped)
          /\ unsettled' = unsettled \cup {s}
          /\ EndSlug(p)
  /\ UNCHANGED <<fetching, lock, requirements, packages, engines, bounds>>

\* pip or uv runs; when it fails the files stay, unlocked.
Depend(p) ==
  LET s == proc[p].slug IN
  /\ At(p, "depend")
  /\ \/ /\ packages' = packages \cup Needs[s][proc[p].meta]
        /\ Go(p, "readlock") /\ UNCHANGED unsettled
     \/ /\ Needs[s][proc[p].meta] # {}
        /\ unsettled' = unsettled \cup {s}
        /\ EndSlug(p) /\ UNCHANGED packages
  /\ UNCHANGED <<fetching, disk, lock, requirements, overwritten, engines, bounds>>

(***************************************************************************)
(* The lock file and the boot requirements.                                *)
(***************************************************************************)
ReadLock(p) ==
  /\ At(p, "readlock")
  /\ LET locked == [proc[p] EXCEPT !.base = lock] IN
     proc' = [proc EXCEPT ![p] =
       IF proc[p].op # "remove" THEN [locked EXCEPT !.pc = "writelock"]
       ELSE IF lock[proc[p].slug] = 0 THEN Idle ELSE [locked EXCEPT !.pc = "delete"]]
  /\ UNCHANGED <<fetching, files, engines, bounds, unsettled>>

Delete(p) ==
  /\ At(p, "delete")
  /\ Write(p, proc[p].slug, Wiped)
  /\ Go(p, "writelock")
  /\ UNCHANGED <<fetching, lock, requirements, packages, engines, bounds, unsettled>>

\* add_entry or remove_entry on the lock that was read (meta is 0 in a
\* removal), and write_lockfile.
WriteLock(p) ==
  LET s   == proc[p].slug
      new == [proc[p].base EXCEPT ![s] = proc[p].meta]
  IN /\ At(p, "writelock")
     /\ lock' = new
     /\ overwritten' = (overwritten \/ lock # proc[p].base)
     /\ unsettled' = unsettled \ {s}
     /\ proc' = [proc EXCEPT ![p].pc = "require", ![p].base = new]
     /\ UNCHANGED <<fetching, disk, requirements, packages, engines, bounds>>

\* A mistake: only the packages of the slug at hand are written.
RequireOne(p) ==
  /\ At(p, "require")
  /\ requirements' = Needs[proc[p].slug][proc[p].meta]
  /\ overwritten' = (overwritten \/ lock # proc[p].base)
  /\ IF p \in Tasks THEN Go(p, "audit")
     ELSE IF proc[p].op = "remove" THEN End(p) ELSE Go(p, "notify")
  /\ UNCHANGED <<fetching, disk, lock, packages, engines, bounds, unsettled>>

Require(p) ==
  /\ At(p, "require")
  /\ requirements' = Required(proc[p].base)
  /\ overwritten' = (overwritten \/ lock # proc[p].base)
  /\ IF p \in Tasks THEN Go(p, "audit")
     ELSE IF proc[p].op = "remove" THEN End(p) ELSE Go(p, "notify")
  /\ UNCHANGED <<fetching, disk, lock, packages, engines, bounds, unsettled>>

(***************************************************************************)
(* Into the running server.                                                *)
(***************************************************************************)
\* A mistake: an update is not loaded.
AuditOnly(p) ==
  LET s == proc[p].slug IN
  /\ At(p, "audit")
  /\ \/ unsettled' = unsettled \cup {s} /\ UNCHANGED engines
     \/ /\ IF proc[p].op # "install" THEN UNCHANGED engines ELSE ReloadRuntime(s)
        /\ UNCHANGED unsettled
  /\ End(p)
  /\ UNCHANGED <<fetching, files, bounds>>

\* The audit row is written, then an install or an update is loaded; nothing
\* is taken out of memory after a removal.
Audit(p) ==
  LET s == proc[p].slug IN
  /\ At(p, "audit")
  /\ \/ unsettled' = unsettled \cup {s} /\ UNCHANGED engines
     \/ /\ IF proc[p].op = "remove" THEN UNCHANGED engines ELSE ReloadRuntime(s)
        /\ UNCHANGED unsettled
  /\ End(p)
  /\ UNCHANGED <<fetching, files, bounds>>

\* try_reload_plugin of the CLI: the backend answers, or is not reached.
Notify(p) ==
  LET s == proc[p].slug IN
  /\ At(p, "notify")
  /\ \/ LoopFree /\ Reload(s) /\ unsettled' = IF plugins[s] # 0 THEN unsettled ELSE unsettled \cup {s}
     \/ unsettled' = unsettled \cup {s} /\ UNCHANGED engines
  /\ EndSlug(p)
  /\ UNCHANGED <<fetching, files, bounds>>

\* An administrator reloads a plugin.
AdminReload(s) ==
  /\ LoopFree
  /\ Reload(s)
  /\ UNCHANGED <<fetching, files, proc, bounds, unsettled>>

(***************************************************************************)
(* Crashes.                                                                *)
(***************************************************************************)
Touching == {"manifest", "modules", "verify", "depend", "readlock", "delete",
             "writelock", "require", "audit", "notify"}

\* What the processes Q leave when they are killed: the slugs they were at,
\* a file they were writing, whole or cut off (of an answer that another one
\* has overtaken the etag is no longer below the cache).  A lock file that cannot be
\* read counts as an empty one.
Killed(Q) ==
  /\ restarts < MaxRestarts
  /\ restarts' = restarts + 1
  /\ proc' = [p \in Processes |-> IF p \in Q THEN Idle ELSE proc[p]]
  /\ unsettled' = unsettled \cup {proc[p].slug : p \in {q \in Q : proc[q].pc \in Touching}}
  /\ cache' \in {cache} \cup {Unreadable : p \in {q \in Q : proc[q].pc = "writecache"}}
  /\ lock' \in {lock} \cup {Idle.base : p \in {q \in Q : proc[q].pc = "writelock"}}
  /\ raced' = (raced \/ \E q \in Q :
       proc[q].pc \in {"writecache", "writetag"} /\ (proc[q].got <= etag \/ Crossing(q)))
  /\ UNCHANGED <<main, etag, disk, overwritten, operations>>

CliDies(p) ==
  /\ proc[p].pc # "idle"
  /\ Killed({p})
  /\ requirements' \in {requirements} \cup {{} : q \in {q \in {p} : proc[q].pc = "require"}}
  /\ UNCHANGED <<index, packages, engines>>

\* The API restarts, in its container or in a new one, whose packages are
\* those of requirements.txt and in which no command runs on; entrypoint.sh
\* writes that file from the lock file when it is missing or empty.
Boot ==
  \E fresh \in BOOLEAN :
    LET Q    == IF fresh THEN Processes ELSE Tasks
        left == {requirements} \cup {{} : q \in {t \in Q : proc[t].pc = "require"}}
    IN /\ Killed(Q)
       /\ index' = [index EXCEPT ![Server] = Absent]
       /\ \E kept \in left : requirements' = IF kept = {} THEN Required(lock') ELSE kept
       /\ packages' = IF fresh THEN requirements' ELSE packages \cup requirements'
       /\ LoadAll

Next ==
  \/ Publish
  \/ \E p \in Processes : \/ Begin(p, "browse", None)
                         \/ \E op \in {"install", "update", "remove"}, s \in Slugs : Begin(p, op, s)
  \/ \E p \in Clis : Begin(p, "all", None) \/ CliDies(p) \/ Notify(p)
  \/ \E p \in Tasks : Audit(p)
  \/ \E p \in Processes :
       \/ UseCache(p) \/ Request(p) \/ NotModified(p) \/ FetchFails(p) \/ Fetched(p)
       \/ WriteCache(p) \/ WriteTag(p) \/ Check(p) \/ NextUpdate(p)
       \/ Download(p) \/ DownloadFails(p) \/ Verify(p) \/ Depend(p)
       \/ ReadLock(p) \/ Delete(p) \/ WriteLock(p) \/ Require(p)
  \/ \E s \in Slugs : AdminReload(s)
  \/ Boot

Spec == Init /\ [][Next]_vars

-----------------------------------------------------------------------------
Busy(s) == \E p \in Processes : proc[p].slug = s /\ proc[p].pc \in Touching

Pcs == Holding \cup Touching \cup {"idle", "fetch", "asked"}

ProcType ==
  [pc : Pcs, op : {"none", "browse", "install", "update", "all", "remove"},
   todo : SUBSET Slugs, slug : Slugs \cup {None}, meta : Versions,
   got : 0 .. MaxRevision, since : 0 .. MaxRevision, base : [Slugs -> Versions]]

\* Every variable keeps the type its code gives it.
TypeOK ==
  /\ main \in Revisions /\ cache \in -1 .. MaxRevision /\ etag \in 0 .. MaxRevision
  /\ index \in [Clis \cup {Server} -> 0 .. MaxRevision]
  /\ disk \in [Slugs -> [manifest : Versions, modules : Versions]]
  /\ lock \in [Slugs -> Versions] /\ plugins \in [Slugs -> Versions]
  /\ requirements \subseteq UNION {Needs[s][v] : s \in Slugs, v \in Versions}
  /\ packages \subseteq UNION {Needs[s][v] : s \in Slugs, v \in Versions}
  /\ attributed \in [Slugs -> SUBSET Names]
  /\ registered \in [Names -> {None} \cup [by : Slugs \cup {None}, version : Versions]]
  /\ proc \in [Processes -> ProcType]
  /\ unsettled \subseteq Slugs /\ stray \subseteq Names
  /\ overwritten \in BOOLEAN /\ raced \in BOOLEAN

\* installer.py:90-118: whatever downloads, updates and removals cross, and
\* whatever the registry publishes meanwhile, the lock entry of a slug with a
\* checksum names exactly the files on disk, unless a change of that slug
\* failed after it began or two processes changed the lock file at once.
LockTellsContent ==
  ~ overwritten => \A s \in Checksummed \ unsettled :
    lock[s] # 0 /\ ~ Busy(s) => Complete(s, lock[s])

\* installer.py:190-212 and entrypoint.sh: the packages a locked plugin needs
\* are there, also in a container made anew from requirements.txt.
PackagesFollowLock ==
  ~ overwritten => \A s \in Slugs \ unsettled : Needs[s][lock[s]] \subseteq packages

\* installer.py:57-118: what the lock file says can be relied on, for the files
\* and for the packages.
FilesFollowLock == TypeOK /\ LockTellsContent /\ PackagesFollowLock

\* registry.py:161-168: the etag never promises more than the cache holds, so
\* "not modified" never serves an old or a broken index, after any crash.
NotModifiedIsCurrent ==
  ~ raced /\ etag = main /\ (\A p \in Processes : proc[p].pc # "writetag") => cache = main

\* api/registry.py:37-68, api/plugins.py:144-173: once the changes of a slug
\* have ended well, the server runs the transforms of the locked version and
\* no other, whatever reloads and restarts came between (names left by a
\* reload that answered 404 stay until the next start).
LoadedFollowsLock ==
  ~ overwritten => \A s \in Checksummed \ unsettled : lock[s] # 0 /\ ~ Busy(s) =>
    /\ attributed[s] = Defines[s][lock[s]]
    /\ \A n \in Names \ stray :
         registered[n] # None /\ registered[n].by = s => registered[n].version = lock[s]

\* plugin_engine.py:189: get_plugin_for_transform, on which the preferences
\* of the user and the release of API keys rest, knows an owner of every
\* transform that came from a plugin, except after a reload answered 404.
OwnerKnown ==
  \A n \in Names \ stray :
    registered[n] # None /\ registered[n].by # None => n \in attributed[registered[n].by]

\* api/plugins.py:144-173: what the server runs follows the lock file, and it
\* knows where each transform comes from.
ServerFollowsLock == LoadedFollowsLock /\ OwnerKnown

\* installer.py:136: an index older than the lock file makes the installer
\* "update" backwards; the checksum keeps it from locking an older version.
NoDowngrade ==
  [][~ overwritten' => \A s \in Checksummed : lock'[s] = 0 \/ lock'[s] >= lock[s]]_lock

=============================================================================
