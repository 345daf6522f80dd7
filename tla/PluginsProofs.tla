--------------------------- MODULE PluginsProofs ---------------------------
(***************************************************************************)
(* Proofs about Plugins, for any number of requests, commands, plugins and *)
(* revisions: "not modified" never serves an old index, the lock file      *)
(* tells which files and packages are there, the server runs what the lock *)
(* file says, and no update goes backwards.                                *)
(*                                                                         *)
(* The invariants are proved in stages, each with the ones before it: the  *)
(* types and the stages of a command (Staged), the event loop that one     *)
(* task holds (Held), the cached index (Indexed), the files (Filed), the   *)
(* engines (Engined), and the versions (Ascending).                        *)
(***************************************************************************)
EXTENDS Plugins, TLAPS

\* The files of a slug are in the hands of a process between the beginning of
\* its download and its entry in the lock file.
Mid == {"manifest", "modules", "verify", "depend", "readlock", "delete", "writelock"}

RemovePcs == {"idle", "fetch", "asked", "writecache", "writetag", "check",
              "readlock", "delete", "writelock", "require", "audit"}

StagedProc(r) ==
  /\ r.pc \in Touching => r.slug \in Slugs
  /\ r.op \in {"install", "update", "remove"} => r.slug \in Slugs
  /\ r.op = "remove" => r.meta = 0 /\ r.pc \in RemovePcs
  /\ r.pc = "delete" => r.op = "remove"

Staged == TypeOK /\ \A p \in Processes : StagedProc(proc[p])

\* Of the tasks at most one holds the event loop.
Held ==
  \A t, u \in Tasks : proc[t].pc \in Holding /\ proc[u].pc \in Holding => t = u

\* The etag is never ahead of the registry, and unless two writers crossed the
\* cache is what the etag, or the next etag to be written, stands for.
Indexed ==
  /\ etag <= main
  /\ \A p \in Processes : proc[p].got <= main /\ proc[p].since <= main
  /\ ~ raced =>
       /\ \A p \in Processes : proc[p].pc = "writetag" => cache = proc[p].got
       /\ (\A p \in Processes : proc[p].pc # "writetag") /\ etag = main => cache = main

\* A process has verified the files of its slug and not locked them yet.
Sealed(r) == r.pc \in {"depend", "readlock", "writelock"} /\ r.op # "remove"

Content ==
  \A s \in Checksummed \ unsettled :
    lock[s] # 0 /\ (\A p \in Processes : ~ (proc[p].slug = s /\ proc[p].pc \in Mid))
      => Complete(s, lock[s])
Verified ==
  \A p \in Processes : Sealed(proc[p]) /\ proc[p].slug \in Checksummed
                         => Complete(proc[p].slug, proc[p].meta)
Packed ==
  \A p \in Processes : Sealed(proc[p]) /\ proc[p].pc # "depend"
                         => Needs[proc[p].slug][proc[p].meta] \subseteq packages
LockPacked ==
  \A s \in Slugs \ unsettled : Needs[s][lock[s]] \subseteq packages
Listed ==
  requirements # {} =>
    \A s \in Slugs \ unsettled :
      (\A p \in Processes : ~ (proc[p].slug = s /\ proc[p].pc = "require"))
        => Needs[s][lock[s]] \subseteq requirements

Filed ==
  /\ Packed
  /\ ~ overwritten => Content /\ Verified /\ LockPacked /\ Listed

\* A process will still have the server load the slug.
ToLoad(r) ==
  r.pc \in Mid \/ (r.pc \in {"require", "audit", "notify"} /\ r.op # "remove")

LoadedAs(s, v) ==
  /\ attributed[s] = Defines[s][v]
  /\ \A n \in Names \ stray :
       registered[n] # None /\ registered[n].by = s => registered[n].version = v

Engined ==
  /\ OwnerKnown
  /\ ~ overwritten =>
       \A s \in Checksummed \ unsettled :
         lock[s] # 0 /\ (\A p \in Processes : ~ (proc[p].slug = s /\ ToLoad(proc[p])))
           => LoadedAs(s, lock[s])

\* A newer revision of the registry names no older version of a slug.
VersionsAscend ==
  \A s \in Slugs : \A m, n \in Revisions :
    m <= n /\ Version[s][m] # 0 /\ Version[s][n] # 0 => Version[s][m] <= Version[s][n]

Published(s, v) == \E m \in Revisions : m <= main /\ v = Version[s][m]

Ascending ==
  ~ overwritten => \A s \in Checksummed :
    /\ lock[s] # 0 => Published(s, lock[s])
    /\ disk[s].modules # 0 => Published(s, disk[s].modules) /\ lock[s] <= disk[s].modules
-----------------------------------------------------------------------------
(* The process table. *)

Others(p) == \A q \in Processes \ {p} : proc'[q] = proc[q]

\* A process table in which p was given another record.
LEMMA Put ==
  ASSUME proc \in [Processes -> ProcType], NEW p \in Processes,
         NEW rec \in ProcType, proc' = [proc EXCEPT ![p] = rec]
  PROVE  /\ proc' \in [Processes -> ProcType] /\ proc'[p] = rec /\ Others(p)
BY DEF Others

LEMMA IdleType == Idle \in ProcType /\ Idle.pc = "idle" /\ Idle.op = "none"
                    /\ Idle.got = 0 /\ Idle.since = 0 /\ StagedProc(Idle)
<1> DEFINE none == [s \in Slugs |-> 0]
<1>1. /\ none \in [Slugs -> Versions] /\ 0 \in Versions /\ 0 \in 0 .. MaxRevision
  BY PluginsAssumption DEF Versions
<1>2. Idle = [pc |-> "idle", op |-> "none", todo |-> {}, slug |-> None, meta |-> 0,
              got |-> 0, since |-> 0, base |-> none]
  BY DEF Idle
<1> HIDE DEF none
<1>3. Idle \in ProcType
  BY <1>1, <1>2 DEF ProcType, Pcs
<1>4. StagedProc(Idle)
  BY <1>2 DEF StagedProc, Touching
<1> QED  BY <1>2, <1>3, <1>4

\* What a process does that only goes on to another stage.
LEMMA GoMoves ==
  ASSUME proc \in [Processes -> ProcType], NEW p \in Processes, NEW pc \in Pcs,
         Go(p, pc)
  PROVE  /\ proc' \in [Processes -> ProcType] /\ Others(p)
         /\ proc'[p].pc = pc /\ proc'[p].op = proc[p].op
         /\ proc'[p].slug = proc[p].slug /\ proc'[p].meta = proc[p].meta
         /\ proc'[p].base = proc[p].base /\ proc'[p].todo = proc[p].todo
         /\ proc'[p].got = proc[p].got /\ proc'[p].since = proc[p].since
<1> DEFINE rec == [proc[p] EXCEPT !.pc = pc]
<1>1. proc[p] \in ProcType
  OBVIOUS
<1>2. /\ rec \in ProcType /\ rec.pc = pc /\ rec.op = proc[p].op
      /\ rec.slug = proc[p].slug /\ rec.meta = proc[p].meta
      /\ rec.base = proc[p].base /\ rec.todo = proc[p].todo
      /\ rec.got = proc[p].got /\ rec.since = proc[p].since
  BY <1>1 DEF ProcType
<1>3. proc' = [proc EXCEPT ![p] = rec]
  BY DEF Go
<1> HIDE DEF rec
<1> QED  BY <1>2, <1>3, Put

LEMMA EndMoves ==
  ASSUME proc \in [Processes -> ProcType], NEW p \in Processes, End(p)
  PROVE  proc' \in [Processes -> ProcType] /\ Others(p) /\ proc'[p] = Idle
BY IdleType, Put DEF End

\* The record of a command that goes on to its next slug, or ends.
LEMMA RestType ==
  ASSUME NEW r \in ProcType
  PROVE  /\ Rest(r) \in ProcType
         /\ \/ Rest(r) = Idle
            \/ /\ Rest(r).pc = "next" /\ Rest(r).op = r.op /\ Rest(r).slug = r.slug
               /\ Rest(r).meta = r.meta /\ Rest(r).got = r.got /\ Rest(r).since = r.since
<1> DEFINE rec == [r EXCEPT !.pc = "next"]
<1>1. /\ rec \in ProcType /\ rec.pc = "next" /\ rec.op = r.op /\ rec.slug = r.slug
      /\ rec.meta = r.meta /\ rec.got = r.got /\ rec.since = r.since
  BY DEF ProcType, Pcs, Holding
<1>2. Rest(r) = Idle \/ Rest(r) = rec
  BY DEF Rest
<1> HIDE DEF rec
<1> QED  BY <1>1, <1>2, IdleType

LEMMA EndSlugMoves ==
  ASSUME proc \in [Processes -> ProcType], NEW p \in Processes, EndSlug(p)
  PROVE  /\ proc' \in [Processes -> ProcType] /\ Others(p)
         /\ \/ proc'[p] = Idle
            \/ /\ proc'[p].pc = "next" /\ proc'[p].op = proc[p].op
               /\ proc'[p].slug = proc[p].slug /\ proc'[p].meta = proc[p].meta
               /\ proc'[p].got = proc[p].got /\ proc'[p].since = proc[p].since
<1> DEFINE rec == Rest(proc[p])
<1>1. proc[p] \in ProcType
  OBVIOUS
<1>2. /\ rec \in ProcType
      /\ \/ rec = Idle
         \/ /\ rec.pc = "next" /\ rec.op = proc[p].op /\ rec.slug = proc[p].slug
            /\ rec.meta = proc[p].meta /\ rec.got = proc[p].got
            /\ rec.since = proc[p].since
  BY <1>1, RestType
<1>3. proc' = [proc EXCEPT ![p] = rec]
  BY DEF EndSlug
<1> HIDE DEF rec
<1> QED  BY <1>2, <1>3, Put

\* What a process is told of a slug.
LEMMA KnownType ==
  ASSUME TypeOK, NEW p \in Processes, NEW s \in Slugs
  PROVE  Known(p, s) \in Versions
<1>1. Host(p) \in Clis \cup {Server}
  BY DEF Host, Processes
<1>2. index[Host(p)] \in 0 .. MaxRevision /\ 0 \in Versions
  BY <1>1, PluginsAssumption DEF TypeOK, Versions
<1>3. index[Host(p)] # 0 => index[Host(p)] \in Revisions
  BY <1>2, PluginsAssumption DEF Revisions
<1> QED  BY <1>2, <1>3, PluginsAssumption DEF Known, Absent

LEMMA InstallMoves ==
  ASSUME TypeOK, NEW p \in Processes, NEW s \in Slugs, NEW todo \in SUBSET Slugs,
         Install(p, s, todo)
  PROVE  /\ proc' \in [Processes -> ProcType] /\ Others(p)
         /\ proc'[p].pc = "manifest" /\ proc'[p].op = proc[p].op
         /\ proc'[p].slug = s /\ proc'[p].meta = Known(p, s)
         /\ proc'[p].got = proc[p].got /\ proc'[p].since = proc[p].since
<1> DEFINE known == Known(p, s)
           r1 == [proc[p] EXCEPT !.pc = "manifest"]
           r2 == [r1 EXCEPT !.slug = s]
           r3 == [r2 EXCEPT !.todo = todo]
           rec == [r3 EXCEPT !.meta = known]
<1>1. proc[p] \in ProcType /\ proc \in [Processes -> ProcType]
  BY DEF TypeOK
<1>2. known \in Versions
  BY KnownType
<1>3. proc' = [proc EXCEPT ![p] = rec]
  <2>1. proc' = [proc EXCEPT ![p].pc = "manifest", ![p].slug = s, ![p].todo = todo,
                             ![p].meta = known]
    BY DEF Install
  <2> HIDE DEF known
  <2> QED  BY <1>1, <2>1 DEF ProcType
<1> HIDE DEF known
<1>4. /\ r1 \in ProcType /\ r1.pc = "manifest" /\ r1.op = proc[p].op
      /\ r1.got = proc[p].got /\ r1.since = proc[p].since
  BY <1>1 DEF ProcType, Pcs, Touching
<1> HIDE DEF r1
<1>5. /\ r2 \in ProcType /\ r2.pc = "manifest" /\ r2.op = proc[p].op /\ r2.slug = s
      /\ r2.got = proc[p].got /\ r2.since = proc[p].since
  BY <1>4 DEF ProcType
<1> HIDE DEF r2
<1>6. /\ r3 \in ProcType /\ r3.pc = "manifest" /\ r3.op = proc[p].op /\ r3.slug = s
      /\ r3.got = proc[p].got /\ r3.since = proc[p].since
  BY <1>5 DEF ProcType
<1> HIDE DEF r3
<1>7. /\ rec \in ProcType /\ rec.pc = "manifest" /\ rec.op = proc[p].op /\ rec.slug = s
      /\ rec.meta = known
      /\ rec.got = proc[p].got /\ rec.since = proc[p].since
  BY <1>2, <1>6 DEF ProcType
<1> HIDE DEF rec
<1> QED  BY <1>1, <1>3, <1>7, Put DEF known
-----------------------------------------------------------------------------
(* The steps that do not touch a slug: they begin a command, fetch the     *)
(* index, or find that nothing is to be installed.                         *)

IndexTypes ==
  /\ main \in Revisions /\ cache \in -1 .. MaxRevision /\ etag \in 0 .. MaxRevision
  /\ index \in [Clis \cup {Server} -> 0 .. MaxRevision]
  /\ raced \in BOOLEAN

Fetches(p) ==
  /\ UNCHANGED <<main, disk, lock, requirements, packages, overwritten,
                 plugins, attributed, registered, stray, unsettled>>
  /\ IndexTypes'
  /\ Others(p) /\ Runs(p) /\ proc' \in [Processes -> ProcType]
  /\ proc[p].pc \notin Touching
  /\ StagedProc(proc'[p])
  /\ proc'[p].pc \in Touching => proc'[p].pc = "readlock" /\ proc'[p].op = "remove"

LEMMA Hosts ==
  ASSUME NEW p \in Processes
  PROVE  Host(p) \in Clis \cup {Server}
BY DEF Host, Processes

\* What a process that is not at a slug yet becomes by going on.
LEMMA GoesOn ==
  ASSUME Staged, NEW p \in Processes, NEW pc \in Pcs \ Touching, Go(p, pc),
         proc[p].op = "remove" => pc \in RemovePcs
  PROVE  /\ Others(p) /\ proc' \in [Processes -> ProcType]
         /\ StagedProc(proc'[p]) /\ proc'[p].pc \notin Touching
<1>1. proc \in [Processes -> ProcType] /\ StagedProc(proc[p])
  BY DEF Staged, TypeOK
<1>2. /\ proc' \in [Processes -> ProcType] /\ Others(p)
      /\ proc'[p].pc = pc /\ proc'[p].op = proc[p].op
      /\ proc'[p].slug = proc[p].slug /\ proc'[p].meta = proc[p].meta
  BY <1>1, GoMoves
<1>3. "delete" \in Touching
  BY DEF Touching
<1> QED  BY <1>1, <1>2, <1>3 DEF StagedProc

LEMMA Ends ==
  ASSUME Staged, NEW p \in Processes, End(p)
  PROVE  /\ Others(p) /\ proc' \in [Processes -> ProcType] /\ proc'[p] = Idle
         /\ StagedProc(proc'[p]) /\ proc'[p].pc \notin Touching
<1>1. proc \in [Processes -> ProcType]
  BY DEF Staged, TypeOK
<1>2. "idle" \notin Touching
  BY DEF Touching
<1> QED  BY <1>1, <1>2, EndMoves, IdleType

LEMMA BeginFetches ==
  ASSUME Staged, NEW p \in Processes,
         NEW op \in {"browse", "install", "update", "all", "remove"},
         NEW s \in Slugs \cup {None},
         op \in {"install", "update", "remove"} => s \in Slugs, Begin(p, op, s)
  PROVE  Fetches(p) /\ proc'[p].got = 0 /\ proc'[p].since = 0
         /\ proc'[p].pc \notin {"writecache", "writetag"}
         /\ proc[p].pc = "idle" /\ cache' = cache /\ etag' = etag /\ raced' = raced
<1> DEFINE first == IF op = "remove" /\ p \in Tasks THEN "readlock" ELSE "fetch"
           r1 == [Idle EXCEPT !.pc = first]
           r2 == [r1 EXCEPT !.op = op]
           rec == [r2 EXCEPT !.slug = s]
<1>1. first \in Pcs /\ (first = "readlock" => op = "remove") /\ first \in {"readlock", "fetch"}
  BY DEF Pcs, Touching
<1>2. proc' = [proc EXCEPT ![p] = rec]
  BY IdleType DEF Begin, ProcType
<1> HIDE DEF first
<1>3. /\ r1 \in ProcType /\ r1.pc = first /\ r1.meta = 0 /\ r1.got = 0 /\ r1.since = 0
  <2>1. Idle.meta = 0
    BY DEF Idle
  <2> QED  BY <1>1, <2>1, IdleType DEF ProcType
<1> HIDE DEF r1
<1>4. /\ r2 \in ProcType /\ r2.pc = first /\ r2.meta = 0 /\ r2.got = 0 /\ r2.since = 0
      /\ r2.op = op
  BY <1>3 DEF ProcType
<1> HIDE DEF r2
<1>5. /\ rec \in ProcType /\ rec.pc = first /\ rec.meta = 0 /\ rec.got = 0 /\ rec.since = 0
      /\ rec.op = op /\ rec.slug = s
  BY <1>4 DEF ProcType
<1> HIDE DEF rec
<1>6. proc \in [Processes -> ProcType] /\ IndexTypes
  BY DEF Staged, TypeOK, IndexTypes
<1>7. proc' \in [Processes -> ProcType] /\ proc'[p] = rec /\ Others(p)
  BY <1>2, <1>5, <1>6, Put
<1>8. StagedProc(proc'[p])
  BY <1>1, <1>5, <1>7 DEF StagedProc, RemovePcs, Touching
<1>9. /\ UNCHANGED <<main, disk, lock, requirements, packages, overwritten,
                     plugins, attributed, registered, stray, unsettled>>
      /\ cache' = cache /\ etag' = etag /\ raced' = raced /\ Runs(p)
      /\ proc[p].pc = "idle" /\ proc[p].pc \notin Touching
  BY DEF Begin, At, files, engines, Touching
<1>10. index' \in [Clis \cup {Server} -> 0 .. MaxRevision]
  <2>1. CASE index' = [index EXCEPT ![p] = Absent] /\ p \in Clis
    BY <1>6, <2>1, PluginsAssumption DEF IndexTypes, Absent
  <2>2. CASE index' = index
    BY <1>6, <2>2 DEF IndexTypes
  <2> QED  BY <2>1, <2>2 DEF Begin
<1>11. IndexTypes'
  BY <1>6, <1>9, <1>10 DEF IndexTypes
<1>12. /\ proc'[p].got = 0 /\ proc'[p].since = 0 /\ proc'[p].pc = first
       /\ proc'[p].op = op
  BY <1>5, <1>7
<1>13. proc'[p].pc \in Touching => proc'[p].pc = "readlock" /\ proc'[p].op = "remove"
  BY <1>1, <1>12 DEF Touching
<1>14. Fetches(p)
  BY <1>7, <1>8, <1>9, <1>11, <1>13 DEF Fetches
<1> QED  BY <1>1, <1>9, <1>12, <1>14

\* The steps that go on to the check, or end, with an index or without.
LEMMA AnswerFetches ==
  ASSUME Staged, NEW p \in Processes,
         UseCache(p) \/ NotModified(p) \/ FetchFails(p)
  PROVE  /\ Fetches(p)
         /\ proc'[p].got \in {0, proc[p].got} /\ proc'[p].since \in {0, proc[p].since}
         /\ proc'[p].pc \notin {"writecache", "writetag"}
         /\ proc[p].pc \in {"fetch", "asked"}
         /\ cache' = cache /\ etag' = etag /\ raced' = raced
<1>1. /\ UNCHANGED <<main, cache, etag, raced, disk, lock, requirements, packages, overwritten,
                     plugins, attributed, registered, stray, unsettled>>
      /\ Runs(p) /\ proc[p].pc \in {"fetch", "asked"}
      /\ \/ index' = index
         \/ cache # Absent /\ cache # Unreadable /\ index' = [index EXCEPT ![Host(p)] = cache]
      /\ End(p) \/ Go(p, "check")
  BY DEF UseCache, NotModified, FetchFails, FromCache, At, fetching, files, engines
<1>2. IndexTypes /\ proc \in [Processes -> ProcType]
  BY DEF Staged, TypeOK, IndexTypes
<1>3. cache # Absent /\ cache # Unreadable => cache \in 0 .. MaxRevision
  BY <1>2, PluginsAssumption DEF IndexTypes, Absent, Unreadable
<1>4. index' \in [Clis \cup {Server} -> 0 .. MaxRevision]
  BY <1>1, <1>2, <1>3, Hosts DEF IndexTypes
<1>5. IndexTypes'
  BY <1>1, <1>2, <1>4 DEF IndexTypes
<1>6. proc[p].pc \notin Touching
  BY <1>1 DEF Touching
<1>7. CASE End(p)
  BY <1>1, <1>5, <1>6, <1>7, Ends, IdleType DEF Fetches
<1>8. CASE Go(p, "check")
  <2>1. "check" \in Pcs \ Touching /\ "check" \in RemovePcs
    BY DEF Pcs, Holding, Touching, RemovePcs
  <2>2. /\ Others(p) /\ proc' \in [Processes -> ProcType]
        /\ StagedProc(proc'[p]) /\ proc'[p].pc \notin Touching
    BY <1>8, <2>1, GoesOn
  <2>3. /\ proc'[p].pc = "check" /\ proc'[p].got = proc[p].got
        /\ proc'[p].since = proc[p].since
    BY <1>2, <1>8, <2>1, GoMoves
  <2> QED  BY <1>1, <1>5, <1>6, <2>2, <2>3 DEF Fetches
<1> QED  BY <1>1, <1>7, <1>8

LEMMA RequestFetches ==
  ASSUME Staged, NEW p \in Processes, Request(p)
  PROVE  /\ Fetches(p)
         /\ proc'[p].got = etag /\ proc'[p].since = main /\ proc'[p].pc = "asked"
         /\ proc[p].pc = "fetch" /\ cache' = cache /\ etag' = etag /\ raced' = raced
<1> DEFINE r1 == [proc[p] EXCEPT !.pc = "asked"]
           r2 == [r1 EXCEPT !.got = etag]
           rec == [r2 EXCEPT !.since = main]
<1>1. IndexTypes /\ proc \in [Processes -> ProcType] /\ StagedProc(proc[p])
      /\ proc[p] \in ProcType
  BY DEF Staged, TypeOK, IndexTypes
<1>2. main \in 0 .. MaxRevision
  BY <1>1 DEF IndexTypes, Revisions
<1>3. proc' = [proc EXCEPT ![p] = rec]
  BY <1>1 DEF Request, ProcType
<1>4. r1 \in ProcType /\ r1.pc = "asked" /\ r1.op = proc[p].op /\ r1.slug = proc[p].slug
      /\ r1.meta = proc[p].meta
  BY <1>1 DEF ProcType, Pcs
<1> HIDE DEF r1
<1>5. r2 \in ProcType /\ r2.pc = "asked" /\ r2.op = proc[p].op /\ r2.slug = proc[p].slug
      /\ r2.meta = proc[p].meta /\ r2.got = etag
  BY <1>1, <1>4 DEF ProcType, IndexTypes
<1> HIDE DEF r2
<1>6. rec \in ProcType /\ rec.pc = "asked" /\ rec.op = proc[p].op /\ rec.slug = proc[p].slug
      /\ rec.meta = proc[p].meta /\ rec.got = etag /\ rec.since = main
  BY <1>2, <1>5 DEF ProcType
<1> HIDE DEF rec
<1>7. proc' \in [Processes -> ProcType] /\ proc'[p] = rec /\ Others(p)
  BY <1>1, <1>3, <1>6, Put
<1>8. StagedProc(proc'[p])
  BY <1>1, <1>6, <1>7 DEF StagedProc, RemovePcs, Touching
<1>9. /\ UNCHANGED <<main, cache, etag, index, raced, disk, lock, requirements, packages,
                     overwritten, plugins, attributed, registered, stray, unsettled>>
      /\ Runs(p) /\ proc[p].pc = "fetch" /\ proc[p].pc \notin Touching
  BY DEF Request, At, fetching, files, engines, Touching
<1>10. IndexTypes'
  BY <1>1, <1>9 DEF IndexTypes
<1> QED  BY <1>6, <1>7, <1>8, <1>9, <1>10 DEF Fetches, Touching

LEMMA FetchedFetches ==
  ASSUME Staged, NEW p \in Processes, Fetched(p)
  PROVE  /\ Fetches(p)
         /\ proc'[p].got \in proc[p].since .. main
         /\ proc'[p].since = proc[p].since /\ proc'[p].pc = "writecache"
         /\ proc[p].pc = "asked" /\ cache' = cache /\ etag' = etag /\ raced' = raced
<1>1. PICK got \in (proc[p].since .. main) \ {proc[p].got} :
        /\ index' = [index EXCEPT ![Host(p)] = got]
        /\ proc' = [proc EXCEPT ![p].pc = "writecache", ![p].got = got]
  BY DEF Fetched
<1> DEFINE r1 == [proc[p] EXCEPT !.pc = "writecache"]
           rec == [r1 EXCEPT !.got = got]
<1>2. IndexTypes /\ proc \in [Processes -> ProcType] /\ StagedProc(proc[p])
      /\ proc[p] \in ProcType
  BY DEF Staged, TypeOK, IndexTypes
<1>3. got \in 0 .. MaxRevision
  BY <1>1, <1>2, PluginsAssumption DEF IndexTypes, Revisions, ProcType
<1>4. proc' = [proc EXCEPT ![p] = rec]
  BY <1>1, <1>2 DEF ProcType
<1>5. r1 \in ProcType /\ r1.pc = "writecache" /\ r1.op = proc[p].op /\ r1.slug = proc[p].slug
      /\ r1.meta = proc[p].meta /\ r1.since = proc[p].since
  BY <1>2 DEF ProcType, Pcs, Holding
<1> HIDE DEF r1
<1>6. rec \in ProcType /\ rec.pc = "writecache" /\ rec.op = proc[p].op
      /\ rec.slug = proc[p].slug /\ rec.meta = proc[p].meta /\ rec.got = got
      /\ rec.since = proc[p].since
  BY <1>3, <1>5 DEF ProcType
<1> HIDE DEF rec
<1>7. proc' \in [Processes -> ProcType] /\ proc'[p] = rec /\ Others(p)
  BY <1>2, <1>4, <1>6, Put
<1>8. StagedProc(proc'[p])
  BY <1>2, <1>6, <1>7 DEF StagedProc, RemovePcs, Touching
<1>9. /\ UNCHANGED <<main, cache, etag, raced, disk, lock, requirements, packages,
                     overwritten, plugins, attributed, registered, stray, unsettled>>
      /\ Runs(p) /\ proc[p].pc = "asked" /\ proc[p].pc \notin Touching
  BY DEF Fetched, At, files, engines, Touching
<1>10. index' \in [Clis \cup {Server} -> 0 .. MaxRevision]
  BY <1>1, <1>2, <1>3, Hosts DEF IndexTypes
<1>11. IndexTypes'
  BY <1>2, <1>9, <1>10 DEF IndexTypes
<1> QED  BY <1>1, <1>6, <1>7, <1>8, <1>9, <1>11 DEF Fetches, Touching

LEMMA CacheFetches ==
  ASSUME Staged, NEW p \in Processes, WriteCache(p) \/ WriteTag(p)
  PROVE  /\ Fetches(p)
         /\ proc'[p].got = proc[p].got /\ proc'[p].since = proc[p].since
<1>1. IndexTypes /\ proc \in [Processes -> ProcType] /\ proc[p] \in ProcType
  BY DEF Staged, TypeOK, IndexTypes
<1>2. PICK pc \in {"writetag", "check"} : Go(p, pc)
  BY DEF WriteCache, WriteTag
<1>3. pc \in Pcs \ Touching /\ pc \in RemovePcs
  BY DEF Pcs, Holding, Touching, RemovePcs
<1>4. /\ Others(p) /\ proc' \in [Processes -> ProcType]
      /\ StagedProc(proc'[p]) /\ proc'[p].pc \notin Touching
  BY <1>2, <1>3, GoesOn
<1>5. proc'[p].got = proc[p].got /\ proc'[p].since = proc[p].since
  BY <1>1, <1>2, <1>3, GoMoves
<1>6. /\ UNCHANGED <<main, index, disk, lock, requirements, packages,
                     overwritten, plugins, attributed, registered, stray, unsettled>>
      /\ Runs(p) /\ proc[p].pc \notin Touching
      /\ cache' \in {cache, proc[p].got} /\ etag' \in {etag, proc[p].got}
  BY DEF WriteCache, WriteTag, At, files, engines, Touching
<1>7. proc[p].got \in 0 .. MaxRevision
  BY <1>1 DEF ProcType
<1>8. raced' \in BOOLEAN
  BY <1>1 DEF WriteCache, WriteTag, Crossing, IndexTypes
<1>9. IndexTypes'
  BY <1>1, <1>6, <1>7, <1>8, PluginsAssumption DEF IndexTypes
<1> QED  BY <1>4, <1>5, <1>6, <1>9 DEF Fetches
-----------------------------------------------------------------------------
(* The steps that touch a slug. *)

\* A slug is taken in hand and its directory emptied.
Installs(p, s) ==
  /\ UNCHANGED <<main, cache, etag, index, raced, lock, requirements, packages,
                 plugins, attributed, registered, stray, unsettled>>
  /\ Others(p) /\ Runs(p) /\ proc' \in [Processes -> ProcType]
  /\ s \in Slugs /\ Write(p, s, Wiped)
  /\ proc[p].pc \in {"check", "next"} /\ proc'[p].pc = "manifest"
  /\ proc'[p].op = proc[p].op /\ proc'[p].op # "remove"
  /\ proc'[p].slug = s /\ proc'[p].meta = Known(p, s)
  /\ proc'[p].got = proc[p].got /\ proc'[p].since = proc[p].since

LEMMA CheckKinds ==
  ASSUME Staged, NEW p \in Processes, Check(p)
  PROVE  \/ /\ Fetches(p) /\ proc'[p].got \in {0, proc[p].got}
            /\ proc'[p].since \in {0, proc[p].since}
            /\ proc[p].pc = "check" /\ cache' = cache /\ etag' = etag /\ raced' = raced
            /\ proc'[p].pc \notin {"writecache", "writetag"}
         \/ \E s \in Slugs : Installs(p, s)
<1> DEFINE s == proc[p].slug
<1>1. IndexTypes /\ proc \in [Processes -> ProcType] /\ StagedProc(proc[p])
      /\ proc[p] \in ProcType /\ TypeOK
  BY DEF Staged, TypeOK, IndexTypes
<1>2. /\ UNCHANGED <<main, cache, etag, index, raced,
                     plugins, attributed, registered, stray, unsettled>>
      /\ Runs(p) /\ proc[p].pc = "check" /\ proc[p].pc \notin Touching
  BY DEF Check, At, fetching, engines, Touching
<1>3. IndexTypes'
  BY <1>1, <1>2 DEF IndexTypes
<1>4. ASSUME UNCHANGED <<disk, lock, requirements, packages, overwritten>>,
             Others(p), proc' \in [Processes -> ProcType], StagedProc(proc'[p]),
             proc'[p].got \in {0, proc[p].got}, proc'[p].since \in {0, proc[p].since},
             proc'[p].pc \notin {"writecache", "writetag"},
             proc'[p].pc \in Touching =>
               proc'[p].pc = "readlock" /\ proc'[p].op = "remove"
      PROVE  /\ Fetches(p) /\ proc'[p].got \in {0, proc[p].got}
             /\ proc'[p].since \in {0, proc[p].since}
             /\ proc[p].pc = "check" /\ cache' = cache /\ etag' = etag /\ raced' = raced
             /\ proc'[p].pc \notin {"writecache", "writetag"}
  BY <1>2, <1>3, <1>4 DEF Fetches
<1>5. CASE End(p) /\ UNCHANGED files
  <2>1. UNCHANGED <<disk, lock, requirements, packages, overwritten>>
    BY <1>5 DEF files
  <2> QED  BY <1>4, <1>5, <2>1, Ends, IdleType
<1>6. CASE proc[p].op = "install" /\ Installable(p, s) /\ Install(p, s, {})
  <2>1. s \in Slugs /\ {} \in SUBSET Slugs
    BY <1>1, <1>6 DEF StagedProc
  <2> HIDE DEF s
  <2>2. /\ proc' \in [Processes -> ProcType] /\ Others(p)
        /\ proc'[p].pc = "manifest" /\ proc'[p].op = proc[p].op
        /\ proc'[p].slug = s /\ proc'[p].meta = Known(p, s)
        /\ proc'[p].got = proc[p].got /\ proc'[p].since = proc[p].since
    BY <1>1, <1>6, <2>1, InstallMoves
  <2>3. Write(p, s, Wiped) /\ UNCHANGED <<lock, requirements, packages>>
    BY <1>6 DEF Install
  <2>4. Installs(p, s)
    BY <1>2, <1>6, <2>1, <2>2, <2>3 DEF Installs
  <2> QED  BY <2>1, <2>4
<1>7. CASE /\ proc[p].op = "update"
           /\ proc' = [proc EXCEPT ![p].pc = "next", ![p].todo = {s}]
           /\ UNCHANGED files
  <2> DEFINE r1 == [proc[p] EXCEPT !.pc = "next"]
             rec == [r1 EXCEPT !.todo = {s}]
  <2>1. s \in Slugs
    BY <1>1, <1>7 DEF StagedProc
  <2>2. proc' = [proc EXCEPT ![p] = rec]
    BY <1>1, <1>7 DEF ProcType
  <2> HIDE DEF s
  <2>3. r1 \in ProcType /\ r1.pc = "next" /\ r1.op = proc[p].op /\ r1.slug = proc[p].slug
        /\ r1.got = proc[p].got /\ r1.since = proc[p].since
    BY <1>1 DEF ProcType, Pcs, Holding
  <2> HIDE DEF r1
  <2>4. rec \in ProcType /\ rec.pc = "next" /\ rec.op = proc[p].op
        /\ rec.slug = proc[p].slug /\ rec.got = proc[p].got /\ rec.since = proc[p].since
    BY <2>1, <2>3 DEF ProcType
  <2> HIDE DEF rec
  <2>5. proc' \in [Processes -> ProcType] /\ proc'[p] = rec /\ Others(p)
    BY <1>1, <2>2, <2>4, Put
  <2>6. StagedProc(proc'[p]) /\ proc'[p].pc \notin Touching
    BY <1>1, <1>7, <2>4, <2>5 DEF StagedProc, Touching
  <2>7. UNCHANGED <<disk, lock, requirements, packages, overwritten>>
    BY <1>7 DEF files
  <2> QED  BY <1>4, <2>4, <2>5, <2>6, <2>7
<1>8. CASE /\ proc[p].op = "all"
           /\ proc' = [proc EXCEPT ![p] = Rest([@ EXCEPT !.todo = Outdated(p)])]
           /\ UNCHANGED files
  <2> DEFINE todo == Outdated(p)
             r1 == [proc[p] EXCEPT !.todo = todo]
             rec == Rest(r1)
  <2>1. todo \in SUBSET Slugs
    BY DEF Outdated
  <2>2. proc' = [proc EXCEPT ![p] = rec]
    BY <1>8
  <2> HIDE DEF todo
  <2>3. r1 \in ProcType /\ r1.op = proc[p].op
        /\ r1.got = proc[p].got /\ r1.since = proc[p].since
    BY <1>1, <2>1 DEF ProcType
  <2> HIDE DEF r1
  <2>4. /\ rec \in ProcType
        /\ \/ rec = Idle
           \/ rec.pc = "next" /\ rec.op = "all" /\ rec.got = proc[p].got
              /\ rec.since = proc[p].since
    BY <1>8, <2>3, RestType
  <2> HIDE DEF rec
  <2>5. proc' \in [Processes -> ProcType] /\ proc'[p] = rec /\ Others(p)
    BY <1>1, <2>2, <2>4, Put
  <2>6. StagedProc(rec) /\ rec.pc \in {"idle", "next"}
    BY <2>4, IdleType DEF StagedProc, Touching
  <2>7. UNCHANGED <<disk, lock, requirements, packages, overwritten>>
    BY <1>8 DEF files
  <2>8. rec.got \in {0, proc[p].got} /\ rec.since \in {0, proc[p].since}
    BY <2>4, IdleType
  <2>9. rec.pc \notin Touching
    BY <2>6 DEF Touching
  <2> QED  BY <1>4, <2>5, <2>6, <2>7, <2>8, <2>9
<1>9. CASE proc[p].op = "remove" /\ Go(p, "readlock") /\ UNCHANGED files
  <2>1. "readlock" \in Pcs
    BY DEF Pcs, Holding
  <2>2. /\ proc' \in [Processes -> ProcType] /\ Others(p)
        /\ proc'[p].pc = "readlock" /\ proc'[p].op = proc[p].op
        /\ proc'[p].slug = proc[p].slug /\ proc'[p].meta = proc[p].meta
        /\ proc'[p].got = proc[p].got /\ proc'[p].since = proc[p].since
    BY <1>1, <1>9, <2>1, GoMoves
  <2>3. StagedProc(proc'[p])
    BY <1>1, <1>9, <2>2 DEF StagedProc, RemovePcs
  <2>4. UNCHANGED <<disk, lock, requirements, packages, overwritten>>
    BY <1>9 DEF files
  <2> QED  BY <1>4, <1>9, <2>2, <2>3, <2>4
<1> QED  BY <1>5, <1>6, <1>7, <1>8, <1>9 DEF Check

LEMMA NextKinds ==
  ASSUME Staged, NEW p \in Processes, NextUpdate(p)
  PROVE  \/ /\ Fetches(p) /\ proc'[p].got \in {0, proc[p].got}
            /\ proc'[p].since \in {0, proc[p].since}
            /\ proc[p].pc = "next" /\ cache' = cache /\ etag' = etag /\ raced' = raced
            /\ proc'[p].pc \notin {"writecache", "writetag"}
         \/ \E s \in Slugs : Installs(p, s)
<1>1. IndexTypes /\ proc \in [Processes -> ProcType] /\ StagedProc(proc[p])
      /\ proc[p] \in ProcType /\ TypeOK
  BY DEF Staged, TypeOK, IndexTypes
<1>2. PICK s \in proc[p].todo :
        /\ At(p, "next")
        /\ \/ /\ proc' = [proc EXCEPT ![p] = Rest([@ EXCEPT !.todo = proc[p].todo \ {s}])]
              /\ UNCHANGED files
           \/ Install(p, s, proc[p].todo \ {s})
        /\ UNCHANGED <<fetching, engines, bounds, unsettled>>
  BY DEF NextUpdate
<1>3. /\ UNCHANGED <<main, cache, etag, index, raced,
                     plugins, attributed, registered, stray, unsettled>>
      /\ Runs(p) /\ proc[p].pc = "next" /\ proc[p].pc \notin Touching
  BY <1>2 DEF At, fetching, engines, Touching
<1>4. IndexTypes'
  BY <1>1, <1>3 DEF IndexTypes
<1>5. proc[p].op # "remove"
  BY <1>1, <1>3 DEF StagedProc, RemovePcs
<1> DEFINE todo == proc[p].todo \ {s}
<1>6. todo \in SUBSET Slugs /\ s \in Slugs
  BY <1>1 DEF ProcType
<1>7. CASE proc' = [proc EXCEPT ![p] = Rest([@ EXCEPT !.todo = proc[p].todo \ {s}])] /\ UNCHANGED files
  <2> DEFINE r1 == [proc[p] EXCEPT !.todo = todo]
             rec == Rest(r1)
  <2>1. proc' = [proc EXCEPT ![p] = rec]
    BY <1>7
  <2> HIDE DEF todo
  <2>2. r1 \in ProcType /\ r1.op = proc[p].op /\ r1.slug = proc[p].slug
        /\ r1.got = proc[p].got /\ r1.since = proc[p].since
    BY <1>1, <1>6 DEF ProcType
  <2> HIDE DEF r1
  <2>3. /\ rec \in ProcType
        /\ \/ rec = Idle
           \/ rec.pc = "next" /\ rec.op = proc[p].op /\ rec.slug = proc[p].slug
              /\ rec.got = proc[p].got /\ rec.since = proc[p].since
    BY <2>2, RestType
  <2> HIDE DEF rec
  <2>4. proc' \in [Processes -> ProcType] /\ proc'[p] = rec /\ Others(p)
    BY <1>1, <2>1, <2>3, Put
  <2>5. StagedProc(rec) /\ rec.pc \in {"idle", "next"}
    BY <1>1, <1>5, <2>3, IdleType DEF StagedProc, Touching
  <2>6. UNCHANGED <<disk, lock, requirements, packages, overwritten>>
    BY <1>7 DEF files
  <2>7. rec.got \in {0, proc[p].got} /\ rec.since \in {0, proc[p].since}
        /\ rec.pc \notin Touching
    BY <2>3, <2>5, IdleType DEF Touching
  <2> QED  BY <1>3, <1>4, <2>4, <2>5, <2>6, <2>7 DEF Fetches
<1>8. CASE Install(p, s, todo)
  <2> HIDE DEF todo
  <2>1. /\ proc' \in [Processes -> ProcType] /\ Others(p)
        /\ proc'[p].pc = "manifest" /\ proc'[p].op = proc[p].op
        /\ proc'[p].slug = s /\ proc'[p].meta = Known(p, s)
        /\ proc'[p].got = proc[p].got /\ proc'[p].since = proc[p].since
    BY <1>1, <1>6, <1>8, InstallMoves
  <2>2. Write(p, s, Wiped) /\ UNCHANGED <<lock, requirements, packages>>
    BY <1>8 DEF Install
  <2>3. Installs(p, s)
    BY <1>3, <1>5, <1>6, <2>1, <2>2 DEF Installs
  <2> QED  BY <1>6, <2>3
<1> QED  BY <1>2, <1>7, <1>8
\* What all steps of a process that is at a slug have in common.
Slugged(p) ==
  /\ UNCHANGED <<main, cache, etag, index, raced>>
  /\ Others(p) /\ Runs(p) /\ proc' \in [Processes -> ProcType]
  /\ proc[p].pc \in Touching /\ proc[p].slug \in Slugs
  /\ StagedProc(proc'[p])
  /\ proc'[p].got \in {0, proc[p].got} /\ proc'[p].since \in {0, proc[p].since}
  /\ proc'[p].pc \notin {"writecache", "writetag"}

\* It goes on with the slug, or leaves it.
Stage(p, from, to) ==
  /\ proc[p].pc = from /\ proc'[p].pc = to
  /\ proc'[p].op = proc[p].op /\ proc'[p].slug = proc[p].slug
  /\ proc'[p].meta = proc[p].meta
Leaves(p) == proc'[p].pc \in {"idle", "next"}

LEMMA StageMoves ==
  ASSUME Staged, NEW p \in Processes, NEW from \in Touching, At(p, from),
         NEW to \in Touching \ {"delete"}, Go(p, to), UNCHANGED fetching,
         proc[p].op = "remove" => to \in RemovePcs
  PROVE  Slugged(p) /\ Stage(p, from, to) /\ proc'[p].base = proc[p].base
<1>1. proc \in [Processes -> ProcType] /\ StagedProc(proc[p]) /\ to \in Pcs
  BY DEF Staged, TypeOK, Pcs
<1>2. /\ proc' \in [Processes -> ProcType] /\ Others(p)
      /\ proc'[p].pc = to /\ proc'[p].op = proc[p].op
      /\ proc'[p].slug = proc[p].slug /\ proc'[p].meta = proc[p].meta
      /\ proc'[p].got = proc[p].got /\ proc'[p].since = proc[p].since
      /\ proc'[p].base = proc[p].base
  BY <1>1, GoMoves
<1>3. Runs(p) /\ proc[p].pc = from /\ UNCHANGED <<main, cache, etag, index, raced>>
  BY DEF At, fetching
<1>4. proc[p].slug \in Slugs
  BY <1>1, <1>3 DEF StagedProc
<1>5. StagedProc(proc'[p])
  BY <1>1, <1>2, <1>4 DEF StagedProc
<1>6. to \notin {"writecache", "writetag"}
  BY DEF Touching
<1> QED  BY <1>2, <1>3, <1>4, <1>5, <1>6 DEF Slugged, Stage

LEMMA LeaveMoves ==
  ASSUME Staged, NEW p \in Processes, proc[p].pc \in Touching, Runs(p),
         UNCHANGED <<main, cache, etag, index, raced>>,
         End(p) \/ (EndSlug(p) /\ proc[p].op # "remove")
  PROVE  Slugged(p) /\ Leaves(p)
<1>1. proc \in [Processes -> ProcType] /\ StagedProc(proc[p])
  BY DEF Staged, TypeOK
<1>2. proc[p].slug \in Slugs
  BY <1>1 DEF StagedProc
<1>3. CASE End(p)
  BY <1>1, <1>2, <1>3, EndMoves, IdleType DEF Slugged, Leaves
<1>4. CASE EndSlug(p) /\ proc[p].op # "remove"
  <2>1. /\ proc' \in [Processes -> ProcType] /\ Others(p)
        /\ \/ proc'[p] = Idle
           \/ /\ proc'[p].pc = "next" /\ proc'[p].op = proc[p].op
              /\ proc'[p].slug = proc[p].slug /\ proc'[p].meta = proc[p].meta
              /\ proc'[p].got = proc[p].got /\ proc'[p].since = proc[p].since
    BY <1>1, <1>4, EndSlugMoves
  <2>2. StagedProc(proc'[p])
    BY <1>1, <1>4, <2>1, IdleType DEF StagedProc, Touching
  <2> QED  BY <1>2, <2>1, <2>2, IdleType DEF Slugged, Leaves
<1> QED  BY <1>3, <1>4

\* The commands that install; a removal downloads, verifies and loads nothing.
LEMMA NoRemoval ==
  ASSUME Staged, NEW p \in Processes,
         proc[p].pc \in {"manifest", "modules", "verify", "depend", "notify"}
  PROVE  proc[p].op # "remove"
BY DEF Staged, StagedProc, RemovePcs

LEMMA DownloadMoves ==
  ASSUME Staged, NEW p \in Processes, Download(p)
  PROVE  /\ Slugged(p)
         /\ UNCHANGED <<lock, requirements, packages,
                        plugins, attributed, registered, stray, unsettled>>
         /\ \/ /\ Stage(p, "manifest", "modules")
               /\ Write(p, proc[p].slug,
                        [disk[proc[p].slug] EXCEPT !.manifest = Version[proc[p].slug][main]])
            \/ /\ Stage(p, "modules", "verify")
               /\ Write(p, proc[p].slug,
                        [disk[proc[p].slug] EXCEPT !.modules = Version[proc[p].slug][main]])
<1>1. UNCHANGED <<lock, requirements, packages, plugins, attributed, registered, stray,
                  unsettled>> /\ UNCHANGED fetching
  BY DEF Download, engines
<1>2. proc[p].op # "remove"
  BY NoRemoval DEF Download, At
<1>3. {"manifest", "modules", "verify"} \subseteq Touching \ {"delete"}
  BY DEF Touching
<1>4. CASE /\ At(p, "manifest") /\ Go(p, "modules")
           /\ Write(p, proc[p].slug,
                    [disk[proc[p].slug] EXCEPT !.manifest = Version[proc[p].slug][main]])
  <2>1. Slugged(p) /\ Stage(p, "manifest", "modules")
    BY <1>1, <1>2, <1>3, <1>4, StageMoves
  <2> QED  BY <1>1, <1>4, <2>1
<1>5. CASE /\ At(p, "modules") /\ Go(p, "verify")
           /\ Write(p, proc[p].slug,
                    [disk[proc[p].slug] EXCEPT !.modules = Version[proc[p].slug][main]])
  <2>1. Slugged(p) /\ Stage(p, "modules", "verify")
    BY <1>1, <1>2, <1>3, <1>5, StageMoves
  <2> QED  BY <1>1, <1>5, <2>1
<1> QED  BY <1>4, <1>5 DEF Download

LEMMA DownloadFailsMoves ==
  ASSUME Staged, NEW p \in Processes, DownloadFails(p)
  PROVE  /\ Slugged(p) /\ Leaves(p)
         /\ UNCHANGED <<disk, overwritten, lock, requirements, packages,
                        plugins, attributed, registered, stray>>
         /\ unsettled' = unsettled \cup {proc[p].slug}
<1>1. /\ UNCHANGED <<main, cache, etag, index, raced>> /\ Runs(p)
      /\ proc[p].pc \in {"manifest", "modules"} /\ End(p)
      /\ UNCHANGED <<disk, overwritten, lock, requirements, packages,
                     plugins, attributed, registered, stray>>
      /\ unsettled' = unsettled \cup {proc[p].slug}
  BY DEF DownloadFails, At, fetching, files, engines
<1>2. proc[p].pc \in Touching
  BY <1>1 DEF Touching
<1> QED  BY <1>1, <1>2, LeaveMoves

LEMMA VerifyMoves ==
  ASSUME Staged, NEW p \in Processes, Verify(p)
  PROVE  /\ Slugged(p) /\ proc[p].pc = "verify"
         /\ UNCHANGED <<lock, requirements, packages,
                        plugins, attributed, registered, stray>>
         /\ \/ /\ Stage(p, "verify", "depend") /\ UNCHANGED <<disk, overwritten, unsettled>>
               /\ proc[p].slug \in Checksummed => Complete(proc[p].slug, proc[p].meta)
            \/ /\ Leaves(p) /\ Write(p, proc[p].slug, Wiped)
               /\ unsettled' = unsettled \cup {proc[p].slug}
<1>1. /\ UNCHANGED fetching /\ UNCHANGED <<main, cache, etag, index, raced>> /\ Runs(p)
      /\ At(p, "verify") /\ proc[p].pc = "verify"
      /\ UNCHANGED <<lock, requirements, packages, plugins, attributed, registered, stray>>
  BY DEF Verify, At, fetching, engines
<1>2. proc[p].op # "remove" /\ proc[p].pc \in Touching
  BY <1>1, NoRemoval DEF Touching
<1>3. CASE /\ proc[p].slug \in Checksummed => Complete(proc[p].slug, proc[p].meta)
           /\ Go(p, "depend") /\ UNCHANGED <<disk, overwritten, unsettled>>
  <2>1. "verify" \in Touching /\ "depend" \in Touching \ {"delete"}
    BY DEF Touching
  <2>2. Slugged(p) /\ Stage(p, "verify", "depend")
    BY <1>1, <1>2, <1>3, <2>1, StageMoves
  <2> QED  BY <1>1, <1>3, <2>2
<1>4. CASE /\ Write(p, proc[p].slug, Wiped) /\ EndSlug(p)
           /\ unsettled' = unsettled \cup {proc[p].slug}
  BY <1>1, <1>2, <1>4, LeaveMoves
<1> QED  BY <1>3, <1>4 DEF Verify

LEMMA DependMoves ==
  ASSUME Staged, NEW p \in Processes, Depend(p)
  PROVE  /\ Slugged(p) /\ proc[p].pc = "depend"
         /\ UNCHANGED <<disk, overwritten, lock, requirements,
                        plugins, attributed, registered, stray>>
         /\ \/ /\ Stage(p, "depend", "readlock") /\ UNCHANGED unsettled
               /\ packages' = packages \cup Needs[proc[p].slug][proc[p].meta]
            \/ /\ Leaves(p) /\ UNCHANGED packages
               /\ unsettled' = unsettled \cup {proc[p].slug}
<1>1. /\ UNCHANGED fetching /\ UNCHANGED <<main, cache, etag, index, raced>> /\ Runs(p)
      /\ At(p, "depend") /\ proc[p].pc = "depend"
      /\ UNCHANGED <<disk, overwritten, lock, requirements,
                     plugins, attributed, registered, stray>>
  BY DEF Depend, At, fetching, engines
<1>2. proc[p].op # "remove" /\ proc[p].pc \in Touching
  BY <1>1, NoRemoval DEF Touching
<1>3. CASE /\ packages' = packages \cup Needs[proc[p].slug][proc[p].meta]
           /\ Go(p, "readlock") /\ UNCHANGED unsettled
  <2>1. "depend" \in Touching /\ "readlock" \in Touching \ {"delete"}
    BY DEF Touching
  <2>2. Slugged(p) /\ Stage(p, "depend", "readlock")
    BY <1>1, <1>2, <1>3, <2>1, StageMoves
  <2> QED  BY <1>1, <1>3, <2>2
<1>4. CASE /\ EndSlug(p) /\ UNCHANGED packages
           /\ unsettled' = unsettled \cup {proc[p].slug}
  BY <1>1, <1>2, <1>4, LeaveMoves
<1> QED  BY <1>3, <1>4 DEF Depend

LEMMA ReadLockMoves ==
  ASSUME Staged, NEW p \in Processes, ReadLock(p)
  PROVE  /\ Slugged(p) /\ proc[p].pc = "readlock"
         /\ UNCHANGED <<disk, overwritten, lock, requirements, packages,
                        plugins, attributed, registered, stray, unsettled>>
         /\ \/ /\ proc[p].op # "remove" /\ Stage(p, "readlock", "writelock")
               /\ proc'[p].base = lock
            \/ /\ proc[p].op = "remove" /\ Stage(p, "readlock", "delete")
               /\ proc'[p].base = lock
            \/ Leaves(p) /\ lock[proc[p].slug] = 0
<1> DEFINE r1 == [proc[p] EXCEPT !.base = lock]
<1>1. TypeOK /\ proc \in [Processes -> ProcType] /\ StagedProc(proc[p]) /\ proc[p] \in ProcType
  BY DEF Staged, TypeOK
<1>2. /\ UNCHANGED <<main, cache, etag, index, raced>> /\ Runs(p)
      /\ proc[p].pc = "readlock"
      /\ UNCHANGED <<disk, overwritten, lock, requirements, packages,
                     plugins, attributed, registered, stray, unsettled>>
  BY DEF ReadLock, At, fetching, files, engines
<1>3. proc[p].pc \in Touching /\ proc[p].slug \in Slugs
  BY <1>1, <1>2 DEF StagedProc, Touching
<1>4. /\ r1 \in ProcType /\ r1.op = proc[p].op /\ r1.slug = proc[p].slug
      /\ r1.meta = proc[p].meta /\ r1.got = proc[p].got /\ r1.since = proc[p].since
      /\ r1.base = lock
  <2>1. lock \in [Slugs -> Versions]
    BY <1>1 DEF TypeOK
  <2> QED  BY <1>1, <2>1 DEF ProcType
<1>5. proc' = [proc EXCEPT ![p] =
         IF proc[p].op # "remove" THEN [r1 EXCEPT !.pc = "writelock"]
         ELSE IF lock[proc[p].slug] = 0 THEN Idle ELSE [r1 EXCEPT !.pc = "delete"]]
  BY DEF ReadLock
<1> HIDE DEF r1
<1>6. ASSUME NEW pc \in {"writelock", "delete"}, pc = "delete" => proc[p].op = "remove",
             pc = "writelock" => proc[p].op # "remove",
             proc' = [proc EXCEPT ![p] = [r1 EXCEPT !.pc = pc]]
      PROVE  Slugged(p) /\ Stage(p, "readlock", pc) /\ proc'[p].base = lock
  <2> DEFINE rec == [r1 EXCEPT !.pc = pc]
  <2>1. pc \in Pcs /\ pc \in Touching
    BY DEF Pcs, Holding, Touching
  <2>2. /\ rec \in ProcType /\ rec.pc = pc /\ rec.op = proc[p].op /\ rec.slug = proc[p].slug
        /\ rec.meta = proc[p].meta /\ rec.got = proc[p].got /\ rec.since = proc[p].since
        /\ rec.base = lock
    BY <1>4, <2>1 DEF ProcType
  <2>3. proc' = [proc EXCEPT ![p] = rec]
    BY <1>6
  <2> HIDE DEF rec
  <2>4. proc' \in [Processes -> ProcType] /\ proc'[p] = rec /\ Others(p)
    BY <1>1, <2>2, <2>3, Put
  <2>5. StagedProc(rec)
    BY <1>1, <1>3, <1>6, <2>1, <2>2 DEF StagedProc, RemovePcs
  <2>6. pc \notin {"writecache", "writetag"}
    OBVIOUS
  <2> QED  BY <1>2, <1>3, <2>2, <2>4, <2>5, <2>6 DEF Slugged, Stage
<1>7. CASE proc[p].op # "remove"
  <2>1. proc' = [proc EXCEPT ![p] = [r1 EXCEPT !.pc = "writelock"]]
    BY <1>5, <1>7
  <2> QED  BY <1>2, <1>6, <1>7, <2>1
<1>8. CASE proc[p].op = "remove" /\ lock[proc[p].slug] # 0
  <2>1. proc' = [proc EXCEPT ![p] = [r1 EXCEPT !.pc = "delete"]]
    BY <1>5, <1>8
  <2> QED  BY <1>2, <1>6, <1>8, <2>1
<1>9. CASE proc[p].op = "remove" /\ lock[proc[p].slug] = 0
  <2>1. End(p)
    BY <1>5, <1>9 DEF End
  <2> QED  BY <1>2, <1>3, <1>9, <2>1, LeaveMoves
<1> QED  BY <1>7, <1>8, <1>9

LEMMA DeleteMoves ==
  ASSUME Staged, NEW p \in Processes, Delete(p)
  PROVE  /\ Slugged(p) /\ Stage(p, "delete", "writelock") /\ proc[p].op = "remove"
         /\ Write(p, proc[p].slug, Wiped)
         /\ UNCHANGED <<lock, requirements, packages,
                        plugins, attributed, registered, stray, unsettled>>
<1>1. /\ UNCHANGED fetching /\ At(p, "delete") /\ Go(p, "writelock") /\ proc[p].pc = "delete"
      /\ Write(p, proc[p].slug, Wiped)
      /\ UNCHANGED <<lock, requirements, packages,
                     plugins, attributed, registered, stray, unsettled>>
  BY DEF Delete, At, engines
<1>2. proc[p].op = "remove"
  BY <1>1 DEF Staged, StagedProc
<1>3. "delete" \in Touching /\ "writelock" \in Touching \ {"delete"} /\ "writelock" \in RemovePcs
  BY DEF Touching, RemovePcs
<1> QED  BY <1>1, <1>2, <1>3, StageMoves

LEMMA WriteLockMoves ==
  ASSUME Staged, NEW p \in Processes, WriteLock(p)
  PROVE  /\ Slugged(p) /\ Stage(p, "writelock", "require")
         /\ lock' = [proc[p].base EXCEPT ![proc[p].slug] = proc[p].meta]
         /\ proc'[p].base = lock'
         /\ overwritten' = (overwritten \/ lock # proc[p].base)
         /\ unsettled' = unsettled \ {proc[p].slug}
         /\ UNCHANGED <<disk, requirements, packages, plugins, attributed, registered, stray>>
         /\ lock' \in [Slugs -> Versions]
<1> DEFINE s == proc[p].slug
           new == [proc[p].base EXCEPT ![s] = proc[p].meta]
           r1 == [proc[p] EXCEPT !.pc = "require"]
           rec == [r1 EXCEPT !.base = new]
<1>1. proc \in [Processes -> ProcType] /\ StagedProc(proc[p]) /\ proc[p] \in ProcType
  BY DEF Staged, TypeOK
<1>2. /\ UNCHANGED <<main, cache, etag, index, raced>> /\ Runs(p)
      /\ proc[p].pc = "writelock" /\ lock' = new
      /\ overwritten' = (overwritten \/ lock # proc[p].base)
      /\ unsettled' = unsettled \ {s}
      /\ UNCHANGED <<disk, requirements, packages, plugins, attributed, registered, stray>>
  BY DEF WriteLock, At, fetching, engines
<1>3. proc[p].pc \in Touching /\ s \in Slugs
  BY <1>1, <1>2 DEF StagedProc, Touching
<1>4. new \in [Slugs -> Versions]
  BY <1>1 DEF ProcType
<1>5. proc' = [proc EXCEPT ![p] = rec]
  <2>1. proc' = [proc EXCEPT ![p].pc = "require", ![p].base = new]
    BY DEF WriteLock
  <2> HIDE DEF new
  <2> QED  BY <1>1, <2>1 DEF ProcType
<1> HIDE DEF new
<1>6. /\ r1 \in ProcType /\ r1.pc = "require" /\ r1.op = proc[p].op /\ r1.slug = s
      /\ r1.meta = proc[p].meta /\ r1.got = proc[p].got /\ r1.since = proc[p].since
  BY <1>1 DEF ProcType, Pcs, Holding
<1> HIDE DEF r1
<1>7. /\ rec \in ProcType /\ rec.pc = "require" /\ rec.op = proc[p].op /\ rec.slug = s
      /\ rec.meta = proc[p].meta /\ rec.got = proc[p].got /\ rec.since = proc[p].since
      /\ rec.base = new
  BY <1>4, <1>6 DEF ProcType
<1> HIDE DEF rec
<1>8. proc' \in [Processes -> ProcType] /\ proc'[p] = rec /\ Others(p)
  BY <1>1, <1>5, <1>7, Put
<1>9. StagedProc(rec)
  BY <1>1, <1>3, <1>7 DEF StagedProc, RemovePcs
<1>10. Slugged(p) /\ Stage(p, "writelock", "require") /\ proc'[p].base = lock'
  BY <1>2, <1>3, <1>7, <1>8, <1>9 DEF Slugged, Stage
<1> QED  BY <1>2, <1>4, <1>10 DEF new

LEMMA RequireMoves ==
  ASSUME Staged, NEW p \in Processes, Require(p)
  PROVE  /\ Slugged(p) /\ proc[p].pc = "require"
         /\ requirements' = Required(proc[p].base)
         /\ overwritten' = (overwritten \/ lock # proc[p].base)
         /\ UNCHANGED <<disk, lock, packages, plugins, attributed, registered, stray, unsettled>>
         /\ \/ Stage(p, "require", "audit") \/ Stage(p, "require", "notify")
            \/ Leaves(p) /\ proc[p].op = "remove"
<1>1. /\ UNCHANGED fetching /\ UNCHANGED <<main, cache, etag, index, raced>> /\ Runs(p)
      /\ At(p, "require") /\ proc[p].pc = "require"
      /\ requirements' = Required(proc[p].base)
      /\ overwritten' = (overwritten \/ lock # proc[p].base)
      /\ UNCHANGED <<disk, lock, packages, plugins, attributed, registered, stray, unsettled>>
  BY DEF Require, At, fetching, engines
<1>2. {"require", "audit", "notify"} \subseteq Touching \ {"delete"} /\ "audit" \in RemovePcs
  BY DEF Touching, RemovePcs
<1>3. CASE Go(p, "audit")
  <2>1. Slugged(p) /\ Stage(p, "require", "audit")
    BY <1>1, <1>2, <1>3, StageMoves
  <2> QED  BY <1>1, <2>1
<1>4. CASE Go(p, "notify") /\ proc[p].op # "remove"
  <2>1. Slugged(p) /\ Stage(p, "require", "notify")
    BY <1>1, <1>2, <1>4, StageMoves
  <2> QED  BY <1>1, <2>1
<1>5. CASE End(p) /\ proc[p].op = "remove"
  BY <1>1, <1>2, <1>5, LeaveMoves
<1> QED  BY <1>3, <1>4, <1>5 DEF Require

LEMMA AuditMoves ==
  ASSUME Staged, NEW p \in Processes, Audit(p)
  PROVE  /\ Slugged(p) /\ Leaves(p) /\ proc[p].pc = "audit"
         /\ UNCHANGED <<disk, overwritten, lock, requirements, packages>>
         /\ \/ /\ unsettled' = unsettled \cup {proc[p].slug}
               /\ UNCHANGED <<plugins, attributed, registered, stray>>
            \/ /\ proc[p].op = "remove" /\ UNCHANGED unsettled
               /\ UNCHANGED <<plugins, attributed, registered, stray>>
            \/ /\ proc[p].op # "remove" /\ UNCHANGED unsettled
               /\ ReloadRuntime(proc[p].slug)
<1>1. /\ UNCHANGED <<main, cache, etag, index, raced>> /\ Runs(p)
      /\ proc[p].pc = "audit" /\ End(p)
      /\ UNCHANGED <<disk, overwritten, lock, requirements, packages>>
      /\ \/ /\ unsettled' = unsettled \cup {proc[p].slug}
            /\ UNCHANGED <<plugins, attributed, registered, stray>>
         \/ /\ proc[p].op = "remove" /\ UNCHANGED unsettled
            /\ UNCHANGED <<plugins, attributed, registered, stray>>
         \/ /\ proc[p].op # "remove" /\ UNCHANGED unsettled
            /\ ReloadRuntime(proc[p].slug)
  BY DEF Audit, At, fetching, files, engines
<1>2. proc[p].pc \in Touching
  BY <1>1 DEF Touching
<1>3. Slugged(p) /\ Leaves(p)
  BY <1>1, <1>2, LeaveMoves
<1> QED  BY <1>1, <1>3

LEMMA NotifyMoves ==
  ASSUME Staged, NEW p \in Processes, Notify(p)
  PROVE  /\ Slugged(p) /\ Leaves(p) /\ proc[p].pc = "notify" /\ proc[p].op # "remove"
         /\ UNCHANGED <<disk, overwritten, lock, requirements, packages>>
         /\ \/ /\ unsettled' = unsettled \cup {proc[p].slug}
               /\ UNCHANGED <<plugins, attributed, registered, stray>>
            \/ /\ Reload(proc[p].slug)
               /\ unsettled' = IF plugins[proc[p].slug] # 0 THEN unsettled
                               ELSE unsettled \cup {proc[p].slug}
<1>1. /\ UNCHANGED <<main, cache, etag, index, raced>> /\ Runs(p)
      /\ proc[p].pc = "notify" /\ EndSlug(p)
      /\ UNCHANGED <<disk, overwritten, lock, requirements, packages>>
      /\ \/ /\ unsettled' = unsettled \cup {proc[p].slug}
            /\ UNCHANGED <<plugins, attributed, registered, stray>>
         \/ /\ Reload(proc[p].slug)
            /\ unsettled' = IF plugins[proc[p].slug] # 0 THEN unsettled
                            ELSE unsettled \cup {proc[p].slug}
  BY DEF Notify, At, fetching, files, engines
<1>2. proc[p].pc \in Touching /\ proc[p].op # "remove"
  BY <1>1, NoRemoval DEF Touching
<1>3. Slugged(p) /\ Leaves(p)
  BY <1>1, <1>2, LeaveMoves
<1> QED  BY <1>1, <1>2, <1>3
-----------------------------------------------------------------------------
(* Types and stages. *)

Packages == UNION {Needs[s][v] : s \in Slugs, v \in Versions}

FileTypes ==
  /\ disk \in [Slugs -> [manifest : Versions, modules : Versions]]
  /\ lock \in [Slugs -> Versions]
  /\ requirements \subseteq Packages /\ packages \subseteq Packages
  /\ overwritten \in BOOLEAN /\ unsettled \subseteq Slugs

EngineTypes ==
  /\ plugins \in [Slugs -> Versions] /\ attributed \in [Slugs -> SUBSET Names]
  /\ registered \in [Names -> {None} \cup [by : Slugs \cup {None}, version : Versions]]
  /\ stray \subseteq Names

LEMMA TypeParts ==
  TypeOK <=> IndexTypes /\ FileTypes /\ EngineTypes /\ proc \in [Processes -> ProcType]
BY DEF TypeOK, IndexTypes, FileTypes, EngineTypes, Packages

LEMMA RequiredType ==
  ASSUME NEW locked \in [Slugs -> Versions]
  PROVE  /\ Required(locked) \subseteq Packages
         /\ \A s \in Slugs : Needs[s][locked[s]] \subseteq Required(locked)
<1>1. ASSUME NEW x \in Required(locked)  PROVE x \in Packages
  <2>1. PICK s \in Slugs : x \in Needs[s][locked[s]]
    BY DEF Required
  <2>2. locked[s] \in Versions
    OBVIOUS
  <2> QED  BY <2>1, <2>2 DEF Packages
<1>2. \A s \in Slugs : Needs[s][locked[s]] \subseteq Required(locked)
  BY DEF Required
<1> QED  BY <1>1, <1>2

LEMMA NeedsType ==
  ASSUME NEW s \in Slugs, NEW v \in Versions
  PROVE  Needs[s][v] \subseteq Packages
BY DEF Packages

LEMMA WriteTypes ==
  ASSUME FileTypes, NEW p \in Processes, NEW s \in Slugs,
         NEW content \in [manifest : Versions, modules : Versions], Write(p, s, content)
  PROVE  /\ disk' \in [Slugs -> [manifest : Versions, modules : Versions]]
         /\ overwritten' \in BOOLEAN
         /\ disk'[s] = content /\ \A x \in Slugs \ {s} : disk'[x] = disk[x]
         /\ overwritten => overwritten'
BY DEF Write, FileTypes

LEMMA WipedType == Wiped \in [manifest : Versions, modules : Versions]
BY PluginsAssumption DEF Wiped, Versions

LEMMA LoadedType ==
  ASSUME FileTypes, NEW s \in Slugs
  PROVE  Loaded(s) \subseteq Names /\ disk[s].modules \in Versions
         /\ disk[s].manifest \in Versions
BY PluginsAssumption DEF Loaded, FileTypes

LEMMA OwnerType ==
  ASSUME NEW s \in Slugs \cup {None}, NEW v \in Versions
  PROVE  /\ Owner(s, v) \in [by : Slugs \cup {None}, version : Versions]
         /\ Owner(s, v).by = s /\ Owner(s, v).version = v
BY DEF Owner

LEMMA ReregisterTypes ==
  ASSUME FileTypes, EngineTypes, NEW s \in Slugs, Reregister(s)
  PROVE  registered' \in [Names -> {None} \cup [by : Slugs \cup {None}, version : Versions]]
<1>1. Owner(s, disk[s].modules) \in [by : Slugs \cup {None}, version : Versions]
  BY LoadedType, OwnerType
<1>2. \A n \in Names : registered[n] \in {None} \cup [by : Slugs \cup {None}, version : Versions]
  BY DEF EngineTypes
<1>3. registered' = [n \in Names |->
          IF n \in Loaded(s) THEN Owner(s, disk[s].modules)
          ELSE IF n \in attributed[s] THEN None ELSE registered[n]]
  BY DEF Reregister
<1> QED  BY <1>1, <1>2, <1>3

LEMMA ReloadTypes ==
  ASSUME FileTypes, EngineTypes, NEW s \in Slugs, ReloadRuntime(s) \/ Reload(s)
  PROVE  EngineTypes'
<1>1. Loaded(s) \subseteq Names /\ disk[s].manifest \in Versions
  BY LoadedType
<1>2. Reregister(s)
  BY DEF ReloadRuntime, Reload
<1>3. registered' \in [Names -> {None} \cup [by : Slugs \cup {None}, version : Versions]]
  BY <1>2, ReregisterTypes
<1>4. attributed' \in [Slugs -> SUBSET Names]
  <2>1. attributed' = [attributed EXCEPT ![s] = Loaded(s)] \/ attributed' = attributed
    BY DEF ReloadRuntime, Reload
  <2> QED  BY <1>1, <2>1 DEF EngineTypes
<1>5. plugins' \in [Slugs -> Versions]
  <2>1. plugins' = plugins
        \/ plugins' = [plugins EXCEPT ![s] = IF disk[s].manifest # 0 THEN disk[s].manifest
                                             ELSE plugins[s]]
    BY DEF ReloadRuntime, Reload
  <2> QED  BY <1>1, <2>1 DEF EngineTypes
<1>6. stray' \subseteq Names
  <2>1. stray' = stray \ Loaded(s) \/ stray' = stray \cup Loaded(s)
    BY DEF ReloadRuntime, Reload
  <2> QED  BY <1>1, <2>1 DEF EngineTypes
<1> QED  BY <1>3, <1>4, <1>5, <1>6 DEF EngineTypes

\* What a server that starts has in memory.
LEMMA StartFacts ==
  ASSUME FileTypes
  PROVE  /\ StartAttribution \in [Slugs -> SUBSET Names]
         /\ StartRegistry \in [Names -> {None} \cup [by : Slugs \cup {None}, version : Versions]]
         /\ \A s \in Slugs : StartAttribution[s] = IF disk[s].manifest # 0 THEN Loaded(s) ELSE {}
         /\ \A n \in Names : StartRegistry[n] # None /\ StartRegistry[n].by # None =>
              /\ n \in StartAttribution[StartRegistry[n].by]
              /\ StartRegistry[n].by \in Slugs
              /\ StartRegistry[n].version = disk[StartRegistry[n].by].modules
<1>1. \A s \in Slugs : StartAttribution[s] = IF disk[s].manifest # 0 THEN Loaded(s) ELSE {}
  BY DEF StartAttribution, Found
<1>2. StartAttribution \in [Slugs -> SUBSET Names]
  BY LoadedType DEF StartAttribution
<1>3. BuiltIn \in [by : Slugs \cup {None}, version : Versions] /\ BuiltIn.by = None
  <2>1. 0 \in Versions
    BY PluginsAssumption DEF Versions
  <2> QED  BY <2>1, OwnerType DEF BuiltIn
<1>4. ASSUME NEW n \in Names
      PROVE  /\ StartRegistry[n] \in {None} \cup [by : Slugs \cup {None}, version : Versions]
             /\ StartRegistry[n] # None /\ StartRegistry[n].by # None =>
                  /\ n \in StartAttribution[StartRegistry[n].by]
                  /\ StartRegistry[n].by \in Slugs
                  /\ StartRegistry[n].version = disk[StartRegistry[n].by].modules
  <2> DEFINE from == {s \in Found : n \in Loaded(s)}
             last == CHOOSE s \in from : TRUE
  <2>1. StartRegistry[n] = IF from # {} THEN Owner(last, disk[last].modules)
                           ELSE IF n \in BuiltIns THEN BuiltIn ELSE None
    BY DEF StartRegistry
  <2>2. from # {} => last \in from
    OBVIOUS
  <2>3. from \subseteq Slugs /\ \A s \in from : n \in StartAttribution[s]
    BY <1>1 DEF Found
  <2> HIDE DEF from, last
  <2>4. CASE from # {}
    <3>1. last \in Slugs /\ n \in StartAttribution[last]
      BY <2>2, <2>3, <2>4
    <3>2. /\ Owner(last, disk[last].modules) \in [by : Slugs \cup {None}, version : Versions]
          /\ Owner(last, disk[last].modules).by = last
          /\ Owner(last, disk[last].modules).version = disk[last].modules
      BY <3>1, LoadedType, OwnerType
    <3> QED  BY <2>1, <2>4, <3>1, <3>2
  <2>5. CASE from = {}
    BY <1>3, <2>1, <2>5
  <2> QED  BY <2>4, <2>5
<1>5. StartRegistry = [n \in Names |-> StartRegistry[n]]
  BY DEF StartRegistry
<1>6. StartRegistry \in [Names -> {None} \cup [by : Slugs \cup {None}, version : Versions]]
  BY <1>4, <1>5
<1> QED  BY <1>1, <1>2, <1>4, <1>6

LEMMA LoadAllTypes ==
  ASSUME FileTypes, LoadAll
  PROVE  EngineTypes'
<1>1. \A s \in Slugs : disk[s].manifest \in Versions
  BY LoadedType
<1>2. /\ plugins' = [s \in Slugs |-> disk[s].manifest] /\ attributed' = StartAttribution
      /\ registered' = StartRegistry /\ stray' = {}
  BY DEF LoadAll
<1> QED  BY <1>1, <1>2, StartFacts DEF EngineTypes
\* What a crash leaves.
LEMMA KilledMoves ==
  ASSUME Staged, NEW Q \in SUBSET Processes, Killed(Q)
  PROVE  /\ proc' \in [Processes -> ProcType]
         /\ \A p \in Processes : proc'[p] = IF p \in Q THEN Idle ELSE proc[p]
         /\ UNCHANGED <<main, etag, disk, overwritten>>
         /\ unsettled \subseteq unsettled' /\ unsettled' \subseteq Slugs
         /\ \A p \in Q : proc[p].pc \in Touching => proc[p].slug \in unsettled'
         /\ \/ cache' = cache
            \/ cache' = Unreadable /\ \E q \in Q : proc[q].pc = "writecache"
         /\ lock' = lock \/ lock' = Idle.base
         /\ lock' \in [Slugs -> Versions]
         /\ raced' \in BOOLEAN
         /\ cache' \in -1 .. MaxRevision
<1>1. TypeOK /\ \A p \in Processes : StagedProc(proc[p])
  BY DEF Staged
<1>2. proc' = [p \in Processes |-> IF p \in Q THEN Idle ELSE proc[p]]
  BY DEF Killed
<1>3. proc' \in [Processes -> ProcType]
  BY <1>1, <1>2, IdleType DEF TypeOK
<1>4. UNCHANGED <<main, etag, disk, overwritten>>
  BY DEF Killed
<1> DEFINE left == {proc[p].slug : p \in {q \in Q : proc[q].pc \in Touching}}
<1>5. unsettled' = unsettled \cup left
  BY DEF Killed
<1>6. left \subseteq Slugs
  BY <1>1 DEF StagedProc
<1>7. \A p \in Q : proc[p].pc \in Touching => proc[p].slug \in left
  OBVIOUS
<1>8. unsettled' \subseteq Slugs
  BY <1>1, <1>5, <1>6 DEF TypeOK
<1>9. \/ cache' = cache
      \/ cache' = Unreadable /\ \E q \in Q : proc[q].pc = "writecache"
  BY DEF Killed
<1>10. lock' = lock \/ lock' = Idle.base
  BY DEF Killed
<1>11. Idle.base \in [Slugs -> Versions]
  BY IdleType DEF ProcType
<1>12. raced' \in BOOLEAN
  BY <1>1 DEF Killed, Crossing, TypeOK
<1>13. cache' \in -1 .. MaxRevision
  BY <1>1, <1>9, PluginsAssumption DEF TypeOK, Unreadable
<1>14. lock' \in [Slugs -> Versions]
  BY <1>1, <1>10, <1>11 DEF TypeOK
<1> QED  BY <1>2, <1>3, <1>4, <1>5, <1>7, <1>8, <1>9, <1>10, <1>12, <1>13, <1>14

LEMMA CliDiesMoves ==
  ASSUME Staged, NEW p \in Clis, CliDies(p)
  PROVE  /\ Killed({p}) /\ UNCHANGED <<index, packages, plugins, attributed, registered, stray>>
         /\ requirements' \in {requirements, {}}
BY DEF CliDies, engines

LEMMA BootMoves ==
  ASSUME Staged, Boot
  PROVE  \E fresh \in BOOLEAN :
           LET Q == IF fresh THEN Processes ELSE Tasks IN
           /\ Killed(Q) /\ LoadAll
           /\ index' = [index EXCEPT ![Server] = Absent]
           /\ requirements' = Required(lock')
                \/ (requirements' = requirements /\ requirements # {})
           /\ packages' = IF fresh THEN requirements' ELSE packages \cup requirements'
<1>1. PICK fresh \in BOOLEAN :
        LET Q    == IF fresh THEN Processes ELSE Tasks
            left == {requirements} \cup {{} : q \in {t \in Q : proc[t].pc = "require"}}
        IN /\ Killed(Q)
           /\ index' = [index EXCEPT ![Server] = Absent]
           /\ \E kept \in left : requirements' = IF kept = {} THEN Required(lock') ELSE kept
           /\ packages' = IF fresh THEN requirements' ELSE packages \cup requirements'
           /\ LoadAll
  BY DEF Boot
<1> DEFINE Q == IF fresh THEN Processes ELSE Tasks
           left == {requirements} \cup {{} : q \in {t \in Q : proc[t].pc = "require"}}
<1>2. PICK kept \in left : requirements' = IF kept = {} THEN Required(lock') ELSE kept
  BY <1>1
<1>3. kept = requirements \/ kept = {}
  OBVIOUS
<1>4. requirements' = Required(lock')
         \/ (requirements' = requirements /\ requirements # {})
  <2> HIDE DEF left
  <2> QED  BY <1>2, <1>3
<1> QED  BY <1>1, <1>4

\* All steps, by kind.
LEMMA Kinds ==
  ASSUME Staged, Next
  PROVE  \/ Publish
         \/ \E p \in Processes :
              \/ Fetches(p) \/ \E s \in Slugs : Installs(p, s)
              \/ Download(p) \/ DownloadFails(p) \/ Verify(p) \/ Depend(p)
              \/ ReadLock(p) \/ Delete(p) \/ WriteLock(p) \/ Require(p)
              \/ Audit(p) \/ Notify(p)
         \/ \E p \in Clis : CliDies(p)
         \/ \E s \in Slugs : AdminReload(s)
         \/ Boot
<1>1. Tasks \subseteq Processes /\ Clis \subseteq Processes
  BY DEF Processes
<1>2. ASSUME NEW p \in Processes,
             \/ Begin(p, "browse", None)
             \/ \E op \in {"install", "update", "remove"}, s \in Slugs : Begin(p, op, s)
             \/ Begin(p, "all", None)
      PROVE  Fetches(p)
  <2>1. CASE Begin(p, "browse", None)
    BY <2>1, BeginFetches
  <2>2. CASE Begin(p, "all", None)
    BY <2>2, BeginFetches
  <2>3. ASSUME NEW op \in {"install", "update", "remove"}, NEW s \in Slugs, Begin(p, op, s)
        PROVE  Fetches(p)
    BY <2>3, BeginFetches
  <2> QED  BY <1>2, <2>1, <2>2, <2>3
<1>3. ASSUME NEW p \in Processes,
             \/ UseCache(p) \/ Request(p) \/ NotModified(p) \/ FetchFails(p) \/ Fetched(p)
             \/ WriteCache(p) \/ WriteTag(p)
      PROVE  Fetches(p)
  BY <1>3, AnswerFetches, RequestFetches, FetchedFetches, CacheFetches
<1>4. ASSUME NEW p \in Processes, Check(p) \/ NextUpdate(p)
      PROVE  Fetches(p) \/ \E s \in Slugs : Installs(p, s)
  BY <1>4, CheckKinds, NextKinds
<1> QED  BY <1>1, <1>2, <1>3, <1>4 DEF Next

LEMMA StagedOthers ==
  ASSUME Staged, NEW p \in Processes, Others(p), StagedProc(proc'[p])
  PROVE  \A q \in Processes : StagedProc(proc'[q])
BY DEF Staged, Others

LEMMA StagedInit == Init => Staged
<1> SUFFICES ASSUME Init  PROVE Staged
  OBVIOUS
<1>1. /\ main = 1 /\ cache = Absent /\ etag = Absent
      /\ index = [h \in Clis \cup {Server} |-> Absent] /\ raced = FALSE
  BY DEF Init
<1>2. IndexTypes
  <2>1. 1 \in Revisions /\ 0 \in 0 .. MaxRevision /\ 0 \in -1 .. MaxRevision
    BY PluginsAssumption DEF Revisions
  <2>2. index \in [Clis \cup {Server} -> 0 .. MaxRevision]
    BY <1>1, <2>1 DEF Absent
  <2>3. main \in Revisions /\ cache \in -1 .. MaxRevision /\ etag \in 0 .. MaxRevision
        /\ raced \in BOOLEAN
    BY <1>1, <2>1 DEF Absent
  <2> QED  BY <2>2, <2>3 DEF IndexTypes
<1>3. lock \in [Slugs -> Versions]
  <2>1. PICK S \in SUBSET (Slugs \ Bundled) : lock = [s \in Slugs |-> IF s \in S THEN Version[s][1] ELSE 0]
    BY DEF Init
  <2>2. \A s \in Slugs : Version[s][1] \in Versions /\ 0 \in Versions
    BY PluginsAssumption DEF Revisions, Versions
  <2> QED  BY <2>1, <2>2
<1>4. disk = [s \in Slugs |-> [manifest |-> lock[s], modules |-> lock[s]]]
      /\ requirements = Required(lock) /\ packages = requirements
      /\ overwritten = FALSE /\ unsettled = {}
  BY DEF Init
<1>5. FileTypes
  BY <1>3, <1>4, RequiredType DEF FileTypes
<1>6. EngineTypes
  <2>1. plugins = lock /\ attributed = StartAttribution /\ registered = StartRegistry
        /\ stray = {}
    BY DEF Init
  <2> QED  BY <1>3, <1>5, <2>1, StartFacts DEF EngineTypes
<1>7. proc = [p \in Processes |-> Idle]
  BY DEF Init
<1> QED  BY <1>2, <1>5, <1>6, <1>7, IdleType, TypeParts DEF Staged

LEMMA StagedNext == Staged /\ [Next]_vars => Staged'
<1> SUFFICES ASSUME Staged, [Next]_vars  PROVE Staged'
  OBVIOUS
<1>1. /\ IndexTypes /\ FileTypes /\ EngineTypes /\ proc \in [Processes -> ProcType]
      /\ \A p \in Processes : StagedProc(proc[p])
  BY TypeParts DEF Staged
<1>2. TypeOK' <=> IndexTypes' /\ FileTypes' /\ EngineTypes' /\ proc' \in [Processes -> ProcType]
  BY DEF TypeOK, IndexTypes, FileTypes, EngineTypes, Packages
<1>3. CASE UNCHANGED vars
  <2>1. UNCHANGED <<main, cache, etag, index, disk, lock, requirements, packages,
                    plugins, attributed, registered, proc, unsettled, overwritten, raced, stray>>
    BY <1>3 DEF vars
  <2>2. IndexTypes' /\ FileTypes' /\ EngineTypes'
    BY <1>1, <2>1 DEF IndexTypes, FileTypes, EngineTypes
  <2> QED  BY <1>1, <1>2, <2>1, <2>2 DEF Staged
<1>4. CASE Publish
  <2>1. /\ main < MaxRevision /\ main' = main + 1
        /\ UNCHANGED <<cache, etag, index, disk, lock, requirements, packages,
                       plugins, attributed, registered, proc, unsettled, overwritten, raced, stray>>
    BY <1>4 DEF Publish, files, engines
  <2>2. IndexTypes'
    BY <1>1, <2>1, PluginsAssumption DEF IndexTypes, Revisions
  <2>3. FileTypes' /\ EngineTypes'
    BY <1>1, <2>1 DEF FileTypes, EngineTypes
  <2> QED  BY <1>1, <1>2, <2>1, <2>2, <2>3 DEF Staged
<1>5. ASSUME NEW p \in Processes, Fetches(p)  PROVE Staged'
  <2>1. FileTypes' /\ EngineTypes'
    BY <1>1, <1>5 DEF Fetches, FileTypes, EngineTypes
  <2>2. IndexTypes' /\ proc' \in [Processes -> ProcType]
    BY <1>5 DEF Fetches
  <2>3. \A q \in Processes : StagedProc(proc'[q])
    BY <1>5, StagedOthers DEF Fetches
  <2> QED  BY <1>2, <2>1, <2>2, <2>3 DEF Staged
\* The steps of a process at a slug, or about to be.
<1>6. ASSUME NEW p \in Processes, Slugged(p), FileTypes', EngineTypes'
      PROVE  Staged'
  <2>1. IndexTypes'
    BY <1>1, <1>6 DEF Slugged, IndexTypes
  <2>2. \A q \in Processes : StagedProc(proc'[q])
    BY <1>6, StagedOthers DEF Slugged
  <2>3. proc' \in [Processes -> ProcType]
    BY <1>6 DEF Slugged
  <2> QED  BY <1>2, <1>6, <2>1, <2>2, <2>3 DEF Staged
<1>7. ASSUME UNCHANGED <<plugins, attributed, registered, stray>>
      PROVE  EngineTypes'
  BY <1>1, <1>7 DEF EngineTypes
<1>8. ASSUME NEW p \in Processes, NEW s \in Slugs, Installs(p, s)  PROVE Staged'
  <2>1. FileTypes'
    <3>1. /\ disk' \in [Slugs -> [manifest : Versions, modules : Versions]]
          /\ overwritten' \in BOOLEAN
      BY <1>1, <1>8, WriteTypes, WipedType DEF Installs
    <3> QED  BY <1>1, <1>8, <3>1 DEF FileTypes, Installs
  <2>2. IndexTypes' /\ EngineTypes'
    BY <1>1, <1>8 DEF Installs, IndexTypes, EngineTypes
  <2>3. StagedProc(proc'[p])
    BY <1>8 DEF Installs, StagedProc
  <2>4. \A q \in Processes : StagedProc(proc'[q])
    BY <1>8, <2>3, StagedOthers DEF Installs
  <2>5. proc' \in [Processes -> ProcType]
    BY <1>8 DEF Installs
  <2> QED  BY <1>2, <2>1, <2>2, <2>4, <2>5 DEF Staged
<1>9. ASSUME NEW p \in Processes, Download(p)  PROVE Staged'
  <2> DEFINE s == proc[p].slug
  <2>1. /\ Slugged(p) /\ s \in Slugs /\ EngineTypes'
        /\ UNCHANGED <<lock, requirements, packages, unsettled>>
        /\ \/ Write(p, s, [disk[s] EXCEPT !.manifest = Version[s][main]])
           \/ Write(p, s, [disk[s] EXCEPT !.modules = Version[s][main]])
    BY <1>7, <1>9, DownloadMoves DEF Slugged
  <2>2. Version[s][main] \in Versions
    BY <1>1, <2>1, PluginsAssumption DEF IndexTypes
  <2> HIDE DEF s
  <2>3. /\ [disk[s] EXCEPT !.manifest = Version[s][main]] \in [manifest : Versions, modules : Versions]
        /\ [disk[s] EXCEPT !.modules = Version[s][main]] \in [manifest : Versions, modules : Versions]
    BY <1>1, <2>1, <2>2 DEF FileTypes
  <2>4. /\ disk' \in [Slugs -> [manifest : Versions, modules : Versions]]
        /\ overwritten' \in BOOLEAN
    BY <1>1, <2>1, <2>3, WriteTypes
  <2>5. FileTypes'
    BY <1>1, <2>1, <2>4 DEF FileTypes
  <2> QED  BY <1>6, <2>1, <2>5
<1>10. ASSUME NEW p \in Processes, DownloadFails(p)  PROVE Staged'
  <2>1. Slugged(p) /\ EngineTypes'
    BY <1>7, <1>10, DownloadFailsMoves
  <2>2. FileTypes'
    BY <1>1, <1>10, <2>1, DownloadFailsMoves DEF FileTypes, Slugged
  <2> QED  BY <1>6, <2>1, <2>2
<1>11. ASSUME NEW p \in Processes, Verify(p)  PROVE Staged'
  <2>1. /\ Slugged(p) /\ EngineTypes' /\ proc[p].slug \in Slugs
        /\ UNCHANGED <<lock, requirements, packages>>
        /\ unsettled' \subseteq unsettled \cup {proc[p].slug}
        /\ UNCHANGED <<disk, overwritten>> \/ Write(p, proc[p].slug, Wiped)
    BY <1>7, <1>11, VerifyMoves DEF Slugged
  <2>2. /\ disk' \in [Slugs -> [manifest : Versions, modules : Versions]]
        /\ overwritten' \in BOOLEAN
    BY <1>1, <2>1, WriteTypes, WipedType DEF FileTypes
  <2>3. FileTypes'
    BY <1>1, <2>1, <2>2 DEF FileTypes
  <2> QED  BY <1>6, <2>1, <2>3
<1>12. ASSUME NEW p \in Processes, Depend(p)  PROVE Staged'
  <2>1. /\ Slugged(p) /\ EngineTypes' /\ proc[p].slug \in Slugs
        /\ UNCHANGED <<disk, overwritten, lock, requirements>>
        /\ unsettled' \subseteq unsettled \cup {proc[p].slug}
        /\ packages' \subseteq packages \cup Needs[proc[p].slug][proc[p].meta]
    BY <1>7, <1>12, DependMoves DEF Slugged
  <2>2. proc[p].meta \in Versions
    BY <1>1 DEF ProcType
  <2>3. FileTypes'
    BY <1>1, <2>1, <2>2, NeedsType DEF FileTypes
  <2> QED  BY <1>6, <2>1, <2>3
<1>13. ASSUME NEW p \in Processes, ReadLock(p)  PROVE Staged'
  <2>1. /\ Slugged(p) /\ EngineTypes'
        /\ UNCHANGED <<disk, overwritten, lock, requirements, packages, unsettled>>
    BY <1>7, <1>13, ReadLockMoves
  <2>2. FileTypes'
    BY <1>1, <2>1 DEF FileTypes
  <2> QED  BY <1>6, <2>1, <2>2
<1>14. ASSUME NEW p \in Processes, Delete(p)  PROVE Staged'
  <2>1. /\ Slugged(p) /\ EngineTypes' /\ proc[p].slug \in Slugs
        /\ UNCHANGED <<lock, requirements, packages, unsettled>>
        /\ Write(p, proc[p].slug, Wiped)
    BY <1>7, <1>14, DeleteMoves DEF Slugged
  <2>2. /\ disk' \in [Slugs -> [manifest : Versions, modules : Versions]]
        /\ overwritten' \in BOOLEAN
    BY <1>1, <2>1, WriteTypes, WipedType
  <2>3. FileTypes'
    BY <1>1, <2>1, <2>2 DEF FileTypes
  <2> QED  BY <1>6, <2>1, <2>3
<1>15. ASSUME NEW p \in Processes, WriteLock(p)  PROVE Staged'
  <2>1. /\ Slugged(p) /\ EngineTypes' /\ lock' \in [Slugs -> Versions]
        /\ UNCHANGED <<disk, requirements, packages>>
        /\ overwritten' = (overwritten \/ lock # proc[p].base)
        /\ unsettled' = unsettled \ {proc[p].slug}
    BY <1>7, <1>15, WriteLockMoves
  <2>2. FileTypes'
    BY <1>1, <2>1 DEF FileTypes
  <2> QED  BY <1>6, <2>1, <2>2
<1>16. ASSUME NEW p \in Processes, Require(p)  PROVE Staged'
  <2>1. /\ Slugged(p) /\ EngineTypes'
        /\ UNCHANGED <<disk, lock, packages, unsettled>>
        /\ overwritten' = (overwritten \/ lock # proc[p].base)
        /\ requirements' = Required(proc[p].base)
    BY <1>7, <1>16, RequireMoves
  <2>2. proc[p].base \in [Slugs -> Versions]
    BY <1>1 DEF ProcType
  <2>3. FileTypes'
    BY <1>1, <2>1, <2>2, RequiredType DEF FileTypes
  <2> QED  BY <1>6, <2>1, <2>3
<1>17. ASSUME NEW p \in Processes, Audit(p) \/ Notify(p)  PROVE Staged'
  <2>1. /\ Slugged(p) /\ proc[p].slug \in Slugs
        /\ UNCHANGED <<disk, overwritten, lock, requirements, packages>>
        /\ unsettled' \subseteq unsettled \cup {proc[p].slug}
        /\ \/ UNCHANGED <<plugins, attributed, registered, stray>>
           \/ ReloadRuntime(proc[p].slug) \/ Reload(proc[p].slug)
    BY <1>17, AuditMoves, NotifyMoves DEF Slugged
  <2>2. FileTypes'
    BY <1>1, <2>1 DEF FileTypes
  <2>3. EngineTypes'
    BY <1>1, <1>7, <2>1, ReloadTypes
  <2> QED  BY <1>6, <2>1, <2>2, <2>3
<1>18. ASSUME NEW s \in Slugs, AdminReload(s)  PROVE Staged'
  <2>1. /\ UNCHANGED <<main, cache, etag, index, raced, disk, lock, requirements, packages,
                       overwritten, unsettled, proc>>
        /\ Reload(s)
    BY <1>18 DEF AdminReload, fetching, files
  <2>2. EngineTypes'
    BY <1>1, <2>1, ReloadTypes
  <2>3. IndexTypes' /\ FileTypes'
    BY <1>1, <2>1 DEF IndexTypes, FileTypes
  <2> QED  BY <1>1, <1>2, <2>1, <2>2, <2>3 DEF Staged
\* The crashes.
<1>19. ASSUME NEW Q \in SUBSET Processes, Killed(Q), EngineTypes',
              index' \in [Clis \cup {Server} -> 0 .. MaxRevision],
              requirements' \subseteq Packages, packages' \subseteq Packages
       PROVE  Staged'
  <2>1. /\ proc' \in [Processes -> ProcType]
        /\ \A p \in Processes : proc'[p] = IF p \in Q THEN Idle ELSE proc[p]
        /\ UNCHANGED <<main, etag, disk, overwritten>>
        /\ unsettled' \subseteq Slugs /\ lock' \in [Slugs -> Versions]
        /\ raced' \in BOOLEAN /\ cache' \in -1 .. MaxRevision
    BY <1>19, KilledMoves
  <2>2. IndexTypes' /\ FileTypes'
    BY <1>1, <1>19, <2>1 DEF IndexTypes, FileTypes
  <2>3. \A p \in Processes : StagedProc(proc'[p])
    BY <1>1, <2>1, IdleType
  <2> QED  BY <1>2, <1>19, <2>1, <2>2, <2>3 DEF Staged
<1>20. ASSUME NEW p \in Clis, CliDies(p)  PROVE Staged'
  <2>1. /\ Killed({p}) /\ UNCHANGED <<index, packages, plugins, attributed, registered, stray>>
        /\ requirements' \in {requirements, {}} /\ {p} \in SUBSET Processes
    BY <1>20, CliDiesMoves DEF Processes
  <2>2. /\ index' \in [Clis \cup {Server} -> 0 .. MaxRevision]
        /\ requirements' \subseteq Packages /\ packages' \subseteq Packages
    BY <1>1, <2>1 DEF IndexTypes, FileTypes
  <2> QED  BY <1>7, <1>19, <2>1, <2>2
<1>21. CASE Boot
  <2>1. PICK fresh \in BOOLEAN :
           LET Q == IF fresh THEN Processes ELSE Tasks IN
           /\ Killed(Q) /\ LoadAll
           /\ index' = [index EXCEPT ![Server] = Absent]
           /\ requirements' = Required(lock')
                \/ (requirements' = requirements /\ requirements # {})
           /\ packages' = IF fresh THEN requirements' ELSE packages \cup requirements'
    BY <1>21, BootMoves
  <2> DEFINE Q == IF fresh THEN Processes ELSE Tasks
  <2>2. Q \in SUBSET Processes /\ Killed(Q)
    BY <2>1 DEF Processes
  <2>3. lock' \in [Slugs -> Versions]
    <3> HIDE DEF Q
    <3> QED  BY <2>2, KilledMoves
  <2>4. Required(lock') \subseteq Packages
    BY <2>3, RequiredType
  <2>5. requirements' \subseteq Packages /\ packages' \subseteq Packages
    BY <1>1, <2>1, <2>4 DEF FileTypes
  <2>6. index' \in [Clis \cup {Server} -> 0 .. MaxRevision]
    BY <1>1, <2>1, PluginsAssumption DEF IndexTypes, Absent
  <2>7. EngineTypes'
    BY <1>1, <2>1, LoadAllTypes
  <2> HIDE DEF Q
  <2> QED  BY <1>19, <2>2, <2>5, <2>6, <2>7
<1> QED  BY <1>3, <1>4, <1>5, <1>8, <1>9, <1>10, <1>11, <1>12, <1>13, <1>14, <1>15, <1>16,
            <1>17, <1>18, <1>20, <1>21, Kinds

THEOREM StagedInvariant == Spec => []Staged
BY StagedInit, StagedNext, PTL DEF Spec
-----------------------------------------------------------------------------
(* The event loop. *)

\* A step is one of a process that may run, a crash, or leaves all processes.
LEMMA Movers ==
  ASSUME Staged, Next
  PROVE  \/ \E p \in Processes : Others(p) /\ Runs(p)
         \/ \E Q \in SUBSET Processes : Killed(Q)
         \/ proc' = proc
<1>1. ASSUME NEW p \in Processes,
             \/ Download(p) \/ DownloadFails(p) \/ Verify(p) \/ Depend(p)
             \/ ReadLock(p) \/ Delete(p) \/ WriteLock(p) \/ Require(p)
             \/ Audit(p) \/ Notify(p)
      PROVE  Slugged(p)
  BY <1>1, DownloadMoves, DownloadFailsMoves, VerifyMoves, DependMoves, ReadLockMoves,
     DeleteMoves, WriteLockMoves, RequireMoves, AuditMoves, NotifyMoves
<1>2. ASSUME NEW p \in Processes,
             Fetches(p) \/ Slugged(p) \/ \E s \in Slugs : Installs(p, s)
      PROVE  Others(p) /\ Runs(p)
  BY <1>2 DEF Fetches, Slugged, Installs
<1>3. ASSUME NEW p \in Clis, CliDies(p)
      PROVE  \E Q \in SUBSET Processes : Killed(Q)
  <2>1. {p} \in SUBSET Processes
    BY DEF Processes
  <2> QED  BY <1>3, <2>1, CliDiesMoves
<1>4. CASE Boot
  <2>1. \A fresh \in BOOLEAN : (IF fresh THEN Processes ELSE Tasks) \in SUBSET Processes
    BY DEF Processes
  <2>2. \E fresh \in BOOLEAN : Killed(IF fresh THEN Processes ELSE Tasks)
    BY <1>4, BootMoves
  <2> QED  BY <2>1, <2>2
<1>5. Publish \/ (\E s \in Slugs : AdminReload(s)) => proc' = proc
  BY DEF Publish, AdminReload
<1> QED  BY <1>1, <1>2, <1>3, <1>4, <1>5, Kinds

LEMMA HeldNext == Staged /\ Held /\ [Next]_vars => Held'
<1> SUFFICES ASSUME Staged, Held, [Next]_vars  PROVE Held'
  OBVIOUS
<1>1. ASSUME NEW p \in Processes, Others(p), Runs(p)  PROVE Held'
  BY <1>1 DEF Held, Others, Runs, Processes
<1>2. ASSUME NEW Q \in SUBSET Processes, Killed(Q)  PROVE Held'
  <2>1. \A p \in Processes : proc'[p] = IF p \in Q THEN Idle ELSE proc[p]
    BY <1>2, KilledMoves
  <2>2. Idle.pc \notin Holding
    BY IdleType DEF Holding
  <2> QED  BY <2>1, <2>2 DEF Held, Processes
<1>3. ASSUME proc' = proc  PROVE Held'
  BY <1>3 DEF Held
<1>4. UNCHANGED vars => proc' = proc
  BY DEF vars
<1> QED  BY <1>1, <1>2, <1>3, <1>4, Movers

LEMMA HeldInit == Init => Held
<1> SUFFICES ASSUME Init  PROVE Held
  OBVIOUS
<1>1. \A p \in Processes : proc[p].pc = "idle"
  BY IdleType DEF Init
<1> QED  BY <1>1 DEF Held, Holding, Processes

THEOREM HeldInvariant == Spec => [](Staged /\ Held)
<1>1. Init => Held
  BY HeldInit
<1>2. Staged /\ Held /\ [Next]_vars => Held'
  BY HeldNext
<1> QED  BY <1>1, <1>2, StagedInvariant, PTL DEF Spec
-----------------------------------------------------------------------------
(* The cached index. *)

LEMMA IndexNumbers ==
  ASSUME Staged
  PROVE  /\ main \in Nat \ {0} /\ etag \in Nat
         /\ \A p \in Processes : proc[p].got \in Nat /\ proc[p].since \in Nat
<1>1. \A p \in Processes : proc[p] \in ProcType
  BY DEF Staged, TypeOK
<1>2. \A p \in Processes : proc[p].got \in 0 .. MaxRevision /\ proc[p].since \in 0 .. MaxRevision
  BY <1>1 DEF ProcType
<1> QED  BY <1>2, PluginsAssumption DEF Staged, TypeOK, Revisions

\* Two writers of the index cache, unless they cross, are the same.
LEMMA OneWriter ==
  ASSUME Held, NEW p \in Processes, NEW q \in Processes,
         proc[p].pc \in {"writecache", "writetag"},
         proc[q].pc \in {"writecache", "writetag"}, ~ Crossing(p)
  PROVE  p = q
<1>1. Host(p) = Host(q)
  BY DEF Crossing
<1>2. CASE p \in Clis \/ q \in Clis
  BY <1>1, <1>2, PluginsAssumption DEF Host, Processes
<1>3. CASE p \in Tasks /\ q \in Tasks
  BY <1>3 DEF Held, Holding
<1> QED  BY <1>2, <1>3 DEF Processes

LEMMA IndexStep ==
  ASSUME Staged, Indexed, NEW p \in Processes, Others(p),
         UNCHANGED <<main, cache, etag, raced>>,
         proc[p].pc # "writetag", proc'[p].pc # "writetag",
         proc'[p].got <= main, proc'[p].since <= main
  PROVE  Indexed'
<1>1. \A q \in Processes : q # p => proc'[q] = proc[q]
  BY DEF Others
<1>2. \A q \in Processes : proc'[q].pc = "writetag" <=> proc[q].pc = "writetag"
  BY <1>1
<1> QED  BY <1>1, <1>2 DEF Indexed

Begins(p) ==
  \/ Begin(p, "browse", None)
  \/ p \in Clis /\ Begin(p, "all", None)
  \/ \E op \in {"install", "update", "remove"}, s \in Slugs : Begin(p, op, s)

LEMMA IndexedFetch ==
  ASSUME Staged, Indexed, Held, NEW p \in Processes,
         \/ Begins(p) \/ UseCache(p) \/ Request(p) \/ NotModified(p) \/ FetchFails(p)
         \/ Fetched(p) \/ WriteCache(p) \/ WriteTag(p)
  PROVE  Indexed'
<1>1. /\ main \in Nat \ {0} /\ etag \in Nat /\ etag <= main
      /\ \A q \in Processes : /\ proc[q].got \in Nat /\ proc[q].since \in Nat
                              /\ proc[q].got <= main /\ proc[q].since <= main
  BY IndexNumbers DEF Indexed
<1>2. ASSUME NEW op \in {"browse", "install", "update", "all", "remove"},
             NEW s \in Slugs \cup {None},
             op \in {"install", "update", "remove"} => s \in Slugs, Begin(p, op, s)
      PROVE  Indexed'
  <2>1. /\ Fetches(p) /\ proc'[p].got = 0 /\ proc'[p].since = 0
        /\ proc'[p].pc \notin {"writecache", "writetag"} /\ proc[p].pc = "idle"
        /\ cache' = cache /\ etag' = etag /\ raced' = raced
    BY <1>2, BeginFetches
  <2> QED  BY <1>1, <2>1, IndexStep DEF Fetches
<1>3. CASE Begins(p)
  <2>1. Begin(p, "browse", None) => Indexed'
    BY <1>2
  <2>2. Begin(p, "all", None) => Indexed'
    BY <1>2
  <2>3. ASSUME NEW op \in {"install", "update", "remove"}, NEW s \in Slugs, Begin(p, op, s)
        PROVE  Indexed'
    BY <1>2, <2>3
  <2> QED  BY <1>3, <2>1, <2>2, <2>3 DEF Begins
<1>4. CASE UseCache(p) \/ NotModified(p) \/ FetchFails(p)
  <2>1. /\ Fetches(p)
        /\ proc'[p].got \in {0, proc[p].got} /\ proc'[p].since \in {0, proc[p].since}
        /\ proc'[p].pc \notin {"writecache", "writetag"} /\ proc[p].pc \in {"fetch", "asked"}
        /\ cache' = cache /\ etag' = etag /\ raced' = raced
    BY <1>4, AnswerFetches
  <2> QED  BY <1>1, <2>1, IndexStep DEF Fetches
<1>5. CASE Request(p)
  <2>1. /\ Fetches(p)
        /\ proc'[p].got = etag /\ proc'[p].since = main /\ proc'[p].pc = "asked"
        /\ proc[p].pc = "fetch" /\ cache' = cache /\ etag' = etag /\ raced' = raced
    BY <1>5, RequestFetches
  <2> QED  BY <1>1, <2>1, IndexStep DEF Fetches
<1>6. CASE Fetched(p)
  <2>1. /\ Fetches(p) /\ proc'[p].got \in proc[p].since .. main
        /\ proc'[p].since = proc[p].since /\ proc'[p].pc = "writecache"
        /\ proc[p].pc = "asked" /\ cache' = cache /\ etag' = etag /\ raced' = raced
    BY <1>6, FetchedFetches
  <2> QED  BY <1>1, <2>1, IndexStep DEF Fetches
<1>7. CASE WriteCache(p) \/ WriteTag(p)
  <2>1. /\ Fetches(p) /\ proc'[p].got = proc[p].got /\ proc'[p].since = proc[p].since
        /\ main' = main /\ Others(p) /\ proc' \in [Processes -> ProcType]
    BY <1>7, CacheFetches DEF Fetches
  <2>2. \A q \in Processes : proc'[q].got <= main /\ proc'[q].since <= main
    BY <1>1, <2>1 DEF Others
  <2>3. proc[p].pc \in {"writecache", "writetag"} /\ (raced' <=> raced \/ Crossing(p))
    BY <1>7 DEF WriteCache, WriteTag, At
  <2>4. proc \in [Processes -> ProcType]
    BY DEF Staged, TypeOK
  <2>5. ASSUME ~ raced'
        PROVE  \A q \in Processes : q # p => proc'[q].pc # "writetag"
    BY <2>1, <2>3, <2>5, OneWriter DEF Others
  <2>6. CASE WriteCache(p)
    <3>1. cache' = proc[p].got /\ etag' = etag /\ proc'[p].pc = "writetag"
      <4>1. cache' = proc[p].got /\ etag' = etag /\ Go(p, "writetag")
        BY <2>6 DEF WriteCache
      <4> QED  BY <2>4, <4>1 DEF Go, ProcType
    <3> QED  BY <1>1, <2>1, <2>2, <2>5, <3>1 DEF Indexed
  <2>7. CASE WriteTag(p)
    <3>1. etag' = proc[p].got /\ cache' = cache /\ proc'[p].pc = "check" /\ proc[p].pc = "writetag"
      <4>1. etag' = proc[p].got /\ cache' = cache /\ Go(p, "check") /\ proc[p].pc = "writetag"
        BY <2>7 DEF WriteTag, At
      <4> QED  BY <2>4, <4>1 DEF Go, ProcType
    <3>2. ~ raced' => cache = proc[p].got
      BY <2>3, <3>1 DEF Indexed
    <3> QED  BY <1>1, <2>1, <2>2, <2>5, <3>1, <3>2 DEF Indexed
  <2> QED  BY <1>7, <2>6, <2>7
<1> QED  BY <1>3, <1>4, <1>5, <1>6, <1>7

LEMMA IndexedCrash ==
  ASSUME Staged, Indexed, Held, NEW Q \in SUBSET Processes, Killed(Q)
  PROVE  Indexed'
<1>1. /\ main \in Nat \ {0} /\ etag \in Nat /\ etag <= main
      /\ \A q \in Processes : /\ proc[q].got \in Nat /\ proc[q].since \in Nat
                              /\ proc[q].got <= main /\ proc[q].since <= main
  BY IndexNumbers DEF Indexed
<1>2. /\ \A p \in Processes : proc'[p] = IF p \in Q THEN Idle ELSE proc[p]
      /\ UNCHANGED <<main, etag>>
      /\ \/ cache' = cache
         \/ cache' = Unreadable /\ \E q \in Q : proc[q].pc = "writecache"
  BY KilledMoves
<1>3. Idle.pc = "idle" /\ Idle.got = 0 /\ Idle.since = 0
  BY IdleType
<1>4. \A p \in Processes : proc'[p].got <= main /\ proc'[p].since <= main
  BY <1>1, <1>2, <1>3
<1>5. ASSUME ~ raced', NEW q \in Q, proc[q].pc \in {"writecache", "writetag"}
      PROVE  ~ raced /\ proc[q].got > etag /\ ~ Crossing(q)
  <2>1. ~ raced /\ ~ (proc[q].got <= etag \/ Crossing(q))
    BY <1>5 DEF Killed
  <2> QED  BY <1>1, <2>1
<1>6. ASSUME ~ raced', NEW r \in Processes, proc'[r].pc = "writetag"
      PROVE  cache' = proc'[r].got
  <2>1. r \notin Q /\ proc'[r] = proc[r] /\ proc[r].pc = "writetag"
    BY <1>2, <1>3, <1>6
  <2>2. ~ \E q \in Q : proc[q].pc = "writecache"
    BY <1>5, <1>6, <2>1, OneWriter
  <2>3. ~ raced
    BY <1>6 DEF Killed
  <2> QED  BY <1>2, <1>6, <2>1, <2>2, <2>3 DEF Indexed
<1>7. ASSUME ~ raced', \A p \in Processes : proc'[p].pc # "writetag", etag = main
      PROVE  cache' = main
  <2>1. ~ \E q \in Q : proc[q].pc \in {"writecache", "writetag"}
    BY <1>1, <1>5, <1>7
  <2>2. \A p \in Processes : proc[p].pc # "writetag"
    BY <1>2, <1>7, <2>1
  <2>3. ~ raced
    BY <1>7 DEF Killed
  <2> QED  BY <1>2, <1>7, <2>1, <2>2, <2>3 DEF Indexed
<1> QED  BY <1>1, <1>2, <1>4, <1>6, <1>7 DEF Indexed
LEMMA IndexedNext == Staged /\ Held /\ Indexed /\ [Next]_vars => Indexed'
<1> SUFFICES ASSUME Staged, Held, Indexed, [Next]_vars  PROVE Indexed'
  OBVIOUS
<1>1. /\ main \in Nat \ {0} /\ etag \in Nat /\ etag <= main
      /\ \A q \in Processes : /\ proc[q].got \in Nat /\ proc[q].since \in Nat
                              /\ proc[q].got <= main /\ proc[q].since <= main
  BY IndexNumbers DEF Indexed
<1>2. CASE Publish
  <2>1. main' = main + 1 /\ UNCHANGED <<cache, etag, raced, proc>>
    BY <1>2 DEF Publish
  <2> QED  BY <1>1, <2>1 DEF Indexed
<1>3. ASSUME NEW p \in Processes, Slugged(p) \/ \E s \in Slugs : Installs(p, s)
      PROVE  Indexed'
  <2>1. CASE Slugged(p)
    <3>1. proc[p].pc # "writetag"
      BY <2>1 DEF Slugged, Touching
    <3> QED  BY <1>1, <2>1, <3>1, IndexStep DEF Slugged
  <2>2. ASSUME NEW s \in Slugs, Installs(p, s)  PROVE Indexed'
    BY <1>1, <2>2, IndexStep DEF Installs
  <2> QED  BY <1>3, <2>1, <2>2
<1>4. ASSUME NEW p \in Processes, Check(p) \/ NextUpdate(p)
      PROVE  Indexed'
  <2>1. CASE \/ Fetches(p) /\ proc'[p].got \in {0, proc[p].got}
                /\ proc'[p].since \in {0, proc[p].since}
                /\ proc[p].pc \in {"check", "next"}
                /\ cache' = cache /\ etag' = etag /\ raced' = raced
                /\ proc'[p].pc \notin {"writecache", "writetag"}
    BY <1>1, <2>1, IndexStep DEF Fetches
  <2> QED  BY <1>3, <1>4, <2>1, CheckKinds, NextKinds
<1>5. ASSUME NEW p \in Processes,
             \/ Download(p) \/ DownloadFails(p) \/ Verify(p) \/ Depend(p)
             \/ ReadLock(p) \/ Delete(p) \/ WriteLock(p) \/ Require(p)
             \/ Audit(p) \/ Notify(p)
      PROVE  Indexed'
  BY <1>3, <1>5, DownloadMoves, DownloadFailsMoves, VerifyMoves, DependMoves, ReadLockMoves,
     DeleteMoves, WriteLockMoves, RequireMoves, AuditMoves, NotifyMoves
<1>6. ASSUME NEW p \in Clis, CliDies(p)  PROVE Indexed'
  <2>1. {p} \in SUBSET Processes
    BY DEF Processes
  <2> QED  BY <1>6, <2>1, CliDiesMoves, IndexedCrash
<1>7. CASE Boot
  <2>1. \A fresh \in BOOLEAN : (IF fresh THEN Processes ELSE Tasks) \in SUBSET Processes
    BY DEF Processes
  <2>2. \E fresh \in BOOLEAN : Killed(IF fresh THEN Processes ELSE Tasks)
    BY <1>7, BootMoves
  <2> QED  BY <2>1, <2>2, IndexedCrash
<1>8. CASE UNCHANGED vars \/ \E s \in Slugs : AdminReload(s)
  <2>1. UNCHANGED <<main, cache, etag, raced, proc>>
    BY <1>8 DEF vars, AdminReload, fetching
  <2> QED  BY <2>1 DEF Indexed
<1>9. ASSUME NEW p \in Processes,
             \/ Begins(p) \/ UseCache(p) \/ Request(p) \/ NotModified(p) \/ FetchFails(p)
             \/ Fetched(p) \/ WriteCache(p) \/ WriteTag(p)
      PROVE  Indexed'
  BY <1>9, IndexedFetch
<1>10. Tasks \subseteq Processes /\ Clis \subseteq Processes
  BY DEF Processes
<1>11. ASSUME NEW p \in Processes,
              \/ Begin(p, "browse", None)
              \/ \E op \in {"install", "update", "remove"}, s \in Slugs : Begin(p, op, s)
       PROVE  Indexed'
  <2>1. CASE Begin(p, "browse", None)
    BY <1>9, <2>1 DEF Begins
  <2>2. ASSUME NEW op \in {"install", "update", "remove"}, NEW s \in Slugs, Begin(p, op, s)
        PROVE  Begins(p)
    BY <2>2 DEF Begins
  <2> QED  BY <1>9, <1>11, <2>1, <2>2
<1>12. ASSUME NEW p \in Clis, Begin(p, "all", None) \/ CliDies(p) \/ Notify(p)
       PROVE  Indexed'
  BY <1>5, <1>6, <1>9, <1>10, <1>12 DEF Begins
<1>13. ASSUME NEW p \in Tasks, Audit(p)
       PROVE  Indexed'
  BY <1>5, <1>10, <1>13
<1>14. ASSUME NEW p \in Processes,
              \/ UseCache(p) \/ Request(p) \/ NotModified(p) \/ FetchFails(p) \/ Fetched(p)
              \/ WriteCache(p) \/ WriteTag(p) \/ Check(p) \/ NextUpdate(p)
              \/ Download(p) \/ DownloadFails(p) \/ Verify(p) \/ Depend(p)
              \/ ReadLock(p) \/ Delete(p) \/ WriteLock(p) \/ Require(p)
       PROVE  Indexed'
  BY <1>4, <1>5, <1>9, <1>14
<1> QED  BY <1>2, <1>7, <1>8, <1>11, <1>12, <1>13, <1>14 DEF Next

LEMMA IndexedInit == Init => Indexed
<1> SUFFICES ASSUME Init  PROVE Indexed
  OBVIOUS
<1>1. /\ main = 1 /\ cache = 0 /\ etag = 0
      /\ \A p \in Processes : proc[p].pc = "idle" /\ proc[p].got = 0 /\ proc[p].since = 0
  BY IdleType DEF Init, Absent
<1> QED  BY <1>1 DEF Indexed

\* The answer "not modified" never serves an old or a broken index, after any
\* crash and however many requests and commands fetch it (registry.py:161-168).
THEOREM NotModifiedServesTheNewest == Spec => []NotModifiedIsCurrent
<1>1. Init => Indexed
  BY IndexedInit
<1>2. Staged /\ Held /\ Indexed /\ [Next]_vars => Indexed'
  BY IndexedNext
<1>3. Indexed => NotModifiedIsCurrent
  BY DEF Indexed, NotModifiedIsCurrent
<1> QED  BY <1>1, <1>2, <1>3, HeldInvariant, PTL DEF Spec
-----------------------------------------------------------------------------
(* The files, the lock file and the packages: what a step of one process,  *)
(* which changes the files and the lock of one slug at most, keeps.        *)

SealedPcs == {"depend", "readlock", "writelock"}

\* No other process has files in hand that p writes, unless it is recorded.
LEMMA WriteAlone ==
  ASSUME NEW p \in Processes, NEW s \in Slugs, NEW content, Write(p, s, content), Runs(p),
         ~ overwritten'
  PROVE  \A q \in Processes \ {p} : ~ (proc[q].slug = s /\ Sealed(proc[q]))
<1> SUFFICES ASSUME NEW q \in Processes \ {p}, proc[q].slug = s, Sealed(proc[q])
             PROVE  FALSE
  OBVIOUS
<1>1. proc[q].pc \in SealedPcs
  BY DEF Sealed, SealedPcs
<1>2. Host(q) = Host(p)
  BY <1>1 DEF Write, SealedPcs
<1>3. CASE p \in Clis \/ q \in Clis
  BY <1>2, <1>3, PluginsAssumption DEF Host, Processes
<1>4. CASE p \in Tasks /\ q \in Tasks
  BY <1>1, <1>4 DEF Runs, Holding, SealedPcs
<1> QED  BY <1>3, <1>4 DEF Processes

LEMMA PackedStep ==
  ASSUME Packed, NEW p \in Processes, Others(p), packages \subseteq packages',
         Sealed(proc'[p]) /\ proc'[p].pc # "depend"
           => Needs[proc'[p].slug][proc'[p].meta] \subseteq packages'
  PROVE  Packed'
BY DEF Packed, Others

LEMMA ContentStep ==
  ASSUME Content, Checksummed \subseteq Slugs, NEW p \in Processes, Others(p), NEW s \in Slugs,
         \A x \in Slugs \ {s} : disk'[x] = disk[x] /\ lock'[x] = lock[x],
         unsettled \subseteq unsettled' \cup {s},
         proc[p].pc \in Mid => proc[p].slug = s,
         s \in Checksummed \ unsettled' /\ lock'[s] # 0
             /\ (\A q \in Processes : ~ (proc'[q].slug = s /\ proc'[q].pc \in Mid))
           => disk'[s] = [manifest |-> lock'[s], modules |-> lock'[s]]
  PROVE  Content'
<1> SUFFICES ASSUME NEW x \in Checksummed \ unsettled', lock'[x] # 0,
                    \A q \in Processes : ~ (proc'[q].slug = x /\ proc'[q].pc \in Mid)
             PROVE  disk'[x] = [manifest |-> lock'[x], modules |-> lock'[x]]
  BY DEF Content, Complete
<1>1. CASE x = s
  BY <1>1
<1>2. CASE x # s
  <2>1. \A q \in Processes : ~ (proc[q].slug = x /\ proc[q].pc \in Mid)
    BY <1>2 DEF Others
  <2>2. x \in Checksummed \ unsettled /\ lock[x] # 0 /\ disk'[x] = disk[x] /\ lock'[x] = lock[x]
    BY <1>2
  <2> QED  BY <2>1, <2>2 DEF Content, Complete
<1> QED  BY <1>1, <1>2

LEMMA VerifiedStep ==
  ASSUME Verified, Checksummed \subseteq Slugs, NEW p \in Processes, Others(p), NEW s \in Slugs,
         \A x \in Slugs \ {s} : disk'[x] = disk[x],
         \/ disk'[s] = disk[s]
         \/ \A q \in Processes \ {p} : ~ (proc[q].slug = s /\ Sealed(proc[q])),
         Sealed(proc'[p]) /\ proc'[p].slug \in Checksummed
           => disk'[proc'[p].slug] = [manifest |-> proc'[p].meta, modules |-> proc'[p].meta]
  PROVE  Verified'
<1> SUFFICES ASSUME NEW q \in Processes, Sealed(proc'[q]), proc'[q].slug \in Checksummed
             PROVE  disk'[proc'[q].slug] = [manifest |-> proc'[q].meta, modules |-> proc'[q].meta]
  BY DEF Verified, Complete, Sealed
<1>1. CASE q = p
  BY <1>1
<1>2. CASE q # p
  <2>1. proc'[q] = proc[q]
    BY <1>2 DEF Others
  <2>2. disk[proc[q].slug] = [manifest |-> proc[q].meta, modules |-> proc[q].meta]
    BY <2>1 DEF Verified, Complete
  <2>3. disk'[proc[q].slug] = disk[proc[q].slug]
    BY <1>2, <2>1
  <2> QED  BY <2>1, <2>2, <2>3
<1> QED  BY <1>1, <1>2

LEMMA LockPackedStep ==
  ASSUME LockPacked, packages \subseteq packages', NEW s \in Slugs,
         \A x \in Slugs \ {s} : lock'[x] = lock[x], unsettled \subseteq unsettled' \cup {s},
         s \notin unsettled' => Needs[s][lock'[s]] \subseteq packages'
  PROVE  LockPacked'
<1> SUFFICES ASSUME NEW x \in Slugs \ unsettled'  PROVE Needs[x][lock'[x]] \subseteq packages'
  BY DEF LockPacked
<1>1. CASE x # s
  <2>1. Needs[x][lock[x]] \subseteq packages /\ lock'[x] = lock[x]
    BY <1>1 DEF LockPacked
  <2> QED  BY <2>1
<1> QED  BY <1>1

LEMMA ListedStep ==
  ASSUME Listed, NEW p \in Processes, Others(p), proc[p].pc # "require", NEW s \in Slugs,
         requirements' = requirements,
         \A x \in Slugs \ {s} : lock'[x] = lock[x], unsettled \subseteq unsettled' \cup {s},
         s \notin unsettled' /\ (\A q \in Processes : ~ (proc'[q].slug = s /\ proc'[q].pc = "require"))
           => lock'[s] = lock[s] /\ s \notin unsettled
  PROVE  Listed'
<1> SUFFICES ASSUME requirements # {}, NEW x \in Slugs \ unsettled',
                    \A q \in Processes : ~ (proc'[q].slug = x /\ proc'[q].pc = "require")
             PROVE  Needs[x][lock'[x]] \subseteq requirements
  BY DEF Listed
<1>1. lock'[x] = lock[x] /\ x \notin unsettled
  OBVIOUS
<1>2. \A q \in Processes : ~ (proc[q].slug = x /\ proc[q].pc = "require")
  BY DEF Others
<1> QED  BY <1>1, <1>2 DEF Listed

\* A step that changes no files at all.
LEMMA FiledCalm ==
  ASSUME Staged, Filed, NEW p \in Processes, Others(p),
         UNCHANGED <<disk, lock, requirements, packages, overwritten>>,
         unsettled \subseteq unsettled',
         proc[p].pc # "require",
         \/ proc[p].pc \notin Mid
         \/ proc'[p].pc \in Mid /\ proc'[p].slug = proc[p].slug
         \/ proc[p].slug \in unsettled'
         \/ lock[proc[p].slug] = 0,
         Sealed(proc'[p]) =>
           /\ Sealed(proc[p]) /\ proc'[p].slug = proc[p].slug /\ proc'[p].meta = proc[p].meta
           /\ proc'[p].pc # "depend" => proc[p].pc # "depend"
  PROVE  Filed'
<1>1. Checksummed \subseteq Slugs
  BY PluginsAssumption
<1>2. Packed'
  BY PackedStep DEF Filed, Packed
<1> SUFFICES ASSUME ~ overwritten  PROVE Content' /\ Verified' /\ LockPacked' /\ Listed'
  BY <1>2 DEF Filed
<1>3. Content /\ Verified /\ LockPacked /\ Listed
  BY DEF Filed
<1>4. Content'
  <2> SUFFICES ASSUME NEW x \in Checksummed \ unsettled', lock[x] # 0,
                      \A q \in Processes : ~ (proc'[q].slug = x /\ proc'[q].pc \in Mid)
               PROVE  disk[x] = [manifest |-> lock[x], modules |-> lock[x]]
    BY DEF Content, Complete
  <2>1. \A q \in Processes : ~ (proc[q].slug = x /\ proc[q].pc \in Mid)
    BY DEF Others
  <2> QED  BY <1>3, <2>1 DEF Content, Complete
<1>5. Verified'
  BY <1>3 DEF Verified, Others, Complete, Sealed
<1>6. LockPacked'
  BY <1>3 DEF LockPacked
<1>7. Listed'
  BY <1>3 DEF Listed, Others
<1> QED  BY <1>4, <1>5, <1>6, <1>7

LEMMA NoLock ==
  Idle.base \in [Slugs -> Versions] /\ \A s \in Slugs : Idle.base[s] = 0
<1>1. Idle.base = [s \in Slugs |-> 0]
  BY DEF Idle
<1> QED  BY <1>1, IdleType DEF ProcType
LEMMA FiledFetch ==
  ASSUME Staged, Filed, NEW p \in Processes, Fetches(p)
  PROVE  Filed'
<1>1. proc[p].pc \notin Mid /\ proc[p].pc # "require" /\ ~ Sealed(proc'[p])
  BY DEF Fetches, Mid, Touching, Sealed
<1> QED  BY <1>1, FiledCalm DEF Fetches

\* A step that writes the files of a slug that p has in hand, or gives them up.
LEMMA FiledWrite ==
  ASSUME Staged, Filed, NEW p \in Processes, NEW s \in Slugs, Others(p), Runs(p),
         NEW content \in [manifest : Versions, modules : Versions], Write(p, s, content),
         UNCHANGED <<lock, requirements, packages>>,
         unsettled \subseteq unsettled', unsettled' \subseteq unsettled \cup {s},
         proc[p].pc \in Mid => proc[p].slug = s, proc[p].pc # "require",
         \/ s \in unsettled'
         \/ proc'[p].slug = s /\ proc'[p].pc \in Mid,
         ~ Sealed(proc'[p])
  PROVE  Filed'
<1>1. Checksummed \subseteq Slugs
  BY PluginsAssumption
<1>2. /\ disk'[s] = content /\ \A x \in Slugs \ {s} : disk'[x] = disk[x]
      /\ overwritten => overwritten'
  BY WriteTypes DEF Staged, TypeOK, FileTypes, Packages
<1>3. Packed'
  BY PackedStep DEF Filed
<1> SUFFICES ASSUME ~ overwritten'  PROVE Content' /\ Verified' /\ LockPacked' /\ Listed'
  BY <1>3 DEF Filed
<1>4. Content /\ Verified /\ LockPacked /\ Listed
  BY <1>2 DEF Filed
<1>5. Content'
  BY <1>1, <1>2, <1>4, ContentStep
<1>6. \A q \in Processes \ {p} : ~ (proc[q].slug = s /\ Sealed(proc[q]))
  BY WriteAlone
<1>7. Verified'
  BY <1>1, <1>2, <1>4, <1>6, VerifiedStep
<1>8. LockPacked'
  BY <1>4 DEF LockPacked
<1>9. Listed'
  BY <1>4 DEF Listed, Others
<1> QED  BY <1>5, <1>7, <1>8, <1>9

LEMMA FiledInstalls ==
  ASSUME Staged, Filed, NEW p \in Processes, NEW s \in Slugs, Installs(p, s)
  PROVE  Filed'
<1>1. /\ proc[p].pc \notin Mid /\ proc[p].pc # "require"
      /\ proc'[p].slug = s /\ proc'[p].pc \in Mid /\ ~ Sealed(proc'[p])
  BY DEF Installs, Mid, Sealed
<1> QED  BY <1>1, WipedType, FiledWrite DEF Installs

LEMMA FiledDownload ==
  ASSUME Staged, Filed, NEW p \in Processes, Download(p)
  PROVE  Filed'
<1> DEFINE s == proc[p].slug
           manifest == [disk[s] EXCEPT !.manifest = Version[s][main]]
           modules == [disk[s] EXCEPT !.modules = Version[s][main]]
<1>1. /\ Slugged(p) /\ s \in Slugs /\ Others(p) /\ Runs(p)
      /\ UNCHANGED <<lock, requirements, packages, unsettled>>
      /\ \/ Stage(p, "manifest", "modules") /\ Write(p, s, manifest)
         \/ Stage(p, "modules", "verify") /\ Write(p, s, modules)
  BY DownloadMoves DEF Slugged
<1>2. Version[s][main] \in Versions /\ disk[s] \in [manifest : Versions, modules : Versions]
  BY <1>1, PluginsAssumption DEF Staged, TypeOK
<1>3. manifest \in [manifest : Versions, modules : Versions]
      /\ modules \in [manifest : Versions, modules : Versions]
  BY <1>2
<1>4. /\ proc[p].pc \in Mid /\ proc[p].pc # "require"
      /\ proc'[p].slug = s /\ proc'[p].pc \in Mid /\ ~ Sealed(proc'[p])
  BY <1>1 DEF Stage, Mid, Sealed
<1> HIDE DEF manifest, modules
<1> QED  BY <1>1, <1>3, <1>4, FiledWrite

LEMMA FiledDownloadFails ==
  ASSUME Staged, Filed, NEW p \in Processes, DownloadFails(p)
  PROVE  Filed'
<1>1. /\ Slugged(p) /\ Leaves(p)
      /\ UNCHANGED <<disk, overwritten, lock, requirements, packages>>
      /\ unsettled' = unsettled \cup {proc[p].slug} /\ proc[p].pc # "require"
  BY DownloadFailsMoves DEF DownloadFails, At
<1>2. ~ Sealed(proc'[p])
  BY <1>1 DEF Leaves, Sealed
<1> QED  BY <1>1, <1>2, FiledCalm DEF Slugged

LEMMA FiledVerify ==
  ASSUME Staged, Filed, NEW p \in Processes, Verify(p)
  PROVE  Filed'
<1> DEFINE s == proc[p].slug
<1>1. /\ Slugged(p) /\ s \in Slugs /\ Others(p) /\ Runs(p) /\ proc[p].pc = "verify"
      /\ UNCHANGED <<lock, requirements, packages>>
  BY VerifyMoves DEF Slugged
<1>2. CASE /\ Leaves(p) /\ Write(p, s, Wiped) /\ unsettled' = unsettled \cup {s}
  <2>1. ~ Sealed(proc'[p]) /\ proc[p].pc # "require" /\ s \in unsettled'
    BY <1>1, <1>2 DEF Leaves, Sealed
  <2> QED  BY <1>1, <1>2, <2>1, WipedType, FiledWrite
<1>3. CASE /\ Stage(p, "verify", "depend") /\ UNCHANGED <<disk, overwritten, unsettled>>
           /\ s \in Checksummed => Complete(s, proc[p].meta)
  <2>1. Checksummed \subseteq Slugs
    BY PluginsAssumption
  <2>2. /\ proc'[p].pc = "depend" /\ proc'[p].slug = s /\ proc'[p].meta = proc[p].meta
        /\ proc[p].pc \in Mid /\ proc'[p].pc \in Mid
    BY <1>3 DEF Stage, Mid
  <2>3. Packed'
    BY <1>1, <2>2, PackedStep DEF Filed
  <2> SUFFICES ASSUME ~ overwritten  PROVE Content' /\ Verified' /\ LockPacked' /\ Listed'
    BY <1>3, <2>3 DEF Filed
  <2>4. Content /\ Verified /\ LockPacked /\ Listed
    BY DEF Filed
  <2>5. Content'
    BY <1>1, <1>3, <2>1, <2>2, <2>4, ContentStep
  <2>6. Verified'
    BY <1>1, <1>3, <2>1, <2>2, <2>4, VerifiedStep DEF Complete
  <2>7. LockPacked' /\ Listed'
    BY <1>1, <1>3, <2>2, <2>4 DEF LockPacked, Listed, Others
  <2> QED  BY <2>5, <2>6, <2>7
<1> QED  BY <1>2, <1>3, VerifyMoves

LEMMA FiledDepend ==
  ASSUME Staged, Filed, NEW p \in Processes, Depend(p)
  PROVE  Filed'
<1> DEFINE s == proc[p].slug
<1>1. /\ Slugged(p) /\ s \in Slugs /\ Others(p) /\ proc[p].pc = "depend"
      /\ UNCHANGED <<disk, overwritten, lock, requirements>>
  BY DependMoves DEF Slugged
<1>2. CASE Leaves(p) /\ UNCHANGED packages /\ unsettled' = unsettled \cup {s}
  <2>1. ~ Sealed(proc'[p]) /\ proc[p].pc # "require"
    BY <1>1, <1>2 DEF Leaves, Sealed
  <2> QED  BY <1>1, <1>2, <2>1, FiledCalm
<1>3. CASE /\ Stage(p, "depend", "readlock") /\ UNCHANGED unsettled
           /\ packages' = packages \cup Needs[s][proc[p].meta]
  <2>1. Checksummed \subseteq Slugs
    BY PluginsAssumption
  <2>2. /\ proc'[p].pc = "readlock" /\ proc'[p].slug = s /\ proc'[p].meta = proc[p].meta
        /\ proc[p].pc \in Mid /\ proc'[p].pc \in Mid /\ proc[p].op # "remove"
        /\ proc'[p].op = proc[p].op
    BY <1>1, <1>3, NoRemoval DEF Stage, Mid
  <2>3. Packed'
    BY <1>1, <1>3, <2>2, PackedStep DEF Filed
  <2> SUFFICES ASSUME ~ overwritten  PROVE Content' /\ Verified' /\ LockPacked' /\ Listed'
    BY <1>1, <2>3 DEF Filed
  <2>4. Content /\ Verified /\ LockPacked /\ Listed
    BY DEF Filed
  <2>5. Content'
    BY <1>1, <1>3, <2>1, <2>2, <2>4, ContentStep
  <2>6. s \in Checksummed => disk[s] = [manifest |-> proc[p].meta, modules |-> proc[p].meta]
    BY <1>1, <2>2, <2>4 DEF Verified, Sealed, Complete
  <2>7. Verified'
    BY <1>1, <2>1, <2>2, <2>4, <2>6, VerifiedStep
  <2>8. LockPacked' /\ Listed'
    BY <1>1, <1>3, <2>2, <2>4 DEF LockPacked, Listed, Others
  <2> QED  BY <2>5, <2>7, <2>8
<1> QED  BY <1>2, <1>3, DependMoves

LEMMA FiledReadLock ==
  ASSUME Staged, Filed, NEW p \in Processes, ReadLock(p)
  PROVE  Filed'
<1>1. /\ Slugged(p) /\ Others(p) /\ proc[p].pc = "readlock"
      /\ UNCHANGED <<disk, overwritten, lock, requirements, packages, unsettled>>
  BY ReadLockMoves DEF Slugged
<1>2. CASE proc[p].op # "remove" /\ Stage(p, "readlock", "writelock")
  BY <1>1, <1>2, FiledCalm DEF Stage, Sealed, Mid
<1>3. CASE Stage(p, "readlock", "delete")
  BY <1>1, <1>3, FiledCalm DEF Stage, Sealed, Mid
<1>4. CASE Leaves(p) /\ lock[proc[p].slug] = 0
  BY <1>1, <1>4, FiledCalm DEF Leaves, Sealed
<1> QED  BY <1>2, <1>3, <1>4, ReadLockMoves

LEMMA FiledDelete ==
  ASSUME Staged, Filed, NEW p \in Processes, Delete(p)
  PROVE  Filed'
<1>1. /\ Slugged(p) /\ proc[p].slug \in Slugs /\ Others(p) /\ Runs(p)
      /\ Stage(p, "delete", "writelock") /\ proc[p].op = "remove"
      /\ Write(p, proc[p].slug, Wiped) /\ UNCHANGED <<lock, requirements, packages, unsettled>>
  BY DeleteMoves DEF Slugged
<1>2. /\ proc[p].pc # "require" /\ proc'[p].slug = proc[p].slug /\ proc'[p].pc \in Mid
      /\ ~ Sealed(proc'[p])
  BY <1>1 DEF Stage, Sealed, Mid
<1> QED  BY <1>1, <1>2, WipedType, FiledWrite
LEMMA FiledWriteLock ==
  ASSUME Staged, Filed, NEW p \in Processes, WriteLock(p)
  PROVE  Filed'
<1> DEFINE s == proc[p].slug
           meta == proc[p].meta
<1>1. /\ Slugged(p) /\ s \in Slugs /\ Others(p) /\ Stage(p, "writelock", "require")
      /\ lock' = [proc[p].base EXCEPT ![s] = meta]
      /\ overwritten' = (overwritten \/ lock # proc[p].base)
      /\ unsettled' = unsettled \ {s} /\ UNCHANGED <<disk, requirements, packages>>
  BY WriteLockMoves DEF Slugged
<1>2. /\ proc[p].pc = "writelock" /\ proc'[p].pc = "require" /\ proc'[p].slug = s
      /\ proc[p].pc \in Mid /\ ~ Sealed(proc'[p])
  BY <1>1 DEF Stage, Mid, Sealed
<1>3. Checksummed \subseteq Slugs
  BY PluginsAssumption
<1>4. Packed'
  BY <1>1, <1>2, PackedStep DEF Filed
<1> SUFFICES ASSUME ~ overwritten'  PROVE Content' /\ Verified' /\ LockPacked' /\ Listed'
  BY <1>4 DEF Filed
<1>5. /\ ~ overwritten /\ Packed /\ Content /\ Verified /\ LockPacked /\ Listed
      /\ lock' = [lock EXCEPT ![s] = meta]
  BY <1>1 DEF Filed
<1>6. lock'[s] = meta /\ \A x \in Slugs \ {s} : lock'[x] = lock[x]
  BY <1>1, <1>5 DEF Staged, TypeOK
<1>7. proc[p].op = "remove" => meta = 0
  BY DEF Staged, StagedProc
<1>8. proc[p].op # "remove" => Sealed(proc[p]) /\ proc[p].pc # "depend"
  BY <1>2 DEF Sealed
<1>9. Content'
  <2>1. s \in Checksummed /\ lock'[s] # 0
          => disk'[s] = [manifest |-> lock'[s], modules |-> lock'[s]]
    BY <1>1, <1>5, <1>6, <1>7, <1>8 DEF Verified, Complete
  <2> QED  BY <1>1, <1>3, <1>5, <1>6, <2>1, ContentStep
<1>10. Verified'
  BY <1>1, <1>2, <1>3, <1>5, VerifiedStep
<1>11. LockPacked'
  <2>1. Needs[s][lock'[s]] \subseteq packages'
    <3>1. CASE proc[p].op = "remove"
      <4>1. Needs[s][lock'[s]] = {}
        BY <1>1, <1>6, <1>7, <3>1, PluginsAssumption
      <4> QED  BY <4>1
    <3>2. CASE proc[p].op # "remove"
      BY <1>1, <1>5, <1>6, <1>8, <3>2 DEF Packed
    <3> QED  BY <3>1, <3>2
  <2> QED  BY <1>1, <1>5, <1>6, <2>1, LockPackedStep
<1>12. Listed'
  BY <1>1, <1>2, <1>5, <1>6, ListedStep
<1> QED  BY <1>9, <1>10, <1>11, <1>12

LEMMA FiledRequire ==
  ASSUME Staged, Filed, NEW p \in Processes, Require(p)
  PROVE  Filed'
<1> DEFINE s == proc[p].slug
<1>1. /\ Slugged(p) /\ s \in Slugs /\ Others(p) /\ proc[p].pc = "require"
      /\ requirements' = Required(proc[p].base)
      /\ overwritten' = (overwritten \/ lock # proc[p].base)
      /\ UNCHANGED <<disk, lock, packages, unsettled>>
      /\ Stage(p, "require", "audit") \/ Stage(p, "require", "notify") \/ Leaves(p)
  BY RequireMoves DEF Slugged
<1>2. proc[p].pc \notin Mid /\ ~ Sealed(proc'[p]) /\ proc'[p].pc # "require"
  BY <1>1 DEF Stage, Leaves, Mid, Sealed
<1>3. Packed'
  BY <1>1, <1>2, PackedStep DEF Filed
<1> SUFFICES ASSUME ~ overwritten'  PROVE Content' /\ Verified' /\ LockPacked' /\ Listed'
  BY <1>3 DEF Filed
<1>4. Content /\ Verified /\ LockPacked /\ Listed /\ proc[p].base = lock
  BY <1>1 DEF Filed
<1>5. Content'
  <2> SUFFICES ASSUME NEW x \in Checksummed \ unsettled', lock[x] # 0,
                      \A q \in Processes : ~ (proc'[q].slug = x /\ proc'[q].pc \in Mid)
               PROVE  disk[x] = [manifest |-> lock[x], modules |-> lock[x]]
    BY <1>1 DEF Content, Complete
  <2>1. \A q \in Processes : ~ (proc[q].slug = x /\ proc[q].pc \in Mid)
    BY <1>1, <1>2 DEF Others
  <2> QED  BY <1>1, <1>4, <2>1 DEF Content, Complete
<1>6. Verified'
  BY <1>1, <1>2, <1>4 DEF Verified, Others, Complete, Sealed
<1>7. LockPacked'
  BY <1>1, <1>4 DEF LockPacked
<1>8. Listed'
  <2>1. \A x \in Slugs : Needs[x][lock[x]] \subseteq requirements'
    BY <1>1, <1>4, RequiredType DEF Staged, TypeOK
  <2> QED  BY <1>1, <2>1 DEF Listed
<1> QED  BY <1>5, <1>6, <1>7, <1>8

LEMMA FiledReload ==
  ASSUME Staged, Filed, NEW p \in Processes, Audit(p) \/ Notify(p)
  PROVE  Filed'
<1>1. /\ Slugged(p) /\ Others(p) /\ Leaves(p) /\ proc[p].pc \in {"audit", "notify"}
      /\ UNCHANGED <<disk, overwritten, lock, requirements, packages>>
      /\ unsettled \subseteq unsettled'
  BY AuditMoves, NotifyMoves DEF Slugged
<1>2. ~ Sealed(proc'[p]) /\ proc[p].pc \notin Mid /\ proc[p].pc # "require"
  BY <1>1 DEF Leaves, Sealed, Mid
<1> QED  BY <1>1, <1>2, FiledCalm

\* What a crash of Q leaves of the files.
LEMMA FiledCrash ==
  ASSUME Staged, Filed, NEW Q \in SUBSET Processes, Killed(Q),
         requirements' = {} \/ requirements' = requirements \/ requirements' = Required(lock'),
         \/ packages \subseteq packages'
         \/ Q = Processes /\ packages' = requirements' /\ requirements' # {}
         \/ Q = Processes /\ packages' = Required(lock')
  PROVE  Filed'
<1>1. /\ \A p \in Processes : proc'[p] = IF p \in Q THEN Idle ELSE proc[p]
      /\ UNCHANGED <<disk, overwritten>>
      /\ unsettled \subseteq unsettled' /\ unsettled' \subseteq Slugs
      /\ \A p \in Q : proc[p].pc \in Touching => proc[p].slug \in unsettled'
      /\ lock' = lock \/ \A s \in Slugs : lock'[s] = 0
      /\ lock' \in [Slugs -> Versions]
  BY KilledMoves, NoLock
<1>2. ~ Sealed(Idle) /\ Idle.pc \notin Mid /\ Idle.pc # "require"
  BY IdleType DEF Sealed, Mid
<1>3. \A p \in Processes : Sealed(proc'[p]) => proc'[p] = proc[p] /\ p \notin Q
  BY <1>1, <1>2
<1>4. Packed'
  BY <1>3 DEF Filed, Packed
<1> SUFFICES ASSUME ~ overwritten  PROVE Content' /\ Verified' /\ LockPacked' /\ Listed'
  BY <1>1, <1>4 DEF Filed
<1>5. Content /\ Verified /\ LockPacked /\ Listed /\ Checksummed \subseteq Slugs
  BY PluginsAssumption DEF Filed
\* A slug that the crash left settled is in the hands of the survivors only.
<1>6. ASSUME NEW x \in Slugs \ unsettled', NEW pcs \in SUBSET Touching,
             \A q \in Processes : ~ (proc'[q].slug = x /\ proc'[q].pc \in pcs)
      PROVE  \A q \in Processes : ~ (proc[q].slug = x /\ proc[q].pc \in pcs)
  BY <1>1, <1>6
<1>7. Mid \in SUBSET Touching /\ {"require"} \in SUBSET Touching
  BY DEF Mid, Touching
<1>8. Content'
  <2> SUFFICES ASSUME NEW x \in Checksummed \ unsettled', lock'[x] # 0,
                      \A q \in Processes : ~ (proc'[q].slug = x /\ proc'[q].pc \in Mid)
               PROVE  disk[x] = [manifest |-> lock'[x], modules |-> lock'[x]]
    BY <1>1 DEF Content, Complete
  <2>1. \A q \in Processes : ~ (proc[q].slug = x /\ proc[q].pc \in Mid)
    BY <1>5, <1>6, <1>7
  <2>2. lock' = lock
    BY <1>1, <1>5
  <2> QED  BY <1>1, <1>5, <2>1, <2>2 DEF Content, Complete
<1>9. Verified'
  BY <1>1, <1>3, <1>5 DEF Verified, Complete
<1>10. \A x \in Slugs : Needs[x][lock'[x]] = {} \/ lock' = lock
  BY <1>1, PluginsAssumption
<1>11. \A x \in Slugs : Needs[x][lock'[x]] \subseteq Required(lock')
  BY <1>1, RequiredType
<1>12. Listed'
  <2> SUFFICES ASSUME requirements' # {}, NEW x \in Slugs \ unsettled',
                      \A q \in Processes : ~ (proc'[q].slug = x /\ proc'[q].pc = "require")
               PROVE  Needs[x][lock'[x]] \subseteq requirements'
    BY DEF Listed
  <2>1. \A q \in Processes : ~ (proc[q].slug = x /\ proc[q].pc = "require")
    <3>1. \A q \in Processes : ~ (proc'[q].slug = x /\ proc'[q].pc \in {"require"})
      OBVIOUS
    <3>2. \A q \in Processes : ~ (proc[q].slug = x /\ proc[q].pc \in {"require"})
      BY ONLY <1>6, <1>7, <3>1, x \in Slugs \ unsettled'
    <3> QED  BY <3>2
  <2>2. requirements # {} => Needs[x][lock[x]] \subseteq requirements
    BY <1>1, <1>5, <2>1 DEF Listed
  <2> QED  BY <1>10, <1>11, <2>2
<1>13. LockPacked'
  <2> SUFFICES ASSUME NEW x \in Slugs \ unsettled'
               PROVE  Needs[x][lock'[x]] \subseteq packages'
    BY DEF LockPacked
  <2>1. CASE packages \subseteq packages'
    <3>1. Needs[x][lock[x]] \subseteq packages
      BY <1>1, <1>5 DEF LockPacked
    <3> QED  BY <1>10, <2>1, <3>1
  <2>2. CASE packages' = Required(lock')
    BY <1>11, <2>2
  <2>3. CASE Q = Processes /\ packages' = requirements' /\ requirements' # {}
    <3>1. \A q \in Processes : proc'[q].pc # "require"
      BY <1>1, <1>2, <2>3
    <3> QED  BY <1>12, <2>3, <3>1 DEF Listed
  <2> QED  BY <2>1, <2>2, <2>3
<1> QED  BY <1>8, <1>9, <1>12, <1>13

LEMMA FiledNext == Staged /\ Filed /\ [Next]_vars => Filed'
<1> SUFFICES ASSUME Staged, Filed, [Next]_vars  PROVE Filed'
  OBVIOUS
<1>1. CASE UNCHANGED vars \/ Publish \/ \E s \in Slugs : AdminReload(s)
  <2>1. UNCHANGED <<disk, lock, requirements, packages, overwritten, unsettled, proc>>
    BY <1>1 DEF vars, Publish, AdminReload, files
  <2> QED  BY <2>1 DEF Filed, Packed, Content, Verified, LockPacked, Listed, Complete, Sealed
<1>2. ASSUME NEW p \in Clis, CliDies(p)  PROVE Filed'
  <2>1. {p} \in SUBSET Processes
    BY DEF Processes
  <2> QED  BY <1>2, <2>1, CliDiesMoves, FiledCrash
<1>3. CASE Boot
  <2>1. PICK fresh \in BOOLEAN :
           LET Q == IF fresh THEN Processes ELSE Tasks IN
           /\ Killed(Q) /\ LoadAll
           /\ index' = [index EXCEPT ![Server] = Absent]
           /\ requirements' = Required(lock')
                \/ (requirements' = requirements /\ requirements # {})
           /\ packages' = IF fresh THEN requirements' ELSE packages \cup requirements'
    BY <1>3, BootMoves
  <2> DEFINE Q == IF fresh THEN Processes ELSE Tasks
  <2>2. Q \in SUBSET Processes /\ Killed(Q)
    BY <2>1 DEF Processes
  <2>3. requirements' = requirements \/ requirements' = Required(lock')
    BY <2>1
  <2>4. \/ packages \subseteq packages'
        \/ Q = Processes /\ packages' = requirements' /\ requirements' # {}
        \/ Q = Processes /\ packages' = Required(lock')
    BY <2>1
  <2> HIDE DEF Q
  <2> QED  BY <2>2, <2>3, <2>4, FiledCrash
<1> QED  BY <1>1, <1>2, <1>3, Kinds, FiledFetch, FiledInstalls, FiledDownload,
            FiledDownloadFails, FiledVerify, FiledDepend, FiledReadLock, FiledDelete,
            FiledWriteLock, FiledRequire, FiledReload

LEMMA FiledInit == Init => Filed
<1> SUFFICES ASSUME Init  PROVE Filed
  OBVIOUS
<1>1. /\ \A p \in Processes : proc[p].pc = "idle"
      /\ disk = [s \in Slugs |-> [manifest |-> lock[s], modules |-> lock[s]]]
      /\ requirements = Required(lock) /\ packages = requirements
  BY IdleType DEF Init
<1>2. lock \in [Slugs -> Versions] /\ Checksummed \subseteq Slugs
  BY StagedInit, PluginsAssumption DEF Staged, TypeOK
<1>3. \A s \in Slugs : Needs[s][lock[s]] \subseteq requirements
  BY <1>1, <1>2, RequiredType
<1> QED  BY <1>1, <1>2, <1>3
         DEF Filed, Packed, Content, Verified, LockPacked, Listed, Complete, Sealed

THEOREM FiledInvariant == Spec => [](Staged /\ Filed)
<1>1. Init => Filed
  BY FiledInit
<1>2. Staged /\ Filed /\ [Next]_vars => Filed'
  BY FiledNext
<1> QED  BY <1>1, <1>2, StagedInvariant, PTL DEF Spec

\* What the lock file says can be relied on, for the files of a plugin and for
\* the packages it needs, whatever crosses, fails or crashes, but for slugs
\* left half-way and crossings that are recorded (installer.py:57-118, 190-212).
THEOREM LockIsTrue == Spec => []FilesFollowLock
<1>1. Staged /\ Filed => FilesFollowLock
  <2> SUFFICES ASSUME Staged, Filed  PROVE FilesFollowLock
    OBVIOUS
  <2>1. Mid \subseteq Touching
    BY DEF Mid, Touching
  <2>2. LockTellsContent
    BY <2>1 DEF Filed, Content, LockTellsContent, Busy
  <2>3. PackagesFollowLock
    BY DEF Filed, LockPacked, PackagesFollowLock
  <2> QED  BY <2>2, <2>3 DEF FilesFollowLock, Staged
<1> QED  BY <1>1, FiledInvariant, PTL
-----------------------------------------------------------------------------
(* The engines of the server. *)

\* LoadedAs of the next state.
NowLoadedAs(s, v) ==
  /\ attributed'[s] = Defines[s][v]
  /\ \A n \in Names \ stray' :
       registered'[n] # None /\ registered'[n].by = s => registered'[n].version = v

LEMMA EnginedParts ==
  ASSUME OwnerKnown',
         ASSUME ~ overwritten', NEW x \in Checksummed \ unsettled', lock'[x] # 0,
                \A q \in Processes : ~ (proc'[q].slug = x /\ ToLoad(proc'[q]))
         PROVE  NowLoadedAs(x, lock'[x])
  PROVE  Engined'
BY DEF Engined, LoadedAs, NowLoadedAs, ToLoad

\* The registry entry of a name after the transforms of s were taken out and
\* its modules loaded.
LEMMA ReregisterEffect ==
  ASSUME Staged, NEW s \in Slugs, Reregister(s), NEW n \in Names
  PROVE  \/ /\ n \in Loaded(s) /\ registered'[n] = Owner(s, disk[s].modules)
            /\ registered'[n].by = s /\ registered'[n].version = disk[s].modules
         \/ n \notin Loaded(s) /\ n \in attributed[s] /\ registered'[n] = None
         \/ n \notin Loaded(s) /\ n \notin attributed[s] /\ registered'[n] = registered[n]
<1>1. registered'[n] = IF n \in Loaded(s) THEN Owner(s, disk[s].modules)
                       ELSE IF n \in attributed[s] THEN None ELSE registered[n]
  BY DEF Reregister
<1>2. Owner(s, disk[s].modules).by = s /\ Owner(s, disk[s].modules).version = disk[s].modules
  BY DEF Owner
<1> QED  BY <1>1, <1>2

LEMMA KnownOwners ==
  ASSUME Staged, OwnerKnown, NEW n \in Names \ stray, registered[n] # None,
         registered[n].by # None
  PROVE  registered[n].by \in Slugs /\ n \in attributed[registered[n].by]
<1>1. registered[n] \in [by : Slugs \cup {None}, version : Versions]
  BY DEF Staged, TypeOK
<1> QED  BY <1>1 DEF OwnerKnown

\* A reload of a plugin that is known to the server.
LEMMA ReloadKnown ==
  ASSUME Staged, OwnerKnown, NEW s \in Slugs, Reregister(s),
         attributed' = [attributed EXCEPT ![s] = Loaded(s)], stray' = stray \ Loaded(s)
  PROVE  /\ OwnerKnown'
         /\ NowLoadedAs(s, disk[s].modules)
         /\ \A x \in Slugs \ {s} : \A v : LoadedAs(x, v) => NowLoadedAs(x, v)
<1>1. /\ attributed'[s] = Loaded(s) /\ \A x \in Slugs \ {s} : attributed'[x] = attributed[x]
      /\ None \notin Slugs
  BY PluginsAssumption DEF Staged, TypeOK
<1>2. ASSUME NEW n \in Names \ stray', n \notin Loaded(s), registered'[n] # None
      PROVE  n \in Names \ stray /\ registered'[n] = registered[n] /\ n \notin attributed[s]
  BY <1>2, ReregisterEffect
<1>3. ASSUME NEW n \in Names, n \in Loaded(s)
      PROVE  registered'[n].by = s /\ registered'[n].version = disk[s].modules
  BY <1>3, ReregisterEffect
<1>4. OwnerKnown'
  <2> SUFFICES ASSUME NEW n \in Names \ stray', registered'[n] # None, registered'[n].by # None
               PROVE  n \in attributed'[registered'[n].by]
    BY DEF OwnerKnown
  <2>1. CASE n \in Loaded(s)
    BY <1>1, <1>3, <2>1
  <2>2. CASE n \notin Loaded(s)
    BY <1>1, <1>2, <2>2, KnownOwners
  <2> QED  BY <2>1, <2>2
<1>5. ASSUME NEW n \in Names \ stray', registered'[n] # None, registered'[n].by = s
      PROVE  registered'[n].version = disk[s].modules
  BY <1>1, <1>2, <1>3, <1>5, KnownOwners
<1>6. NowLoadedAs(s, disk[s].modules)
  BY <1>1, <1>5 DEF NowLoadedAs, Loaded
<1>7. ASSUME NEW x \in Slugs \ {s}, NEW v, LoadedAs(x, v)  PROVE NowLoadedAs(x, v)
  <2>1. ASSUME NEW n \in Names \ stray', registered'[n] # None, registered'[n].by = x
        PROVE  registered'[n].version = v
    BY <1>2, <1>3, <1>7, <2>1 DEF LoadedAs
  <2> QED  BY <1>1, <1>7, <2>1 DEF LoadedAs, NowLoadedAs
<1> QED  BY <1>4, <1>6, <1>7

\* A reload that answers 404.
LEMMA ReloadUnknown ==
  ASSUME Staged, OwnerKnown, NEW s \in Slugs, Reregister(s),
         attributed' = attributed, stray' = stray \cup Loaded(s)
  PROVE  /\ OwnerKnown'
         /\ \A x \in Slugs : \A v : LoadedAs(x, v) => NowLoadedAs(x, v)
<1>1. ASSUME NEW n \in Names \ stray', registered'[n] # None
      PROVE  n \in Names \ stray /\ registered'[n] = registered[n]
  BY <1>1, ReregisterEffect
<1>2. OwnerKnown'
  BY <1>1 DEF OwnerKnown
<1>3. ASSUME NEW x \in Slugs, NEW v, LoadedAs(x, v)  PROVE NowLoadedAs(x, v)
  BY <1>1, <1>3 DEF LoadedAs, NowLoadedAs
<1> QED  BY <1>2, <1>3

\* A step of p that leaves the engines and changes the lock of s at most.
LEMMA EngineStep ==
  ASSUME Engined, Checksummed \subseteq Slugs, NEW p \in Processes, Others(p), NEW s \in Slugs,
         UNCHANGED <<attributed, registered, stray>>, overwritten => overwritten',
         ~ overwritten' =>
           /\ \A x \in Slugs \ {s} : lock'[x] = lock[x]
           /\ unsettled \subseteq unsettled' \cup {s}
           /\ ToLoad(proc[p]) => proc[p].slug = s
           /\ \/ s \in unsettled'
              \/ lock'[s] = 0
              \/ proc'[p].slug = s /\ ToLoad(proc'[p])
              \/ ~ ToLoad(proc[p]) /\ lock'[s] = lock[s] /\ unsettled \subseteq unsettled'
  PROVE  Engined'
<1>1. OwnerKnown'
  BY DEF Engined, OwnerKnown
<1> SUFFICES ASSUME ~ overwritten', NEW x \in Checksummed \ unsettled', lock'[x] # 0,
                    \A q \in Processes : ~ (proc'[q].slug = x /\ ToLoad(proc'[q]))
             PROVE  NowLoadedAs(x, lock'[x])
  BY <1>1, EnginedParts
<1>2. lock'[x] = lock[x] /\ x \notin unsettled
  OBVIOUS
<1>3. \A q \in Processes : ~ (proc[q].slug = x /\ ToLoad(proc[q]))
  BY DEF Others
<1>4. LoadedAs(x, lock[x])
  BY <1>2, <1>3 DEF Engined
<1> QED  BY <1>2, <1>4 DEF LoadedAs, NowLoadedAs
\* The steps before the server is told.
LEMMA EnginedFiles ==
  ASSUME Staged, Filed, Engined, NEW p \in Processes,
         \/ Download(p) \/ DownloadFails(p) \/ Verify(p) \/ Depend(p)
         \/ ReadLock(p) \/ Delete(p) \/ WriteLock(p) \/ Require(p)
  PROVE  Engined'
<1> DEFINE s == proc[p].slug
<1>1. Slugged(p) /\ UNCHANGED <<attributed, registered, stray>>
  BY DownloadMoves, DownloadFailsMoves, VerifyMoves, DependMoves, ReadLockMoves, DeleteMoves,
     WriteLockMoves, RequireMoves
<1>2. s \in Slugs /\ Others(p) /\ Checksummed \subseteq Slugs
  BY <1>1, PluginsAssumption DEF Slugged
<1>3. CASE WriteLock(p)
  <2>1. /\ Stage(p, "writelock", "require")
        /\ lock' = [proc[p].base EXCEPT ![s] = proc[p].meta]
        /\ overwritten' = (overwritten \/ lock # proc[p].base)
        /\ unsettled' = unsettled \ {s}
    BY <1>3, WriteLockMoves
  <2>2. ASSUME ~ overwritten'
        PROVE  lock'[s] = proc[p].meta /\ \A x \in Slugs \ {s} : lock'[x] = lock[x]
    <3> DEFINE meta == proc[p].meta
    <3>1. lock' = [lock EXCEPT ![s] = meta]
      BY <2>1, <2>2
    <3>2. lock \in [Slugs -> Versions]
      BY DEF Staged, TypeOK
    <3> HIDE DEF s, meta
    <3>3. lock'[s] = meta /\ \A x \in Slugs \ {s} : lock'[x] = lock[x]
      BY <1>2, <3>1, <3>2
    <3> QED  BY <3>3 DEF meta
  <2>3. proc[p].op = "remove" => proc[p].meta = 0
    BY DEF Staged, StagedProc
  <2>4. proc[p].op # "remove" => proc'[p].slug = s /\ ToLoad(proc'[p])
    BY <2>1 DEF Stage, ToLoad
  <2> QED  BY <1>1, <1>2, <2>1, <2>2, <2>3, <2>4, EngineStep
<1>4. CASE Download(p) \/ Delete(p)
  <2>1. /\ lock' = lock /\ unsettled' = unsettled
        /\ overwritten => overwritten'
        /\ proc'[p].slug = s /\ proc'[p].pc \in Mid
    BY <1>4, DownloadMoves, DeleteMoves DEF Stage, Mid, Write
  <2> QED  BY <1>1, <1>2, <2>1, EngineStep DEF ToLoad
<1>5. CASE DownloadFails(p)
  <2>1. /\ lock' = lock /\ overwritten' = overwritten /\ unsettled' = unsettled \cup {s}
    BY <1>5, DownloadFailsMoves
  <2> QED  BY <1>1, <1>2, <2>1, EngineStep
<1>6. CASE Verify(p)
  <2>1. /\ lock' = lock
        /\ overwritten => overwritten'
        /\ \/ unsettled' = unsettled /\ proc'[p].slug = s /\ proc'[p].pc \in Mid
           \/ unsettled' = unsettled \cup {s}
    BY <1>6, VerifyMoves DEF Stage, Mid, Write
  <2> QED  BY <1>1, <1>2, <2>1, EngineStep DEF ToLoad
<1>7. CASE Depend(p)
  <2>1. /\ lock' = lock /\ overwritten' = overwritten
        /\ \/ unsettled' = unsettled /\ proc'[p].slug = s /\ proc'[p].pc \in Mid
           \/ unsettled' = unsettled \cup {s}
    BY <1>7, DependMoves DEF Stage, Mid
  <2> QED  BY <1>1, <1>2, <2>1, EngineStep DEF ToLoad
<1>8. CASE ReadLock(p)
  <2>1. /\ lock' = lock /\ overwritten' = overwritten /\ unsettled' = unsettled
        /\ \/ proc'[p].slug = s /\ proc'[p].pc \in Mid
           \/ lock[s] = 0
    BY <1>8, ReadLockMoves DEF Stage, Mid
  <2> QED  BY <1>1, <1>2, <2>1, EngineStep DEF ToLoad
<1>9. CASE Require(p)
  <2>1. /\ lock' = lock /\ unsettled' = unsettled
        /\ overwritten => overwritten'
        /\ proc[p].pc = "require"
        /\ \/ proc'[p].slug = s /\ proc'[p].op = proc[p].op /\ proc'[p].pc \in {"audit", "notify"}
           \/ proc[p].op = "remove"
    BY <1>9, RequireMoves DEF Stage
  <2>2. proc[p].op = "remove" => ~ ToLoad(proc[p])
    BY <2>1 DEF ToLoad, Mid
  <2>3. proc[p].op # "remove" => proc'[p].slug = s /\ ToLoad(proc'[p])
    BY <2>1 DEF ToLoad
  <2> QED  BY <1>1, <1>2, <2>1, <2>2, <2>3, EngineStep
<1> QED  BY <1>3, <1>4, <1>5, <1>6, <1>7, <1>8, <1>9

\* What the files of a slug that nobody has in hand are.
LEMMA LoadedContent ==
  ASSUME Filed', ~ overwritten', NEW x \in Checksummed \ unsettled', lock'[x] # 0,
         \A q \in Processes : ~ (proc'[q].slug = x /\ ToLoad(proc'[q]))
  PROVE  disk'[x] = [manifest |-> lock'[x], modules |-> lock'[x]]
<1>1. \A q \in Processes : ~ (proc'[q].slug = x /\ proc'[q].pc \in Mid)
  BY DEF ToLoad
<1>2. Content'
  BY DEF Filed
<1> QED  BY <1>1, <1>2 DEF Content, Complete

\* A reload of s, by a process that then leaves it or by an administrator.
LEMMA EnginedReload ==
  ASSUME Staged, Filed', Engined, NEW s \in Slugs, Reregister(s),
         UNCHANGED <<disk, lock, overwritten>>, unsettled \subseteq unsettled',
         \/ /\ attributed' = [attributed EXCEPT ![s] = Loaded(s)]
            /\ stray' = stray \ Loaded(s)
         \/ attributed' = attributed /\ stray' = stray \cup Loaded(s),
         \A q \in Processes : \A x \in Slugs \ unsettled' :
           proc[q].slug = x /\ ToLoad(proc[q]) =>
             \/ proc'[q].slug = x /\ ToLoad(proc'[q])
             \/ x = s /\ attributed' = [attributed EXCEPT ![s] = Loaded(s)]
                      /\ stray' = stray \ Loaded(s)
  PROVE  Engined'
<1>1. OwnerKnown /\ Checksummed \subseteq Slugs
  BY PluginsAssumption DEF Engined
<1>2. ASSUME ~ overwritten, NEW x \in Checksummed \ unsettled', lock[x] # 0,
             \A q \in Processes : ~ (proc[q].slug = x /\ ToLoad(proc[q]))
      PROVE  LoadedAs(x, lock[x])
  BY <1>2 DEF Engined
<1>3. CASE attributed' = [attributed EXCEPT ![s] = Loaded(s)] /\ stray' = stray \ Loaded(s)
  <2>1. /\ OwnerKnown' /\ NowLoadedAs(s, disk[s].modules)
        /\ \A x \in Slugs \ {s} : \A v : LoadedAs(x, v) => NowLoadedAs(x, v)
    BY <1>1, <1>3, ReloadKnown
  <2>2. ASSUME ~ overwritten', NEW x \in Checksummed \ unsettled', lock'[x] # 0,
               \A q \in Processes : ~ (proc'[q].slug = x /\ ToLoad(proc'[q]))
        PROVE  NowLoadedAs(x, lock'[x])
    <3>1. CASE x = s
      <4>1. disk'[x] = [manifest |-> lock'[x], modules |-> lock'[x]]
        BY <2>2, LoadedContent
      <4>2. disk[s].modules = lock'[x]
        BY <3>1, <4>1
      <4> QED  BY <2>1, <3>1, <4>2
    <3>2. CASE x # s
      <4>1. \A q \in Processes : ~ (proc[q].slug = x /\ ToLoad(proc[q]))
        BY <1>1, <2>2, <3>2
      <4> QED  BY <1>1, <1>2, <2>1, <2>2, <3>2, <4>1
    <3> QED  BY <3>1, <3>2
  <2> QED  BY <2>1, <2>2, EnginedParts
<1>4. CASE /\ attributed' = attributed /\ stray' = stray \cup Loaded(s)
           /\ ~ (attributed' = [attributed EXCEPT ![s] = Loaded(s)] /\ stray' = stray \ Loaded(s))
  <2>1. /\ OwnerKnown'
        /\ \A x \in Slugs : \A v : LoadedAs(x, v) => NowLoadedAs(x, v)
    BY <1>1, <1>4, ReloadUnknown
  <2>2. ASSUME ~ overwritten', NEW x \in Checksummed \ unsettled', lock'[x] # 0,
               \A q \in Processes : ~ (proc'[q].slug = x /\ ToLoad(proc'[q]))
        PROVE  NowLoadedAs(x, lock'[x])
    <3>1. \A q \in Processes : ~ (proc[q].slug = x /\ ToLoad(proc[q]))
      BY <1>1, <1>4, <2>2
    <3> QED  BY <1>1, <1>2, <2>1, <2>2, <3>1
  <2> QED  BY <2>1, <2>2, EnginedParts
<1> QED  BY <1>3, <1>4
LEMMA EnginedFetch ==
  ASSUME Staged, Engined, NEW p \in Processes, Fetches(p)
  PROVE  Engined'
<1>1. /\ Others(p) /\ ~ ToLoad(proc[p])
      /\ UNCHANGED <<attributed, registered, stray, lock, overwritten, unsettled>>
  BY DEF Fetches, ToLoad, Touching, Mid
<1>2. OwnerKnown'
  BY <1>1 DEF Engined, OwnerKnown
<1>3. ASSUME ~ overwritten', NEW x \in Checksummed \ unsettled', lock'[x] # 0,
             \A q \in Processes : ~ (proc'[q].slug = x /\ ToLoad(proc'[q]))
      PROVE  NowLoadedAs(x, lock'[x])
  <2>1. \A q \in Processes : ~ (proc[q].slug = x /\ ToLoad(proc[q]))
    BY <1>1, <1>3 DEF Others
  <2> QED  BY <1>1, <1>3, <2>1 DEF Engined, LoadedAs, NowLoadedAs
<1> QED  BY <1>2, <1>3, EnginedParts

LEMMA EnginedInstalls ==
  ASSUME Staged, Engined, NEW p \in Processes, NEW s \in Slugs, Installs(p, s)
  PROVE  Engined'
<1>1. /\ UNCHANGED <<attributed, registered, stray, lock, unsettled>> /\ Others(p)
      /\ ~ ToLoad(proc[p]) /\ proc'[p].slug = s /\ ToLoad(proc'[p])
  BY DEF Installs, ToLoad, Mid
<1>2. overwritten => overwritten'
  BY DEF Installs, Write
<1> QED  BY <1>1, <1>2, EngineStep, PluginsAssumption

LEMMA EnginedAudit ==
  ASSUME Staged, Filed', Engined, NEW p \in Processes, Audit(p) \/ Notify(p)
  PROVE  Engined'
<1> DEFINE s == proc[p].slug
<1>1. /\ Slugged(p) /\ s \in Slugs /\ Others(p) /\ UNCHANGED <<disk, lock, overwritten>>
      /\ proc[p].pc \in {"audit", "notify"}
  BY AuditMoves, NotifyMoves DEF Slugged
<1>2. Checksummed \subseteq Slugs
  BY PluginsAssumption
<1>3. CASE unsettled' = unsettled \cup {s} /\ UNCHANGED <<attributed, registered, stray>>
  BY <1>1, <1>2, <1>3, EngineStep
<1>4. CASE proc[p].op = "remove" /\ UNCHANGED <<unsettled, attributed, registered, stray>>
  <2>1. ~ ToLoad(proc[p])
    BY <1>1, <1>4 DEF ToLoad, Mid
  <2> QED  BY <1>1, <1>2, <1>4, <2>1, EngineStep
<1>5. CASE ReloadRuntime(s) /\ UNCHANGED unsettled
  BY <1>1, <1>5, EnginedReload DEF ReloadRuntime, Others
<1>6. CASE /\ Reload(s)
           /\ unsettled' = IF plugins[s] # 0 THEN unsettled ELSE unsettled \cup {s}
  BY <1>1, <1>6, EnginedReload DEF Reload, Others
<1> QED  BY <1>3, <1>4, <1>5, <1>6, AuditMoves, NotifyMoves

LEMMA EnginedAdmin ==
  ASSUME Staged, Filed', Engined, NEW s \in Slugs, AdminReload(s)
  PROVE  Engined'
<1>1. Reload(s) /\ UNCHANGED <<disk, lock, overwritten, unsettled, proc>>
  BY DEF AdminReload, files
<1> QED  BY <1>1, EnginedReload DEF Reload

LEMMA EnginedDies ==
  ASSUME Staged, Engined, NEW p \in Clis, CliDies(p)
  PROVE  Engined'
<1>1. p \in Processes /\ {p} \in SUBSET Processes
  BY DEF Processes
<1>2. Killed({p}) /\ UNCHANGED <<attributed, registered, stray>>
  BY CliDiesMoves
<1>3. /\ \A q \in Processes : proc'[q] = IF q \in {p} THEN Idle ELSE proc[q]
      /\ overwritten' = overwritten /\ unsettled \subseteq unsettled'
      /\ \A q \in {p} : proc[q].pc \in Touching => proc[q].slug \in unsettled'
      /\ lock' = lock \/ \A s \in Slugs : lock'[s] = 0
  BY <1>1, <1>2, KilledMoves, NoLock
<1>4. OwnerKnown'
  BY <1>2 DEF Engined, OwnerKnown
<1>5. ASSUME ~ overwritten', NEW x \in Checksummed \ unsettled', lock'[x] # 0,
             \A q \in Processes : ~ (proc'[q].slug = x /\ ToLoad(proc'[q]))
      PROVE  NowLoadedAs(x, lock'[x])
  <2>1. lock' = lock
    BY <1>3, <1>5, PluginsAssumption
  <2>2. \A q \in Processes : ToLoad(proc[q]) => proc[q].pc \in Touching
    BY DEF ToLoad, Mid, Touching
  <2>3. \A q \in Processes : ~ (proc[q].slug = x /\ ToLoad(proc[q]))
    BY <1>3, <1>5, <2>2
  <2> QED  BY <1>2, <1>3, <1>5, <2>1, <2>3 DEF Engined, LoadedAs, NowLoadedAs
<1> QED  BY <1>4, <1>5, EnginedParts

\* A server that starts loads what is on the disk.
LEMMA EnginedBoot ==
  ASSUME Staged, Filed', Boot
  PROVE  Engined'
<1>1. LoadAll
  BY DEF Boot
<1>2. disk' = disk
  BY DEF Boot, Killed
<1>3. /\ attributed' = StartAttribution /\ registered' = StartRegistry /\ stray' = {}
  BY <1>1 DEF LoadAll
<1>4. /\ \A s \in Slugs : StartAttribution[s] = IF disk[s].manifest # 0 THEN Loaded(s) ELSE {}
      /\ \A n \in Names : StartRegistry[n] # None /\ StartRegistry[n].by # None =>
              /\ n \in StartAttribution[StartRegistry[n].by]
              /\ StartRegistry[n].by \in Slugs
              /\ StartRegistry[n].version = disk[StartRegistry[n].by].modules
  BY StartFacts DEF Staged, TypeOK, FileTypes, Packages
<1>5. OwnerKnown'
  BY <1>3, <1>4 DEF OwnerKnown
<1>6. ASSUME ~ overwritten', NEW x \in Checksummed \ unsettled', lock'[x] # 0,
             \A q \in Processes : ~ (proc'[q].slug = x /\ ToLoad(proc'[q]))
      PROVE  NowLoadedAs(x, lock'[x])
  <2>1. disk[x] = [manifest |-> lock'[x], modules |-> lock'[x]]
    BY <1>2, <1>6, LoadedContent
  <2>2. x \in Slugs /\ x # None /\ disk[x].manifest = lock'[x] /\ disk[x].modules = lock'[x]
    BY <2>1, PluginsAssumption
  <2>3. attributed'[x] = Defines[x][lock'[x]]
    BY <1>3, <1>4, <1>6, <2>2 DEF Loaded
  <2>4. \A n \in Names : registered'[n] # None /\ registered'[n].by = x
                           => registered'[n].version = lock'[x]
    BY <1>3, <1>4, <2>2
  <2> QED  BY <2>3, <2>4 DEF NowLoadedAs
<1> QED  BY <1>5, <1>6, EnginedParts

LEMMA EnginedNext == Staged /\ Filed /\ Filed' /\ Engined /\ [Next]_vars => Engined'
<1> SUFFICES ASSUME Staged, Filed, Filed', Engined, [Next]_vars  PROVE Engined'
  OBVIOUS
<1>1. CASE UNCHANGED vars \/ Publish
  <2>1. UNCHANGED <<lock, attributed, registered, stray, overwritten, unsettled, proc>>
    BY <1>1 DEF vars, Publish, engines, files
  <2> QED  BY <2>1 DEF Engined, OwnerKnown, LoadedAs, ToLoad
<1> QED  BY <1>1, Kinds, EnginedFetch, EnginedInstalls, EnginedFiles, EnginedAudit, EnginedAdmin,
            EnginedDies, EnginedBoot

LEMMA EnginedInit == Init => Engined
<1> SUFFICES ASSUME Init  PROVE Engined
  OBVIOUS
<1>1. /\ disk = [s \in Slugs |-> [manifest |-> lock[s], modules |-> lock[s]]]
      /\ attributed = StartAttribution /\ registered = StartRegistry /\ stray = {}
  BY DEF Init
<1>2. /\ \A s \in Slugs : StartAttribution[s] = IF disk[s].manifest # 0 THEN Loaded(s) ELSE {}
      /\ \A n \in Names : StartRegistry[n] # None /\ StartRegistry[n].by # None =>
              /\ n \in StartAttribution[StartRegistry[n].by]
              /\ StartRegistry[n].by \in Slugs
              /\ StartRegistry[n].version = disk[StartRegistry[n].by].modules
  BY StagedInit, StartFacts DEF Staged, TypeOK, FileTypes, Packages
<1>3. \A s \in Slugs : disk[s].manifest = lock[s] /\ disk[s].modules = lock[s] /\ s # None
  BY <1>1, PluginsAssumption
<1>4. OwnerKnown
  BY <1>1, <1>2 DEF OwnerKnown
<1>5. ASSUME NEW x \in Slugs, lock[x] # 0  PROVE LoadedAs(x, lock[x])
  BY <1>1, <1>2, <1>3, <1>5 DEF LoadedAs, Loaded
<1> QED  BY <1>4, <1>5, PluginsAssumption DEF Engined

THEOREM EnginedInvariant == Spec => []Engined
<1>1. Init => Engined
  BY EnginedInit
<1>2. Staged /\ Filed /\ Filed' /\ Engined /\ [Next]_vars => Engined'
  BY EnginedNext
<1> QED  BY <1>1, <1>2, FiledInvariant, PTL DEF Spec

\* Once the changes of a plugin have ended well the server runs what the lock
\* file says and no other, and it knows where each transform comes from,
\* whatever reloads and restarts came between (api/plugins.py:144-173).
THEOREM ServerIsUpToDate == Spec => []ServerFollowsLock
<1>1. Engined => ServerFollowsLock
  <2> SUFFICES ASSUME Engined  PROVE ServerFollowsLock
    OBVIOUS
  <2>1. \A r : ToLoad(r) => r.pc \in Touching
    BY DEF ToLoad, Mid, Touching
  <2> QED  BY <2>1 DEF Engined, ServerFollowsLock, LoadedFollowsLock, LoadedAs, Busy
<1> QED  BY <1>1, EnginedInvariant, PTL
-----------------------------------------------------------------------------
(* The versions of the plugins with a checksum.                            *)

LEMMA Numbers ==
  ASSUME Staged, NEW s \in Slugs
  PROVE  /\ main \in Revisions /\ main \in Nat /\ lock[s] \in Nat /\ disk[s].modules \in Nat
         /\ \A m \in Revisions : m \in Nat /\ Version[s][m] \in Nat
BY PluginsAssumption DEF Staged, TypeOK, Revisions, Versions

\* A step that changes no version of a plugin but those that s may have.
LEMMA AscendingStep ==
  ASSUME Staged, Ascending, NEW s \in Slugs, main' = main, overwritten => overwritten',
         ~ overwritten' =>
           /\ \A x \in Slugs \ {s} : lock'[x] = lock[x] /\ disk'[x] = disk[x]
           /\ s \in Checksummed =>
                /\ lock'[s] # 0 => Published(s, lock'[s])
                /\ disk'[s].modules # 0 =>
                     Published(s, disk'[s].modules) /\ lock'[s] <= disk'[s].modules
  PROVE  Ascending'
<1> SUFFICES ASSUME ~ overwritten', NEW x \in Checksummed
             PROVE  /\ lock'[x] # 0 => \E m \in Revisions : m <= main /\ lock'[x] = Version[x][m]
                    /\ disk'[x].modules # 0 =>
                         /\ \E m \in Revisions : m <= main /\ disk'[x].modules = Version[x][m]
                         /\ lock'[x] <= disk'[x].modules
  BY DEF Ascending, Published
<1>1. CASE x = s
  BY <1>1 DEF Published
<1>2. CASE x # s
  BY <1>2, PluginsAssumption DEF Ascending, Published
<1> QED  BY <1>1, <1>2

\* A step that empties the files of s, or leaves them, and leaves the lock.
LEMMA AscendingKept ==
  ASSUME Staged, Ascending, NEW s \in Slugs, main' = main, overwritten => overwritten',
         lock' = lock, \A x \in Slugs \ {s} : disk'[x] = disk[x],
         disk'[s].modules \in {0, disk[s].modules}
  PROVE  Ascending'
<1>1. ASSUME ~ overwritten'
      PROVE  s \in Checksummed =>
                /\ lock'[s] # 0 => Published(s, lock'[s])
                /\ disk'[s].modules # 0 =>
                     Published(s, disk'[s].modules) /\ lock'[s] <= disk'[s].modules
  BY <1>1 DEF Ascending
<1> QED  BY <1>1, AscendingStep

LEMMA AscendingWriteLock ==
  ASSUME Staged, Filed, Ascending, NEW p \in Processes, WriteLock(p)
  PROVE  /\ Ascending'
         /\ ~ overwritten' => \A s \in Checksummed : lock'[s] = 0 \/ lock'[s] >= lock[s]
<1> DEFINE s == proc[p].slug
           meta == proc[p].meta
<1>1. /\ s \in Slugs /\ main' = main /\ disk' = disk
      /\ lock' = [proc[p].base EXCEPT ![s] = meta]
      /\ overwritten' = (overwritten \/ lock # proc[p].base)
      /\ proc[p].pc = "writelock"
  BY WriteLockMoves DEF Slugged, Stage
<1>2. proc[p].op = "remove" => meta = 0
  BY DEF Staged, StagedProc
<1>3. /\ \A x \in Slugs : lock[x] \in Nat /\ disk[x].modules \in Nat
      /\ lock \in [Slugs -> Versions] /\ Checksummed \subseteq Slugs
  BY Numbers, PluginsAssumption DEF Staged, TypeOK
<1>4. ASSUME ~ overwritten', s \in Checksummed, meta # 0
      PROVE  /\ disk[s].modules = meta /\ meta \in Nat
             /\ Published(s, meta) /\ lock[s] <= meta
  <2>1. Sealed(proc[p])
    BY <1>1, <1>2, <1>4 DEF Sealed
  <2>2. ~ overwritten /\ Verified
    BY <1>1, <1>4 DEF Filed
  <2>3. disk[s].modules = meta
    <3>1. disk[s] = [manifest |-> meta, modules |-> meta]
      BY <1>4, <2>1, <2>2 DEF Verified, Complete
    <3> HIDE DEF s, meta
    <3> QED  BY <3>1
  <2>4. s \in Slugs /\ disk[s].modules \in Nat
    BY <1>1, <1>3
  <2> HIDE DEF s, meta
  <2> QED  BY <1>4, <2>2, <2>3, <2>4 DEF Ascending, Published
<1>5. ASSUME ~ overwritten'
      PROVE  /\ ~ overwritten
             /\ lock'[s] = meta /\ \A x \in Slugs \ {s} : lock'[x] = lock[x]
  <2>1. lock' = [lock EXCEPT ![s] = meta] /\ ~ overwritten
    BY <1>1, <1>5
  <2> HIDE DEF s, meta
  <2> QED  BY <1>1, <1>3, <2>1
<1> HIDE DEF s, meta
<1>6. overwritten => overwritten'
  BY <1>1
<1>7. ASSUME ~ overwritten', s \in Checksummed
      PROVE  /\ lock'[s] # 0 => Published(s, lock'[s])
             /\ disk'[s].modules # 0 =>
                  Published(s, disk'[s].modules) /\ lock'[s] <= disk'[s].modules
  <2>1. lock'[s] = meta /\ ~ overwritten
    BY <1>5, <1>7
  <2>2. CASE meta = 0
    <3>1. disk[s].modules # 0 => Published(s, disk[s].modules) /\ 0 <= disk[s].modules
      BY <1>1, <1>3, <1>7, <2>1 DEF Ascending
    <3> QED  BY <1>1, <2>1, <2>2, <3>1
  <2>3. CASE meta # 0
    BY <1>1, <1>4, <1>7, <2>1, <2>3
  <2> QED  BY <2>2, <2>3
<1>8. Ascending'
  BY <1>1, <1>5, <1>6, <1>7, AscendingStep
<1>9. ASSUME ~ overwritten', NEW x \in Checksummed
      PROVE  lock'[x] = 0 \/ lock'[x] >= lock[x]
  <2>1. CASE x = s
    BY <1>1, <1>3, <1>4, <1>5, <1>9, <2>1
  <2>2. CASE x # s
    BY <1>3, <1>5, <1>9, <2>2
  <2> QED  BY <2>1, <2>2
<1> QED  BY <1>8, <1>9

\* The files always come from the newest revision.
LEMMA AscendingDownload ==
  ASSUME VersionsAscend, Staged, Ascending, NEW p \in Processes, Download(p)
  PROVE  Ascending'
<1> DEFINE s == proc[p].slug
           new == Version[s][main]
<1>1. /\ s \in Slugs /\ main' = main /\ lock' = lock
      /\ \/ Write(p, s, [disk[s] EXCEPT !.manifest = new])
         \/ Write(p, s, [disk[s] EXCEPT !.modules = new])
  BY DownloadMoves DEF Slugged
<1> HIDE DEF s, new
<1>2. /\ disk \in [Slugs -> [manifest : Versions, modules : Versions]]
      /\ overwritten => overwritten'
  BY <1>1 DEF Staged, TypeOK, Write
<1>3. CASE Write(p, s, [disk[s] EXCEPT !.manifest = new])
  <2>1. disk' = [disk EXCEPT ![s] = [disk[s] EXCEPT !.manifest = new]]
    BY <1>3 DEF Write
  <2>2. disk'[s].modules = disk[s].modules /\ \A x \in Slugs \ {s} : disk'[x] = disk[x]
    BY <1>1, <1>2, <2>1
  <2> QED  BY <1>1, <1>2, <2>2, AscendingKept
<1>4. CASE Write(p, s, [disk[s] EXCEPT !.modules = new])
  <2>1. disk' = [disk EXCEPT ![s] = [disk[s] EXCEPT !.modules = new]]
    BY <1>4 DEF Write
  <2>2. disk'[s].modules = new /\ \A x \in Slugs \ {s} : disk'[x] = disk[x]
    BY <1>1, <1>2, <2>1
  <2>3. /\ main \in Revisions /\ main \in Nat /\ lock[s] \in Nat
        /\ \A m \in Revisions : m \in Nat /\ Version[s][m] \in Nat
    BY <1>1, Numbers
  <2>4. Published(s, new) /\ new \in Nat
    BY <2>3 DEF Published, new
  <2>5. ASSUME ~ overwritten, s \in Checksummed, new # 0
        PROVE  lock[s] <= new
    <3>1. CASE lock[s] = 0
      BY <2>4, <3>1
    <3>2. CASE lock[s] # 0
      <4>1. PICK m \in Revisions : m <= main /\ lock[s] = Version[s][m]
        BY <2>5, <3>2 DEF Ascending, Published
      <4> QED  BY <1>1, <2>3, <2>5, <3>2, <4>1 DEF VersionsAscend, new
    <3> QED  BY <3>1, <3>2
  <2>6. ASSUME ~ overwritten', s \in Checksummed
        PROVE  /\ lock'[s] # 0 => Published(s, lock'[s])
               /\ disk'[s].modules # 0 =>
                    Published(s, disk'[s].modules) /\ lock'[s] <= disk'[s].modules
    BY <1>1, <1>2, <2>2, <2>4, <2>5, <2>6 DEF Ascending
  <2> QED  BY <1>1, <1>2, <2>2, <2>6, AscendingStep
<1> QED  BY <1>1, <1>3, <1>4

LEMMA AscendingCrash ==
  ASSUME Staged, Ascending, NEW Q \in SUBSET Processes, Killed(Q)
  PROVE  Ascending' /\ \A s \in Slugs : lock'[s] \in {0, lock[s]}
<1>1. /\ UNCHANGED <<main, disk, overwritten>>
      /\ lock' = lock \/ \A s \in Slugs : lock'[s] = 0
  BY KilledMoves, NoLock
<1>2. \A s \in Slugs : lock'[s] \in {0, lock[s]}
  BY <1>1
<1>3. ASSUME ~ overwritten', NEW x \in Checksummed
      PROVE  /\ lock'[x] # 0 => \E m \in Revisions : m <= main /\ lock'[x] = Version[x][m]
             /\ disk'[x].modules # 0 =>
                  /\ \E m \in Revisions : m <= main /\ disk'[x].modules = Version[x][m]
                  /\ lock'[x] <= disk'[x].modules
  <2>1. x \in Slugs /\ disk[x].modules \in Nat
    BY Numbers, PluginsAssumption
  <2> QED  BY <1>1, <1>2, <1>3, <2>1 DEF Ascending, Published
<1>4. Ascending'
  BY <1>1, <1>3 DEF Ascending, Published
<1> QED  BY <1>2, <1>4
\* Of all steps only the writing of the lock file and a crash change the lock.
LEMMA AscendingNext ==
  ASSUME VersionsAscend, Staged, Filed, Ascending, [Next]_vars
  PROVE  /\ Ascending'
         /\ ~ overwritten' => \A s \in Checksummed : lock'[s] = 0 \/ lock'[s] >= lock[s]
<1>1. \A s \in Checksummed : s \in Slugs /\ lock[s] \in Nat
  BY Numbers, PluginsAssumption
<1>2. lock' = lock => \A s \in Checksummed : lock'[s] >= lock[s]
  BY <1>1
<1>3. CASE \/ UNCHANGED vars
           \/ \E s \in Slugs : AdminReload(s)
           \/ \E p \in Processes :
                \/ Fetches(p) \/ DownloadFails(p) \/ Depend(p) \/ ReadLock(p)
                \/ Audit(p) \/ Notify(p)
  <2>1. UNCHANGED vars \/ (\E s \in Slugs : AdminReload(s))
          => UNCHANGED <<main, lock, disk, overwritten>>
    BY DEF vars, AdminReload, files, fetching
  <2>2. UNCHANGED <<main, lock, disk, overwritten>>
    BY <1>3, <2>1, DownloadFailsMoves, DependMoves, ReadLockMoves, AuditMoves, NotifyMoves
       DEF Fetches, Slugged
  <2> QED  BY <1>2, <2>2 DEF Ascending, Published
<1>4. CASE Publish
  <2>1. main' = main + 1 /\ UNCHANGED <<lock, disk, overwritten>>
    BY <1>4 DEF Publish, files
  <2>2. \A m \in Revisions : m \in Nat /\ main \in Nat
    BY PluginsAssumption DEF Staged, TypeOK, Revisions
  <2>3. \A s \in Slugs : \A v : Published(s, v) => Published(s, v)'
    BY <2>1, <2>2 DEF Published
  <2> QED  BY <1>1, <1>2, <2>1, <2>2 DEF Ascending, Published
<1>5. ASSUME NEW p \in Processes, NEW s \in Slugs,
             Write(p, s, Wiped), UNCHANGED <<main, lock>>
      PROVE  Ascending'
  <2>1. /\ disk' = [disk EXCEPT ![s] = Wiped] /\ Wiped.modules = 0
        /\ disk \in [Slugs -> [manifest : Versions, modules : Versions]]
    BY <1>5 DEF Write, Wiped, Staged, TypeOK
  <2>2. disk'[s].modules = 0 /\ \A x \in Slugs \ {s} : disk'[x] = disk[x]
    BY <2>1
  <2>3. overwritten => overwritten'
    BY <1>5 DEF Write
  <2> QED  BY <1>5, <2>2, <2>3, AscendingKept
<1>6. ASSUME NEW p \in Processes, NEW s \in Slugs, Installs(p, s)
      PROVE  Ascending' /\ lock' = lock
  BY <1>5, <1>6 DEF Installs
<1>7. ASSUME NEW p \in Processes, Delete(p)
      PROVE  Ascending' /\ lock' = lock
  BY <1>5, <1>7, DeleteMoves DEF Slugged
<1>8. ASSUME NEW p \in Processes, Verify(p)
      PROVE  Ascending' /\ lock' = lock
  <2>1. CASE UNCHANGED <<disk, overwritten>>
    BY <1>8, <2>1, VerifyMoves DEF Slugged, Ascending, Published
  <2>2. CASE Write(p, proc[p].slug, Wiped)
    BY <1>5, <1>8, <2>2, VerifyMoves DEF Slugged
  <2> QED  BY <1>8, <2>1, <2>2, VerifyMoves
<1>9. ASSUME NEW p \in Processes, Download(p)
      PROVE  Ascending' /\ lock' = lock
  BY <1>9, DownloadMoves, AscendingDownload
<1>10. ASSUME NEW p \in Processes, Require(p)
       PROVE  Ascending' /\ lock' = lock
  <2>1. /\ UNCHANGED <<main, disk, lock>>
        /\ overwritten => overwritten'
    BY <1>10, RequireMoves DEF Slugged
  <2> QED  BY <2>1 DEF Ascending, Published
<1>11. ASSUME NEW p \in Processes, WriteLock(p)
       PROVE  /\ Ascending'
              /\ ~ overwritten' => \A s \in Checksummed : lock'[s] = 0 \/ lock'[s] >= lock[s]
  BY <1>11, AscendingWriteLock
<1>12. ASSUME NEW Q \in SUBSET Processes, Killed(Q)
       PROVE  Ascending' /\ \A s \in Checksummed : lock'[s] = 0 \/ lock'[s] >= lock[s]
  BY <1>1, <1>12, AscendingCrash
<1>13. (\E p \in Clis : CliDies(p)) \/ Boot => \E Q \in SUBSET Processes : Killed(Q)
  <2>1. ASSUME NEW p \in Clis, CliDies(p)  PROVE \E Q \in SUBSET Processes : Killed(Q)
    <3>1. {p} \in SUBSET Processes
      BY DEF Processes
    <3> QED  BY <2>1, <3>1, CliDiesMoves
  <2>2. CASE Boot
    <3>1. \A fresh \in BOOLEAN : (IF fresh THEN Processes ELSE Tasks) \in SUBSET Processes
      BY DEF Processes
    <3>2. \E fresh \in BOOLEAN : Killed(IF fresh THEN Processes ELSE Tasks)
      BY <2>2, BootMoves
    <3> QED  BY <3>1, <3>2
  <2> QED  BY <2>1, <2>2
<1> QED  BY <1>2, <1>3, <1>4, <1>6, <1>7, <1>8, <1>9, <1>10, <1>11, <1>12, <1>13, Kinds

LEMMA AscendingInit == Init => Ascending
<1> SUFFICES ASSUME Init  PROVE Ascending
  OBVIOUS
<1>1. PICK S \in SUBSET (Slugs \ Bundled) : lock = [s \in Slugs |-> IF s \in S THEN Version[s][1] ELSE 0]
  BY DEF Init
<1>2. main = 1 /\ disk = [s \in Slugs |-> [manifest |-> lock[s], modules |-> lock[s]]]
  BY DEF Init
<1>3. 1 \in Revisions /\ Staged
  BY StagedInit, PluginsAssumption DEF Revisions
<1>4. \A s \in Slugs : /\ disk[s].modules = lock[s] /\ lock[s] \in {0, Version[s][1]}
                       /\ lock[s] \in Nat
  BY <1>1, <1>2, <1>3, Numbers
<1> QED  BY <1>2, <1>3, <1>4, PluginsAssumption DEF Ascending, Published

\* When the versions of a plugin grow with the revisions of the registry, no
\* update of a plugin with a checksum goes backwards, however old the index
\* is that asked for it (installer.py:136).
THEOREM NoUpdateGoesBack ==
  ASSUME VersionsAscend
  PROVE  Spec => NoDowngrade
<1>1. Init => Ascending
  BY AscendingInit
<1>2. Staged /\ Filed /\ Ascending /\ [Next]_vars => Ascending'
  BY AscendingNext
<1>3. Staged /\ Filed /\ Ascending /\ [Next]_vars
        => [~ overwritten' => \A s \in Checksummed : lock'[s] = 0 \/ lock'[s] >= lock[s]]_lock
  BY AscendingNext
<1> QED  BY <1>1, <1>2, <1>3, FiledInvariant, PTL DEF Spec, NoDowngrade
=============================================================================
