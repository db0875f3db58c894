---------------------------- MODULE BundleStore -----------------------------
(***************************************************************************)
(* bundle.Store (internal/bundle): boot from the --bundle file or from     *)
(* zeus, fall back to the cache on disk, hot-reload, and persist with a    *)
(* temporary file and a rename.  The operator may replace the file, and    *)
(* the process may die, between any two accesses to the file system.       *)
(*                                                                         *)
(* One goroutine owns the store's writes in each mode: WatchAndReload with *)
(* --bundle, remote.Runner with --zeus-url.  pc is where it stands.        *)
(*                                                                         *)
(* The clock value that fetch mode stores as modTime is never read in that *)
(* mode and is left out.                                                   *)
(***************************************************************************)
EXTENDS Integers

CONSTANTS FetchMode,     \* TRUE: --zeus-url; FALSE: --bundle
          Raws,          \* contents a file or a response may have
          None,          \* no file, no bundle
          Partial,       \* a file cut short
          Retries,       \* BootFromFetch's retries
          MaxWrites,     \* bound: times the operator replaces the file
          MaxCrashes     \* bound: times the process dies

ASSUME BundleStoreAssumption ==
    /\ FetchMode \in BOOLEAN
    /\ {Retries, MaxWrites, MaxCrashes} \subseteq Nat
    /\ None \notin Raws /\ Partial \notin Raws /\ None # Partial

VARIABLES file,          \* --bundle: [content, mtime]
          cache, tmp,    \* cacheDir/bundle.json and .tmp: [content, synced]
          pc,
          current,       \* Store.current
          modTime,       \* Store.modTime, 0 for the zero time
          mt,            \* local: the mtime a Stat returned
          raw,           \* local: the bytes being persisted
          attempt,       \* local: BootFromFetch's attempt
          crashes        \* auxiliary: times the process has died

disk == <<cache, tmp>>
vars == <<file, disk, pc, current, modTime, mt, raw, attempt, crashes>>

NoFile == [content |-> None, synced |-> TRUE]

\* ParseAndValidate accepts the bytes.
ParseAndValidate(r) ==
    /\ r \notin {None, Partial}
    /\ r.json
    /\ r.protocolVersion = 1
    /\ r.domain # ""
    /\ \A rec \in r.records : rec.fqdn # "" /\ rec.ttl > 0

Valid == {r \in Raws : ParseAndValidate(r)}

Init ==
    /\ file \in [content: Raws \cup {None}, mtime: {1}]
    /\ cache = NoFile /\ tmp = NoFile
    /\ pc = "down"
    /\ current = None
    /\ modTime = 0 /\ mt = 0 /\ raw = None /\ attempt = 0 /\ crashes = 0

-----------------------------------------------------------------------------
(* Boot.                                                                   *)

Goto(l) == pc' = l

\* The steps of SaveCache.
Saving == {"saveOpen", "saveWrite", "saveSync", "saveRename"}

BootStat ==
    /\ pc = "down" /\ ~FetchMode
    /\ IF file.content = None
         THEN Goto("loadCache") /\ UNCHANGED mt
         ELSE Goto("bootLoad") /\ mt' = file.mtime
    /\ UNCHANGED <<file, disk, current, modTime, raw, attempt, crashes>>

\* LoadFile and setCurrent.
BootLoad ==
    /\ pc = "bootLoad"
    /\ IF ParseAndValidate(file.content)
         THEN /\ Goto("bootReread")
              /\ current' = file.content
              /\ modTime' = mt
         ELSE Goto("loadCache") /\ UNCHANGED <<current, modTime>>
    /\ UNCHANGED <<file, disk, mt, raw, attempt, crashes>>

\* Mutant: the second read also refreshes the remembered mtime.
BootRereadRestats ==
    /\ pc = "bootReread"
    /\ modTime' = file.mtime
    /\ IF file.content = None
         THEN Goto("run") /\ UNCHANGED raw
         ELSE Goto("saveOpen") /\ raw' = file.content
    /\ UNCHANGED <<file, disk, current, mt, attempt, crashes>>

\* NewStore reads the file again for SaveCache, and does not validate it.
BootReread ==
    /\ pc = "bootReread"
    /\ IF file.content = None
         THEN Goto("run") /\ UNCHANGED raw
         ELSE Goto("saveOpen") /\ raw' = file.content
    /\ UNCHANGED <<file, disk, current, modTime, mt, attempt, crashes>>

\* LoadCache, or no store: main exits.
LoadCache ==
    /\ pc = "loadCache"
    /\ IF ParseAndValidate(cache.content)
         THEN Goto("run") /\ current' = cache.content /\ modTime' = 0
         ELSE Goto("exited") /\ UNCHANGED <<current, modTime>>
    /\ UNCHANGED <<file, disk, mt, raw, attempt, crashes>>

\* Mutant: one attempt too many.
BootFetchOnceMore(r) ==
    /\ pc = "down" /\ FetchMode
    /\ \/ /\ ParseAndValidate(r)
          /\ Goto("saveOpen") /\ current' = r /\ raw' = r /\ attempt' = 0
       \/ /\ ~ParseAndValidate(r) /\ attempt <= Retries
          /\ attempt' = attempt + 1
          /\ UNCHANGED <<pc, current, raw>>
       \/ /\ ~ParseAndValidate(r) /\ attempt = Retries + 1
          /\ Goto("loadCache") /\ attempt' = 0
          /\ UNCHANGED <<current, raw>>
    /\ UNCHANGED <<file, disk, modTime, mt, crashes>>

\* Mutant: exhausted retries are fatal, the cache is not tried.
BootFetchNoFallback(r) ==
    /\ pc = "down" /\ FetchMode
    /\ \/ /\ ParseAndValidate(r)
          /\ Goto("saveOpen") /\ current' = r /\ raw' = r /\ attempt' = 0
       \/ /\ ~ParseAndValidate(r) /\ attempt < Retries
          /\ attempt' = attempt + 1
          /\ UNCHANGED <<pc, current, raw>>
       \/ /\ ~ParseAndValidate(r) /\ attempt = Retries
          /\ Goto("exited") /\ attempt' = 0
          /\ UNCHANGED <<current, raw>>
    /\ UNCHANGED <<file, disk, modTime, mt, crashes>>

\* BootFromFetch: one fetch that fails (None), or returns what it may.
BootFetch(r) ==
    /\ pc = "down" /\ FetchMode
    /\ \/ /\ ParseAndValidate(r)
          /\ Goto("saveOpen") /\ current' = r /\ raw' = r /\ attempt' = 0
       \/ /\ ~ParseAndValidate(r) /\ attempt < Retries
          /\ attempt' = attempt + 1
          /\ UNCHANGED <<pc, current, raw>>
       \/ /\ ~ParseAndValidate(r) /\ attempt = Retries
          /\ Goto("loadCache") /\ attempt' = 0
          /\ UNCHANGED <<current, raw>>
    /\ UNCHANGED <<file, disk, modTime, mt, crashes>>

\* BootFromFetch told to stop while it waits out a backoff.
BootCancelled ==
    /\ pc = "down" /\ FetchMode /\ attempt > 0
    /\ Goto("loadCache") /\ attempt' = 0
    /\ UNCHANGED <<file, disk, current, modTime, mt, raw, crashes>>

-----------------------------------------------------------------------------
(* Steady state.                                                           *)

\* reloadIfChanged: Stat and compare.
WatchStat ==
    /\ pc = "run" /\ ~FetchMode
    /\ file.content # None
    /\ file.mtime # modTime
    /\ Goto("reloadRead") /\ mt' = file.mtime
    /\ UNCHANGED <<file, disk, current, modTime, raw, attempt, crashes>>

\* Mutant: the file is persisted before it is validated.
ReloadSavesFirst ==
    /\ pc = "reloadRead"
    /\ \/ file.content = None /\ Goto("run") /\ UNCHANGED <<current, modTime, raw>>
       \/ /\ file.content # None
          /\ Goto("saveOpen") /\ modTime' = mt /\ raw' = file.content
          /\ current' = IF ParseAndValidate(file.content) THEN file.content
                        ELSE current
    /\ UNCHANGED <<file, disk, mt, attempt, crashes>>

\* reloadIfChanged: read, then applyBundle or remember the bad file's mtime.
ReloadRead ==
    /\ pc = "reloadRead"
    /\ \/ file.content = None /\ Goto("run") /\ UNCHANGED <<current, modTime, raw>>
       \/ /\ file.content # None /\ ParseAndValidate(file.content)
          /\ Goto("saveOpen") /\ current' = file.content
          /\ modTime' = mt /\ raw' = file.content
       \/ /\ file.content # None /\ ~ParseAndValidate(file.content)
          /\ Goto("run") /\ modTime' = mt
          /\ UNCHANGED <<current, raw>>
    /\ UNCHANGED <<file, disk, mt, attempt, crashes>>

\* Mutant: a refetched bundle is served but not persisted.
ApplyUnsaved(r) ==
    /\ pc = "run" /\ FetchMode
    /\ ParseAndValidate(r)
    /\ r.contentHash = "" \/ r.contentHash # current.contentHash
    /\ current' = r
    /\ UNCHANGED <<file, disk, pc, modTime, mt, raw, attempt, crashes>>

\* ApplyIfChanged, for a refetch that returned r and changes something.
ApplyIfChanged(r) ==
    /\ pc = "run" /\ FetchMode
    /\ ParseAndValidate(r)
    /\ r.contentHash = "" \/ r.contentHash # current.contentHash
    /\ Goto("saveOpen") /\ current' = r /\ raw' = r
    /\ UNCHANGED <<file, disk, modTime, mt, attempt, crashes>>

-----------------------------------------------------------------------------
(* SaveCache.                                                              *)

SaveOpen ==
    /\ pc = "saveOpen"
    /\ Goto("saveWrite")
    /\ tmp' = [content |-> Partial, synced |-> FALSE]
    /\ UNCHANGED <<file, cache, current, modTime, mt, raw, attempt, crashes>>

SaveWrite ==
    /\ pc = "saveWrite"
    /\ Goto("saveSync")
    /\ tmp' = [content |-> raw, synced |-> FALSE]
    /\ UNCHANGED <<file, cache, current, modTime, mt, raw, attempt, crashes>>

\* Mutant: the temporary file is closed without fsync.
SaveNoSync ==
    /\ pc = "saveSync"
    /\ Goto("saveRename")
    /\ UNCHANGED <<file, disk, current, modTime, mt, raw, attempt, crashes>>

SaveSync ==
    /\ pc = "saveSync"
    /\ Goto("saveRename")
    /\ tmp' = [tmp EXCEPT !.synced = TRUE]
    /\ UNCHANGED <<file, cache, current, modTime, mt, raw, attempt, crashes>>

SaveRename ==
    /\ pc = "saveRename"
    /\ Goto("run")
    /\ cache' = tmp /\ tmp' = NoFile /\ raw' = None
    /\ UNCHANGED <<file, current, modTime, mt, attempt, crashes>>

\* Any of the calls fails: the temporary file is removed, the error logged.
SaveFails ==
    /\ pc \in Saving
    /\ Goto("run")
    /\ tmp' = IF pc = "saveOpen" THEN tmp ELSE NoFile
    /\ raw' = None
    /\ UNCHANGED <<file, cache, current, modTime, mt, attempt, crashes>>

-----------------------------------------------------------------------------
(* The environment.                                                        *)

\* The operator replaces or removes the file; every version has its own
\* modification time.
OperatorWrites(c) ==
    /\ ~FetchMode
    /\ file.mtime <= MaxWrites
    /\ file' = [content |-> c, mtime |-> file.mtime + 1]
    /\ UNCHANGED <<disk, pc, current, modTime, mt, raw, attempt, crashes>>

ProcessLost ==
    /\ pc \notin {"down", "exited"}
    /\ crashes < MaxCrashes
    /\ crashes' = crashes + 1
    /\ Goto("down") /\ current' = None
    /\ modTime' = 0 /\ mt' = 0 /\ raw' = None /\ attempt' = 0

Crash == ProcessLost /\ UNCHANGED <<file, disk>>

\* The host fails: file contents that were never synced are cut short.
HostCrash ==
    LET AfterFailure(f) == IF f.synced THEN f
                           ELSE [content |-> Partial, synced |-> TRUE]
    IN  /\ ProcessLost
        /\ cache' = AfterFailure(cache)
        /\ tmp' = AfterFailure(tmp)
        /\ UNCHANGED file

\* The container is started again after main gave up.
Restart ==
    /\ pc = "exited"
    /\ Goto("down")
    /\ mt' = 0
    /\ UNCHANGED <<file, disk, current, modTime, raw, attempt, crashes>>

BootStep ==
    \/ BootStat
    \/ BootLoad
    \/ BootReread
    \/ LoadCache
    \/ \E r \in Raws \cup {None} : BootFetch(r)
    \/ BootCancelled
    \/ Restart

SaveStep == SaveOpen \/ SaveWrite \/ SaveSync \/ SaveRename \/ SaveFails

Process ==
    \/ BootStep
    \/ SaveStep
    \/ WatchStat
    \/ ReloadRead
    \/ \E r \in Raws : ApplyIfChanged(r)

Next ==
    \/ Process
    \/ \E c \in Raws \cup {None} : OperatorWrites(c)
    \/ Crash
    \/ HostCrash

\* The process runs when it can; whether files change and processes die is
\* not promised.
Spec == Init /\ [][Next]_vars /\ WF_vars(Process)

-----------------------------------------------------------------------------

TypeOK ==
    /\ file \in [content: Raws \cup {None}, mtime: 1..(MaxWrites + 1)]
    /\ {cache, tmp} \subseteq [content: Raws \cup {None, Partial}, synced: BOOLEAN]
    /\ pc \in {"down", "bootLoad", "bootReread", "loadCache", "exited", "run",
               "reloadRead"} \cup Saving
    /\ current \in Valid \cup {None}
    /\ {modTime, mt} \subseteq 0..file.mtime
    /\ raw \in Raws \cup {None}
    /\ attempt \in 0..Retries
    /\ crashes \in 0..MaxCrashes

(***************************************************************************)
(* The store keeps the promise of LastGood.tla: only valid bundles are     *)
(* served, "every accepted bundle" is what gets persisted (store.go:14),   *)
(* and a restart continues from it, through partial writes, failed writes  *)
(* and crashes at every step of SaveCache.                                 *)
(***************************************************************************)
Promise == INSTANCE LastGood WITH
               Bundles <- Valid, serving <- current, persisted <- cache.content

ImplementsLastGood == Promise!GoodSpec

(***************************************************************************)
(* A failed save is only logged, and a refetch of the same contentHash     *)
(* does not try again (store.go:161-176), so the cache may lag.  It lags   *)
(* for no other reason: with --zeus-url, a process that serves and is at   *)
(* rest serves what is on disk, until a step of SaveCache fails.           *)
(***************************************************************************)
LagNeedsFailure ==
    [][FetchMode /\ pc' = "run" /\ (pc = "run" => cache.content = current) =>
           cache'.content = current' \/ SaveFails]_vars

(***************************************************************************)
(* "Persist every accepted bundle to --cache-dir" (store.go:14-15).        *)
(* NewStore persists a second read of the file that nothing validated      *)
(* (store.go:34-37).  What is being persisted is what is served all the    *)
(* same, unless the file was replaced meanwhile; then the mtime the store  *)
(* remembers is older than the file's, so a later poll looks again.        *)
(***************************************************************************)
PersistsServed == pc \in Saving /\ raw # current => modTime < file.mtime

(***************************************************************************)
(* "A restart during a Zeus outage still serves" (README.md:41-43), "never *)
(* exit while a cache exists" (boot_fetch.go:18): once a bundle has been   *)
(* persisted, a process that is not yet serving always comes to serve.     *)
(***************************************************************************)
OutageSurvived == cache.content # None ~> (pc = "run" /\ current # None)

(***************************************************************************)
(* Hot reload does not miss an update (store.go:85-88): once the file      *)
(* stops changing, a valid file is what is served, even if it was replaced *)
(* between the Stat and the read of an earlier tick or of the boot.        *)
(***************************************************************************)
ReloadConverges ==
    <>[](ParseAndValidate(file.content) => current = file.content)
=============================================================================
