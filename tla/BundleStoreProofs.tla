-------------------------- MODULE BundleStoreProofs --------------------------
(***************************************************************************)
(* Proofs about BundleStore.tla, for every set of contents, number of      *)
(* retries and number of crashes: its types, and with --zeus-url the       *)
(* promise of LastGood.tla.  With --bundle the promise does not hold: the  *)
(* second read of the file may persist what was never accepted.            *)
(***************************************************************************)
EXTENDS BundleStore, TLAPS

LEMMA ValidFacts ==
    /\ \A r : ParseAndValidate(r) => r \notin {None, Partial}
    /\ \A r \in Raws \cup {None, Partial} : ParseAndValidate(r) => r \in Valid
    /\ Valid \subseteq Raws
    /\ None \notin Valid
BY BundleStoreAssumption DEF ParseAndValidate, Valid

Versions == [content: Raws \cup {None}, mtime: 1..(MaxWrites + 1)]
DiskFiles == [content: Raws \cup {None, Partial}, synced: BOOLEAN]

LEMMA FileFacts ==
    /\ NoFile \in DiskFiles
    /\ \A r \in Raws \cup {None, Partial}, s \in BOOLEAN :
          [content |-> r, synced |-> s] \in DiskFiles
BY DEF NoFile, DiskFiles

LEMMA TypeInit == Init => TypeOK
BY BundleStoreAssumption, FileFacts DEF Init, TypeOK, DiskFiles

LEMMA TypeStep == TypeOK /\ [Next]_vars => TypeOK'
<1> SUFFICES ASSUME TypeOK, [Next]_vars PROVE TypeOK'
    OBVIOUS
<1> USE DEF TypeOK, Goto, disk, Saving
<1>0. file.mtime \in Nat /\ file.content \in Raws \cup {None}
  BY BundleStoreAssumption
<1>1. CASE BootStat \/ BootLoad \/ BootReread
  BY <1>0, <1>1, ValidFacts DEF BootStat, BootLoad, BootReread
<1>2. CASE LoadCache \/ BootCancelled \/ Restart
  <2>1. cache.content \in Raws \cup {None, Partial}
    OBVIOUS
  <2> QED BY <1>0, <1>2, <2>1, ValidFacts, BundleStoreAssumption
          DEF LoadCache, BootCancelled, Restart
<1>3. ASSUME NEW r \in Raws \cup {None}, BootFetch(r)
      PROVE  TypeOK'
  <2>1. attempt' \in 0..Retries
    BY <1>3, BundleStoreAssumption DEF BootFetch
  <2> QED BY <1>3, <2>1, ValidFacts DEF BootFetch
<1>4. CASE WatchStat \/ ReloadRead
  BY <1>0, <1>4, ValidFacts DEF WatchStat, ReloadRead
<1>5. ASSUME NEW r \in Raws, ApplyIfChanged(r)
      PROVE  TypeOK'
  BY <1>5, ValidFacts DEF ApplyIfChanged
<1>6. CASE SaveOpen \/ SaveWrite \/ SaveSync
  <2>1. tmp' \in DiskFiles
    BY <1>6, FileFacts DEF SaveOpen, SaveWrite, SaveSync, DiskFiles
  <2>2. pc' \in {"saveWrite", "saveSync", "saveRename"}
    BY <1>6 DEF SaveOpen, SaveWrite, SaveSync
  <2>3. UNCHANGED <<file, cache, current, modTime, mt, raw, attempt, crashes>>
    BY <1>6 DEF SaveOpen, SaveWrite, SaveSync
  <2> QED BY <2>1, <2>2, <2>3 DEF DiskFiles
<1>7. CASE SaveRename \/ SaveFails
  <2>1. {cache', tmp'} \subseteq DiskFiles
    BY <1>7, FileFacts DEF SaveRename, SaveFails, DiskFiles
  <2> QED BY <1>7, <2>1 DEF SaveRename, SaveFails, DiskFiles
<1>8. ASSUME NEW c \in Raws \cup {None}, OperatorWrites(c)
      PROVE  TypeOK'
  <2>1. /\ file' \in Versions /\ file'.mtime = file.mtime + 1
    BY <1>0, <1>8, BundleStoreAssumption DEF OperatorWrites, Versions
  <2>2. UNCHANGED <<disk, pc, current, modTime, mt, raw, attempt, crashes>>
    BY <1>8 DEF OperatorWrites
  <2>3. {modTime, mt} \subseteq 0..file'.mtime
    BY <1>0, <2>1
  <2> QED BY <2>1, <2>2, <2>3 DEF Versions
<1>9. CASE Crash \/ HostCrash
  <2>1. {cache', tmp'} \subseteq DiskFiles
    <3>1. {cache, tmp} \subseteq DiskFiles
      BY DEF DiskFiles
    <3>2. [content |-> Partial, synced |-> TRUE] \in DiskFiles
      BY FileFacts
    <3>3. CASE Crash
      BY <3>1, <3>3 DEF Crash
    <3>4. CASE HostCrash
      BY <3>1, <3>2, <3>4 DEF HostCrash
    <3> QED BY <1>9, <3>3, <3>4
  <2>2. /\ UNCHANGED file
        /\ pc' = "down" /\ current' = None /\ raw' = None
        /\ modTime' = 0 /\ mt' = 0 /\ attempt' = 0
        /\ crashes < MaxCrashes /\ crashes' = crashes + 1
    BY <1>9 DEF Crash, HostCrash, ProcessLost
  <2> QED BY <1>0, <2>1, <2>2, BundleStoreAssumption DEF DiskFiles
<1>10. CASE UNCHANGED vars
  BY <1>10 DEF vars
<1> QED
  BY <1>1, <1>2, <1>3, <1>4, <1>5, <1>6, <1>7, <1>8, <1>9, <1>10
  DEF Next, Process, BootStep, SaveStep

\* Every reachable state of the store is well typed, in both modes.
THEOREM StoreTypeCorrect == Spec => []TypeOK
BY TypeInit, TypeStep, PTL DEF Spec
-----------------------------------------------------------------------------
(* The store with --zeus-url keeps the promise of LastGood.                *)

Idle == {"down", "loadCache", "exited"}

\* The cache is whole and survives a failure of the host; what is being saved
\* is what is served; and it is whole before it is renamed.
FetchInv ==
    /\ pc \in Saving \cup Idle \cup {"run"}
    /\ pc \in Idle => current = None
    /\ pc = "run" => current # None
    /\ cache.content \in Valid \cup {None} /\ cache.synced
    /\ pc \in Saving => raw = current /\ raw \in Valid
    /\ pc = "saveSync" => tmp.content = raw
    /\ pc = "saveRename" => tmp.content = raw /\ tmp.synced

LEMMA FetchInit == Init => FetchInv
BY DEF Init, FetchInv, NoFile, Saving, Idle

LEMMA FetchStep ==
    FetchMode /\ TypeOK /\ FetchInv /\ [Next]_vars => FetchInv'
<1> SUFFICES ASSUME FetchMode, TypeOK, FetchInv, [Next]_vars PROVE FetchInv'
    OBVIOUS
<1> USE DEF FetchInv, Goto, disk, Saving, Idle
<1>1. CASE LoadCache
  BY <1>1, ValidFacts DEF LoadCache
<1>2. ASSUME NEW r \in Raws \cup {None}, BootFetch(r)
      PROVE  FetchInv'
  BY <1>2, ValidFacts DEF BootFetch
<1>3. CASE BootCancelled \/ Restart
  BY <1>3 DEF BootCancelled, Restart
<1>4. ASSUME NEW r \in Raws, ApplyIfChanged(r)
      PROVE  FetchInv'
  BY <1>4, ValidFacts DEF ApplyIfChanged
<1>5. CASE SaveOpen \/ SaveWrite
  BY <1>5 DEF SaveOpen, SaveWrite
<1>6. CASE SaveSync
  BY <1>6 DEF SaveSync, TypeOK
<1>7. CASE SaveRename \/ SaveFails
  BY <1>7, ValidFacts DEF SaveRename, SaveFails
<1>8. CASE Crash \/ HostCrash
  <2>1. cache' = cache
    BY <1>8 DEF Crash, HostCrash
  <2> QED BY <1>8, <2>1 DEF Crash, HostCrash, ProcessLost
<1>9. CASE UNCHANGED vars
  BY <1>9 DEF vars
<1>10. ASSUME \/ BootStat \/ BootLoad \/ BootReread \/ WatchStat \/ ReloadRead
              \/ \E c \in Raws \cup {None} : OperatorWrites(c)
       PROVE  FALSE
  BY <1>10 DEF BootStat, BootLoad, BootReread, WatchStat, ReloadRead,
               OperatorWrites
<1> QED
  BY <1>1, <1>2, <1>3, <1>4, <1>5, <1>6, <1>7, <1>8, <1>9, <1>10
  DEF Next, Process, BootStep, SaveStep

LEMMA PromiseInit == Init => Promise!GoodInit
BY DEF Init, Promise!GoodInit, NoFile

\* Every step of the store is a step of LastGood or leaves both of its
\* variables alone.
LEMMA PromiseStep ==
    FetchMode /\ TypeOK /\ FetchInv /\ [Next]_vars
        => [Promise!GoodNext]_(Promise!goodVars)
<1> SUFFICES ASSUME FetchMode, TypeOK, FetchInv, [Next]_vars
             PROVE  Promise!GoodNext \/ UNCHANGED <<current, cache.content>>
    BY DEF Promise!goodVars
<1> USE DEF FetchInv, Goto, disk, Saving, Idle
<1>1. CASE LoadCache
  <2>1. CASE ParseAndValidate(cache.content)
    <3>1. cache.content # None
      BY <2>1, ValidFacts
    <3> QED BY <1>1, <2>1, <3>1 DEF LoadCache, Promise!GoodNext, Promise!Recover
  <2> QED BY <1>1, <2>1 DEF LoadCache
<1>2. ASSUME NEW r \in Raws \cup {None}, BootFetch(r)
      PROVE  Promise!GoodNext \/ UNCHANGED <<current, cache.content>>
  <2>1. CASE ParseAndValidate(r)
    BY <1>2, <2>1, ValidFacts DEF BootFetch, Promise!GoodNext, Promise!Accept
  <2> QED BY <1>2, <2>1 DEF BootFetch
<1>3. ASSUME NEW r \in Raws, ApplyIfChanged(r)
      PROVE  Promise!GoodNext
  BY <1>3, ValidFacts DEF ApplyIfChanged, Promise!GoodNext, Promise!Accept
<1>4. CASE SaveRename
  BY <1>4, ValidFacts DEF SaveRename, Promise!GoodNext, Promise!Persist
<1>5. CASE Crash \/ HostCrash
  <2>1. cache' = cache
    BY <1>5 DEF Crash, HostCrash
  <2> QED BY <1>5, <2>1
          DEF Crash, HostCrash, ProcessLost, Promise!GoodNext, Promise!Stop
<1>6. CASE \/ BootCancelled \/ Restart
           \/ SaveOpen \/ SaveWrite \/ SaveSync \/ SaveFails
  BY <1>6 DEF BootCancelled, Restart, SaveOpen, SaveWrite, SaveSync, SaveFails
<1>7. CASE UNCHANGED vars
  BY <1>7 DEF vars
<1>8. ASSUME \/ BootStat \/ BootLoad \/ BootReread \/ WatchStat \/ ReloadRead
             \/ \E c \in Raws \cup {None} : OperatorWrites(c)
      PROVE  FALSE
  BY <1>8 DEF BootStat, BootLoad, BootReread, WatchStat, ReloadRead,
              OperatorWrites
<1> QED
  BY <1>1, <1>2, <1>3, <1>4, <1>5, <1>6, <1>7, <1>8
  DEF Next, Process, BootStep, SaveStep

\* With --zeus-url the store only ever serves valid bundles, persists what it
\* serves and comes back with it, through failed writes and crashes at every
\* step (store.go, boot_fetch.go, SaveCache in bundle.go).
THEOREM FetchKeepsPromise == FetchMode => (Spec => ImplementsLastGood)
<1> SUFFICES ASSUME FetchMode PROVE Spec => ImplementsLastGood
    OBVIOUS
<1>1. TypeOK /\ FetchInv /\ [Next]_vars => FetchInv'
  BY FetchStep
<1>2. TypeOK /\ FetchInv /\ [Next]_vars
          => [Promise!GoodNext]_(Promise!goodVars)
  BY PromiseStep
<1> QED
  BY TypeInit, TypeStep, FetchInit, PromiseInit, <1>1, <1>2, PTL
  DEF Spec, ImplementsLastGood, Promise!GoodSpec

-----------------------------------------------------------------------------
(* What is persisted, in both modes.                                       *)

\* Between the two reads of the boot: a file that still has the mtime of the
\* first Stat is the one that was loaded.
RereadInv == pc = "bootReread" /\ modTime = file.mtime => file.content = current

LEMMA ServedStep ==
    TypeOK /\ RereadInv /\ PersistsServed /\ [Next]_vars
        => RereadInv' /\ PersistsServed'
<1> SUFFICES ASSUME TypeOK, RereadInv, PersistsServed, [Next]_vars
             PROVE  RereadInv' /\ PersistsServed'
    OBVIOUS
<1>0. file.mtime \in Nat /\ modTime \in Nat /\ modTime <= file.mtime
  BY BundleStoreAssumption DEF TypeOK
<1> USE DEF RereadInv, PersistsServed, Goto, disk, Saving
<1>1. CASE BootStat \/ BootLoad \/ LoadCache \/ BootCancelled \/ Restart
  BY <1>1 DEF BootStat, BootLoad, LoadCache, BootCancelled, Restart
<1>2. CASE BootReread
  BY <1>0, <1>2 DEF BootReread
<1>3. ASSUME NEW r \in Raws \cup {None}, BootFetch(r)
      PROVE  RereadInv' /\ PersistsServed'
  BY <1>3 DEF BootFetch
<1>4. ASSUME NEW r \in Raws, ApplyIfChanged(r)
      PROVE  RereadInv' /\ PersistsServed'
  BY <1>4 DEF ApplyIfChanged
<1>5. CASE WatchStat \/ ReloadRead
  BY <1>5 DEF WatchStat, ReloadRead
<1>6. CASE SaveOpen \/ SaveWrite \/ SaveSync \/ SaveRename \/ SaveFails
  BY <1>6 DEF SaveOpen, SaveWrite, SaveSync, SaveRename, SaveFails
<1>7. ASSUME NEW c \in Raws \cup {None}, OperatorWrites(c)
      PROVE  RereadInv' /\ PersistsServed'
  <2>1. modTime' = modTime /\ file'.mtime = file.mtime + 1
    BY <1>7 DEF OperatorWrites
  <2> QED BY <1>0, <1>7, <2>1 DEF OperatorWrites
<1>8. CASE Crash \/ HostCrash
  BY <1>8 DEF Crash, HostCrash, ProcessLost
<1>9. CASE UNCHANGED vars
  BY <1>9 DEF vars
<1> QED
  BY <1>1, <1>2, <1>3, <1>4, <1>5, <1>6, <1>7, <1>8, <1>9
  DEF Next, Process, BootStep, SaveStep

\* In both modes only a file replaced under NewStore or reloadIfChanged lets
\* the store persist what it does not serve, and then the next poll sees a new
\* mtime (store.go, NewStore and reloadIfChanged).
THEOREM PersistedIsServed == Spec => []PersistsServed
<1>1. Init => RereadInv /\ PersistsServed
  BY DEF Init, RereadInv, PersistsServed, Saving
<1> QED BY TypeInit, TypeStep, ServedStep, <1>1, PTL DEF Spec

-----------------------------------------------------------------------------
(* Why the cache may lag.                                                  *)

Lag == FetchMode /\ pc' = "run" /\ (pc = "run" => cache.content = current) =>
           cache'.content = current' \/ SaveFails

LEMMA LagStep ==
    (FetchMode => TypeOK /\ FetchInv) /\ [Next]_vars => [Lag]_vars
<1> SUFFICES ASSUME FetchMode, TypeOK, FetchInv, Next, pc' = "run",
                    pc = "run" => cache.content = current
             PROVE  cache'.content = current' \/ SaveFails
  BY DEF Lag
<1> USE DEF FetchInv, Goto, disk, Saving, Idle
<1>1. CASE LoadCache
  BY <1>1 DEF LoadCache
<1>2. CASE SaveRename
  BY <1>2 DEF SaveRename
<1>3. CASE \/ \E r \in Raws \cup {None} : BootFetch(r)
           \/ \E r \in Raws : ApplyIfChanged(r)
           \/ BootCancelled \/ Restart \/ SaveOpen \/ SaveWrite \/ SaveSync
           \/ Crash \/ HostCrash
  BY <1>3 DEF BootFetch, ApplyIfChanged, BootCancelled, Restart, SaveOpen,
              SaveWrite, SaveSync, Crash, HostCrash, ProcessLost
<1>4. ASSUME \/ BootStat \/ BootLoad \/ BootReread \/ WatchStat \/ ReloadRead
             \/ \E c \in Raws \cup {None} : OperatorWrites(c)
      PROVE  FALSE
  BY <1>4 DEF BootStat, BootLoad, BootReread, WatchStat, ReloadRead,
              OperatorWrites
<1> QED
  BY <1>1, <1>2, <1>3, <1>4 DEF Next, Process, BootStep, SaveStep

\* With --zeus-url, only a failed save leaves the cache behind what is served
\* (store.go, ApplyIfChanged and persistCache).
THEOREM OnlyFailureLags == Spec => LagNeedsFailure
<1>1. LagNeedsFailure <=> [][Lag]_vars
  BY PTL DEF LagNeedsFailure, Lag
<1>2. CASE FetchMode
  <2>1. TypeOK /\ FetchInv /\ [Next]_vars => FetchInv'
    BY <1>2, FetchStep
  <2>2. TypeOK /\ FetchInv /\ [Next]_vars => [Lag]_vars
    BY LagStep
  <2> QED BY TypeInit, TypeStep, FetchInit, <1>1, <2>1, <2>2, PTL DEF Spec
<1>3. CASE ~FetchMode
  <2>1. [Next]_vars => [Lag]_vars
    BY <1>3, LagStep
  <2> QED BY <1>1, <2>1, PTL DEF Spec
<1> QED BY <1>2, <1>3
=============================================================================
