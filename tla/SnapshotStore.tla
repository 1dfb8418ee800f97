--------------------------- MODULE SnapshotStore ---------------------------
(***************************************************************************)
(* snapshots/store.py and snapshots/validation.py: the in-memory snapshot  *)
(* store of one server process, the project files whose mtimes it records, *)
(* and the two checks the mutating tools make against it.                  *)
(*                                                                         *)
(* An optional value is a set of at most one element: {} stands for the    *)
(* None of the source, {m} for the dict m.  The state a snapshot holds is  *)
(* abstracted to its kind.  A file's mtime is the clock reading of its     *)
(* last write, 0 while the file does not exist.                            *)
(***************************************************************************)
EXTENDS Integers, FiniteSets

CONSTANTS
  Files,      \* the files collect_project_mtimes looks at
  Retention,  \* how many snapshots the store keeps
  MaxSnaps,   \* bound: snapshots registered by one process
  MaxWrites   \* bound: file writes

ASSUME RetentionAssumption == Retention \in Nat \ {0}

VARIABLES
  entries,           \* [retained snapshot ids -> snapshot]
  nextId,
  liveStale,         \* D-14.1: the disk is known to be ahead of the editor
  liveStaleSnap,
  latestDiskMtimes,  \* the anchor of check_no_external_disk_edit
  mtime,             \* the files on disk
  clock

memory == <<entries, nextId, liveStale, liveStaleSnap, latestDiskMtimes>>
files == <<mtime, clock>>
storeVars == <<entries, nextId, liveStale, liveStaleSnap, latestDiskMtimes,
               mtime, clock>>

Kinds == {"sch", "pcb"}
AtMostOne(o) == \A x, y \in o : x = y
IsMtimes(m) == DOMAIN m \subseteq Files /\ m \in [DOMAIN m -> Nat]
OptionalMtimes(o) == AtMostOne(o) /\ \A m \in o : IsMtimes(m)

StoreInit ==
  /\ entries = [i \in {} |-> {}]
  /\ nextId = 1
  /\ liveStale = FALSE
  /\ liveStaleSnap = {}
  /\ latestDiskMtimes = {}
  /\ clock = 1
  /\ mtime \in [Files -> {0, 1}]

----------------------------------------------------------------------------
(* collect_project_mtimes and the checks                                   *)

\* The mtimes of the project files that exist now.
CollectMtimes == [f \in {g \in Files : mtime[g] # 0} |-> mtime[f]]

\* Faulty: only a newer mtime counts, so a removed file goes unnoticed.
ChangedIfNewer(m, f) == mtime[f] > m[f]

\* Faulty: a file that is gone is skipped instead of reported.
ChangedIfPresent(m, f) == mtime[f] # 0 /\ mtime[f] # m[f]

\* current.get(path) != mtime: f was written or removed since m was collected.
Changed(m, f) == mtime[f] # m[f]

Unchanged(m) == \A f \in DOMAIN m : ~Changed(m, f)

\* validate_base_snap: the snapshot is retained, and either live or current.
ValidBase(i) == i \in DOMAIN entries /\ \A m \in entries[i].mtimes : Unchanged(m)

\* check_no_external_disk_edit passes; without an anchor it always does.
NoExternalEdit == \A m \in latestDiskMtimes : Unchanged(m)

----------------------------------------------------------------------------
(* Operations of the store                                                 *)

\* Faulty: evicts only once the retention is exceeded by two.
KeepOneMore(ids) ==
  {i \in ids : Cardinality({j \in ids : j > i}) <= Retention}

\* popitem(last=False) until at most Retention ids are left.
KeepNewest(ids) ==
  {i \in ids : Cardinality({j \in ids : j > i}) < Retention}

\* Faulty: a live snapshot drops the anchor.
RegisterDroppingAnchor(kind, mtimes) ==
  /\ nextId <= MaxSnaps
  /\ nextId' = nextId + 1
  /\ entries' = [i \in KeepNewest(DOMAIN entries \cup {nextId}) |->
                   IF i = nextId THEN [kind |-> kind, mtimes |-> mtimes]
                                 ELSE entries[i]]
  /\ latestDiskMtimes' = mtimes

\* register(state, mtimes)
Register(kind, mtimes) ==
  /\ nextId <= MaxSnaps
  /\ nextId' = nextId + 1
  /\ entries' = [i \in KeepNewest(DOMAIN entries \cup {nextId}) |->
                   IF i = nextId THEN [kind |-> kind, mtimes |-> mtimes]
                                 ELSE entries[i]]
  /\ latestDiskMtimes' = IF mtimes = {} THEN latestDiskMtimes ELSE mtimes

MarkStale(i) == liveStale' = TRUE /\ liveStaleSnap' = {i}

ClearStale == liveStale' = FALSE /\ liveStaleSnap' = {}
KeepStale == UNCHANGED <<liveStale, liveStaleSnap>>

----------------------------------------------------------------------------
(* Steps of the store on its own: what its callers and the world may do    *)

RegisterDisk(kind) ==
  /\ Register(kind, {CollectMtimes})
  /\ KeepStale \/ ClearStale \/ MarkStale(nextId)
  /\ UNCHANGED files

RegisterLive ==
  /\ Register("pcb", {})
  /\ KeepStale
  /\ UNCHANGED files

\* get_world_context(kind="pcb", confirm_reloaded=True)
ClearLiveStale ==
  /\ ClearStale
  /\ UNCHANGED <<entries, nextId, latestDiskMtimes, mtime, clock>>

\* A file is created or written, by anybody.
Write(f) ==
  /\ clock < MaxWrites
  /\ clock' = clock + 1
  /\ mtime' = [mtime EXCEPT ![f] = clock + 1]

WriteFile(f) == Write(f) /\ UNCHANGED memory

RemoveFile(f) ==
  /\ mtime[f] # 0
  /\ mtime' = [mtime EXCEPT ![f] = 0]
  /\ UNCHANGED clock
  /\ UNCHANGED memory

\* Faulty: the new process numbers its snapshots from 0.
ForgetAllFromZero ==
  /\ entries' = [i \in {} |-> {}]
  /\ nextId' = 0
  /\ liveStale' = FALSE
  /\ liveStaleSnap' = {}
  /\ latestDiskMtimes' = {}

\* The process ends and a new one starts with an empty store.
ForgetAll ==
  /\ entries' = [i \in {} |-> {}]
  /\ nextId' = 1
  /\ liveStale' = FALSE
  /\ liveStaleSnap' = {}
  /\ latestDiskMtimes' = {}

Restart == ForgetAll /\ UNCHANGED files

StoreNext ==
  \/ \E kind \in Kinds : RegisterDisk(kind)
  \/ RegisterLive
  \/ ClearLiveStale
  \/ \E f \in Files : WriteFile(f)
  \/ \E f \in Files : RemoveFile(f)
  \/ Restart

StoreSpec == StoreInit /\ [][StoreNext]_storeVars

----------------------------------------------------------------------------
(* Properties                                                              *)

\* Every variable has its type.
StoreTypeOK ==
  /\ nextId \in Nat \ {0}
  /\ DOMAIN entries \subseteq Nat
  /\ \A i \in DOMAIN entries :
       /\ entries[i].kind \in Kinds
       /\ OptionalMtimes(entries[i].mtimes)
  /\ liveStale \in BOOLEAN
  /\ AtMostOne(liveStaleSnap) /\ liveStaleSnap \subseteq Nat
  /\ OptionalMtimes(latestDiskMtimes)
  /\ mtime \in [Files -> Nat]
  /\ clock \in Nat \ {0}

\* FIFO eviction never leaves a hole: an agent that keeps one of the last
\* Retention ids is never told SNAPSHOT_STALE, and no older id survives.
RetentionWindow ==
  DOMAIN entries = {i \in 1..(nextId - 1) : i >= nextId - Retention}

DiskIds == {i \in DOMAIN entries : entries[i].mtimes # {}}

\* The anchor of the disk guard is the newest disk snapshot still retained,
\* whatever was registered live or evicted since: the guard and a base_snap
\* naming that snapshot always agree.
AnchorIsNewestDisk ==
  \A i \in DiskIds :
    (\A j \in DiskIds : j <= i) => entries[i].mtimes = latestDiskMtimes

\* The split-brain flag and the snapshot it names come and go together, and
\* the snapshot is one that was really registered.
FlagNamesSnapshot ==
  /\ liveStale <=> liveStaleSnap # {}
  /\ \A i \in liveStaleSnap : i < nextId

\* Recorded mtimes are readings of past writes (no file had mtime 0 when it
\* was collected): what makes the checks and the proofs about them work.
PastWrite(m) == \A f \in DOMAIN m : m[f] \in 1..clock
RecordedMtimesPast ==
  /\ \A f \in Files : mtime[f] <= clock
  /\ \A m \in latestDiskMtimes : PastWrite(m)
  /\ \A i \in DOMAIN entries : \A m \in entries[i].mtimes : PastWrite(m)

\* Within one process a base_snap once refused for an external edit is never
\* accepted again, so no sequence of writes, removals and registrations can
\* turn a stale world back into a valid base.  (A write gives a file an mtime it
\* never had; SchematicSync has the files restored with an old one.)
StaleNeverRevives ==
  [][\A i \in DOMAIN entries \cap DOMAIN entries' :
       nextId' >= nextId => (~ValidBase(i) => ~ValidBase(i)')]_storeVars

\* The mtime comparison implements exact edit detection: from one disk
\* registration to the next, check_no_external_disk_edit refuses iff a tracked
\* file was written or removed.
trackedFiles == UNION {DOMAIN m : m \in latestDiskMtimes}
dirtyFiles == {f \in trackedFiles : \E m \in latestDiskMtimes : Changed(m, f)}
Detector == INSTANCE EditDetector WITH tracked <- trackedFiles, dirty <- dirtyFiles
DetectsEdits == Detector!Spec /\ [](NoExternalEdit <=> dirtyFiles = {})
=============================================================================
