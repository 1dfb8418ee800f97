------------------------ MODULE SnapshotStoreProofs ------------------------
(***************************************************************************)
(* Proofs about SnapshotStore, for every set of files, retention and       *)
(* bound: types, the retention window, the anchor, and that the mtime      *)
(* guard implements EditDetector.                                          *)
(***************************************************************************)
EXTENDS SnapshotStore, FiniteSetTheorems, TLAPS

(***************************************************************************)
(* StoreTypeOK is inductive.                                                    *)
(***************************************************************************)

\* What collect_project_mtimes returns is a dict of project files.
LEMMA CollectType ==
  ASSUME mtime \in [Files -> Nat]
  PROVE  IsMtimes(CollectMtimes)
BY DEF IsMtimes, CollectMtimes

\* Registering well-typed mtimes keeps the store well typed.
LEMMA RegisterType ==
  ASSUME StoreTypeOK, NEW kind \in Kinds, NEW o, OptionalMtimes(o), Register(kind, o)
  PROVE  /\ nextId' \in Nat \ {0}
         /\ DOMAIN entries' \subseteq Nat
         /\ \A i \in DOMAIN entries' :
              /\ entries'[i].kind \in Kinds
              /\ OptionalMtimes(entries'[i].mtimes)
         /\ OptionalMtimes(latestDiskMtimes')
<1>1. nextId' \in Nat \ {0}
  BY DEF StoreTypeOK, Register
<1>2. DOMAIN entries' \subseteq DOMAIN entries \cup {nextId}
  BY DEF Register, KeepNewest
<1>3. DOMAIN entries' \subseteq Nat
  BY <1>2 DEF StoreTypeOK
<1>4. ASSUME NEW i \in DOMAIN entries'
      PROVE  /\ entries'[i].kind \in Kinds
             /\ OptionalMtimes(entries'[i].mtimes)
  <2>1. CASE i = nextId
    <3>1. entries'[i] = [kind |-> kind, mtimes |-> o]
      BY <2>1, <1>4 DEF Register
    <3> QED BY <3>1
  <2>2. CASE i # nextId
    <3>1. entries'[i] = entries[i] /\ i \in DOMAIN entries
      BY <2>2, <1>2, <1>4 DEF Register
    <3> QED BY <3>1 DEF StoreTypeOK
  <2> QED BY <2>1, <2>2
<1>5. OptionalMtimes(latestDiskMtimes')
  BY DEF StoreTypeOK, Register
<1> QED BY <1>1, <1>3, <1>4, <1>5

\* Initial states are well typed.
LEMMA InitType == StoreInit => StoreTypeOK
<1> SUFFICES ASSUME StoreInit PROVE StoreTypeOK
  OBVIOUS
<1>1. DOMAIN entries = {}
  BY DEF StoreInit
<1>2. mtime \in [Files -> Nat]
  BY DEF StoreInit
<1>3. nextId = 1 /\ clock = 1 /\ liveStale = FALSE /\ liveStaleSnap = {} /\ latestDiskMtimes = {}
  BY DEF StoreInit
<1>4. nextId \in Nat \ {0} /\ clock \in Nat \ {0}
  BY <1>3
<1>5. liveStale \in BOOLEAN
  BY <1>3, Zenon
<1> QED BY <1>1, <1>2, <1>3, <1>4, <1>5 DEF StoreTypeOK, OptionalMtimes, AtMostOne

\* Every step keeps the types.
LEMMA NextType == StoreTypeOK /\ [StoreNext]_storeVars => StoreTypeOK'
<1> SUFFICES ASSUME StoreTypeOK, [StoreNext]_storeVars
             PROVE  StoreTypeOK'
  OBVIOUS
<1>1. ASSUME NEW kind \in Kinds, RegisterDisk(kind)
      PROVE  StoreTypeOK'
  <2>1. OptionalMtimes({CollectMtimes})
    BY CollectType DEF StoreTypeOK, OptionalMtimes, AtMostOne
  <2>2. Register(kind, {CollectMtimes})
    BY <1>1 DEF RegisterDisk
  <2>3. /\ liveStale' \in BOOLEAN
        /\ AtMostOne(liveStaleSnap') /\ liveStaleSnap' \subseteq Nat
    BY <1>1 DEF RegisterDisk, KeepStale, ClearStale, MarkStale, StoreTypeOK, AtMostOne
  <2>4. mtime' \in [Files -> Nat] /\ clock' \in Nat \ {0}
    BY <1>1 DEF RegisterDisk, files, StoreTypeOK
  <2> QED BY <2>1, <2>2, <2>3, <2>4, RegisterType DEF StoreTypeOK, OptionalMtimes, AtMostOne, IsMtimes
<1>2. ASSUME RegisterLive
      PROVE  StoreTypeOK'
  <2>1. OptionalMtimes({}) /\ "pcb" \in Kinds
    BY DEF OptionalMtimes, AtMostOne, Kinds
  <2>2. Register("pcb", {})
    BY <1>2 DEF RegisterLive
  <2>3. UNCHANGED <<liveStale, liveStaleSnap, mtime, clock>>
    BY <1>2 DEF RegisterLive, KeepStale, files
  <2> QED BY <2>1, <2>2, <2>3, RegisterType DEF StoreTypeOK, OptionalMtimes, AtMostOne, IsMtimes
<1>3. CASE ClearLiveStale
  BY <1>3 DEF ClearLiveStale, ClearStale, StoreTypeOK, OptionalMtimes, AtMostOne, IsMtimes
<1>4. CASE \E f \in Files : WriteFile(f)
  BY <1>4 DEF WriteFile, Write, memory, StoreTypeOK, OptionalMtimes, AtMostOne, IsMtimes
<1>5. CASE \E f \in Files : RemoveFile(f)
  BY <1>5 DEF RemoveFile, memory, StoreTypeOK, OptionalMtimes, AtMostOne, IsMtimes
<1>6. CASE Restart
  <2>1. DOMAIN entries' = {}
    BY <1>6 DEF Restart, ForgetAll
  <2>2. UNCHANGED <<mtime, clock>>
    BY <1>6 DEF Restart, files
  <2>3. /\ nextId' = 1 /\ liveStale' = FALSE
        /\ liveStaleSnap' = {} /\ latestDiskMtimes' = {}
    BY <1>6 DEF Restart, ForgetAll
  <2>4. nextId' \in Nat \ {0}
    BY <2>3
  <2>5. liveStale' \in BOOLEAN
    BY <2>3, Zenon
  <2> QED BY <2>1, <2>2, <2>3, <2>4, <2>5 DEF StoreTypeOK, OptionalMtimes, AtMostOne
<1>7. CASE UNCHANGED storeVars
  BY <1>7 DEF storeVars, StoreTypeOK, OptionalMtimes, AtMostOne, IsMtimes
<1> QED BY <1>1, <1>2, <1>3, <1>4, <1>5, <1>6, <1>7 DEF StoreNext

\* The snapshot store's variables keep their types.
THEOREM TypeCorrect == StoreSpec => []StoreTypeOK
BY InitType, NextType, PTL DEF StoreSpec

(***************************************************************************)
(* The inductive invariant: types, the retention window, the anchor, the   *)
(* flag, and that every recorded mtime is a past reading of the clock.     *)
(***************************************************************************)

StoreInv ==
  StoreTypeOK /\ RetentionWindow /\ AnchorIsNewestDisk /\ FlagNamesSnapshot
         /\ RecordedMtimesPast

Window(n) == {i \in 1..(n - 1) : i >= n - Retention}

\* Evicting the oldest ids of a full window and admitting the next id slides
\* the window by one.
LEMMA KeepNewestSlides ==
  ASSUME NEW n \in Nat \ {0}
  PROVE  KeepNewest(Window(n) \cup {n}) = Window(n + 1)
<1> DEFINE ids == Window(n) \cup {n}
<1>0. Retention \in Nat /\ Retention >= 1
  BY RetentionAssumption
<1>1. ASSUME NEW i \in ids
      PROVE  Cardinality({j \in ids : j > i}) = n - i
  <2>1. {j \in ids : j > i} = (i + 1)..n
    BY <1>0, <1>1 DEF Window
  <2>2. i \in Int /\ i <= n
    BY <1>1 DEF Window
  <2>3. Cardinality((i + 1)..n) = n - i
    BY <2>2, FS_Interval
  <2> QED BY <2>1, <2>3
<1>2. ASSUME NEW i \in ids
      PROVE  Cardinality({j \in ids : j > i}) < Retention <=> i \in Window(n + 1)
  <2>1. i \in Int /\ 1 <= i /\ i <= n
    BY <1>2 DEF Window
  <2>2. n - i < Retention <=> i >= (n + 1) - Retention
    BY <1>0, <2>1
  <2> QED BY <1>1, <2>1, <2>2 DEF Window
<1>3. Window(n + 1) \subseteq ids
  BY <1>0 DEF Window
<1> HIDE DEF ids
<1>4. KeepNewest(ids) = Window(n + 1)
  BY <1>2, <1>3 DEF KeepNewest
<1> QED BY <1>4 DEF ids

\* What register does to the invariant, whoever calls it.
LEMMA RegisterKeepsWindow ==
  ASSUME StoreTypeOK, RetentionWindow, NEW kind, NEW o, Register(kind, o)
  PROVE  /\ RetentionWindow'
         /\ DOMAIN entries' \subseteq DOMAIN entries \cup {nextId}
         /\ nextId \in DOMAIN entries'
         /\ entries'[nextId] = [kind |-> kind, mtimes |-> o]
         /\ \A i \in DOMAIN entries' \ {nextId} : entries'[i] = entries[i]
         /\ \A i \in DOMAIN entries \ DOMAIN entries' :
              \A j \in DOMAIN entries' : i < j
<1>0. Retention \in Nat /\ Retention >= 1 /\ nextId \in Nat \ {0}
  BY RetentionAssumption DEF StoreTypeOK
<1>1. DOMAIN entries = Window(nextId)
  BY DEF RetentionWindow, Window
<1>2. DOMAIN entries' = Window(nextId + 1)
  BY <1>0, <1>1, KeepNewestSlides DEF Register
<1>3. nextId' = nextId + 1
  BY DEF Register
<1>4. RetentionWindow'
  BY <1>2, <1>3 DEF RetentionWindow, Window
<1>5. nextId \in Window(nextId + 1) /\ nextId \notin Window(nextId)
  BY <1>0 DEF Window
<1>6. Window(nextId + 1) \subseteq Window(nextId) \cup {nextId}
  BY <1>0 DEF Window
<1>7. \A i \in Window(nextId) \ Window(nextId + 1) : \A j \in Window(nextId + 1) : i < j
  BY <1>0 DEF Window
<1>8. \A i \in DOMAIN entries' :
        entries'[i] = IF i = nextId THEN [kind |-> kind, mtimes |-> o] ELSE entries[i]
  BY DEF Register
<1> QED BY <1>1, <1>2, <1>4, <1>5, <1>6, <1>7, <1>8

\* Registering a live snapshot, or the current mtimes, keeps the anchor the
\* newest retained disk snapshot.
LEMMA RegisterKeepsAnchor ==
  ASSUME StoreTypeOK, RetentionWindow, AnchorIsNewestDisk,
         NEW kind, NEW o, Register(kind, o)
  PROVE  AnchorIsNewestDisk'
<1>0. /\ DOMAIN entries' \subseteq DOMAIN entries \cup {nextId}
      /\ nextId \in DOMAIN entries'
      /\ entries'[nextId] = [kind |-> kind, mtimes |-> o]
      /\ \A k \in DOMAIN entries' \ {nextId} : entries'[k] = entries[k]
      /\ \A k \in DOMAIN entries \ DOMAIN entries' :
           \A j \in DOMAIN entries' : k < j
  BY RegisterKeepsWindow
<1>1. SUFFICES ASSUME NEW i \in DiskIds', \A j \in DiskIds' : j <= i
               PROVE  entries'[i].mtimes = latestDiskMtimes'
  BY DEF AnchorIsNewestDisk
<1>2. i \in DOMAIN entries' /\ entries'[i].mtimes # {}
  BY <1>1 DEF DiskIds
<1>3. nextId \in Nat /\ DOMAIN entries \subseteq 1..(nextId - 1)
  BY DEF StoreTypeOK, RetentionWindow
<1>4. CASE i = nextId
  BY <1>2, <1>4, <1>0 DEF Register
<1>5. CASE i # nextId
  <2>1. i \in DOMAIN entries /\ entries'[i] = entries[i]
    BY <1>2, <1>5, <1>0
  <2>2. o = {}
    <3>1. SUFFICES ASSUME o # {} PROVE FALSE
      OBVIOUS
    <3>2. nextId \in DiskIds'
      BY <1>0, <3>1 DEF DiskIds
    <3> QED BY <1>1, <1>3, <2>1, <3>2
  <2>3. latestDiskMtimes' = latestDiskMtimes
    BY <2>2 DEF Register
  <2>4. ASSUME NEW j \in DiskIds PROVE j <= i
    <3>1. j \in DOMAIN entries /\ entries[j].mtimes # {} /\ j < nextId
      BY <1>3 DEF DiskIds
    <3>2. CASE j \in DOMAIN entries'
      <4>1. entries'[j] = entries[j]
        BY <1>3, <3>1, <1>0, <3>2
      <4> QED BY <1>1, <3>1, <3>2, <4>1 DEF DiskIds
    <3>3. CASE j \notin DOMAIN entries'
      BY <1>2, <1>3, <2>1, <3>1, <1>0, <3>3
    <3> QED BY <3>2, <3>3
  <2> QED BY <1>2, <2>1, <2>3, <2>4 DEF AnchorIsNewestDisk, DiskIds
<1> QED BY <1>4, <1>5

\* What was just collected is a past reading, for every file that exists.
LEMMA CollectPast ==
  ASSUME StoreTypeOK, RecordedMtimesPast
  PROVE  PastWrite(CollectMtimes)
BY DEF StoreTypeOK, RecordedMtimesPast, PastWrite, CollectMtimes

\* A registration records the mtimes of now, which are past at the next write.
LEMMA RegisterKeepsPast ==
  ASSUME StoreTypeOK, RetentionWindow, RecordedMtimesPast, UNCHANGED files,
         NEW kind, NEW o, o \in {{}, {CollectMtimes}}, Register(kind, o)
  PROVE  RecordedMtimesPast'
<1>0. /\ DOMAIN entries' \subseteq DOMAIN entries \cup {nextId}
      /\ entries'[nextId] = [kind |-> kind, mtimes |-> o]
      /\ \A k \in DOMAIN entries' \ {nextId} : entries'[k] = entries[k]
  BY RegisterKeepsWindow
<1>1. \A m \in o : PastWrite(m)
  BY CollectPast
<1>2. \A m : PastWrite(m)' <=> \A f \in DOMAIN m : m[f] \in 1..clock
  BY DEF PastWrite, files
<1>3. \A f \in Files : mtime'[f] <= clock'
  BY DEF RecordedMtimesPast, files
<1>4. latestDiskMtimes' = latestDiskMtimes \/ latestDiskMtimes' = o
  BY DEF Register
<1>5. \A m \in latestDiskMtimes' : \A f \in DOMAIN m : m[f] \in 1..clock
  BY <1>1, <1>4 DEF RecordedMtimesPast, PastWrite
<1>6. ASSUME NEW i \in DOMAIN entries', NEW m \in entries'[i].mtimes
      PROVE  \A f \in DOMAIN m : m[f] \in 1..clock
  <2>1. CASE i = nextId
    <3>1. entries'[i].mtimes = o
      BY <1>0, <2>1
    <3> QED BY <1>1, <1>6, <3>1 DEF PastWrite
  <2>2. CASE i # nextId
    BY <1>0, <1>6, <2>2 DEF RecordedMtimesPast, PastWrite
  <2> QED BY <2>1, <2>2
<1> QED BY <1>3, <1>5, <1>6 DEF RecordedMtimesPast, PastWrite, files

\* A write or a removal only moves a file away from every recorded mtime.
LEMMA FilesKeepPast ==
  ASSUME StoreTypeOK, RecordedMtimesPast, UNCHANGED memory,
         NEW f \in Files,
         WriteFile(f) \/ RemoveFile(f)
  PROVE  RecordedMtimesPast'
<1>1. clock \in Nat /\ clock' \in Nat /\ clock <= clock'
  BY DEF StoreTypeOK, WriteFile, RemoveFile, Write
<1>2. \A g \in Files : mtime'[g] \in {mtime[g], 0, clock'}
  BY DEF StoreTypeOK, WriteFile, RemoveFile, Write
<1>3. \A g \in Files : mtime[g] \in Nat /\ mtime[g] <= clock
  BY DEF StoreTypeOK, RecordedMtimesPast
<1>4. \A g \in Files : mtime'[g] <= clock'
  BY <1>1, <1>2, <1>3
<1>5. \A m : PastWrite(m) => \A g \in DOMAIN m : m[g] \in 1..clock'
  BY <1>1 DEF PastWrite
<1> QED BY <1>4, <1>5 DEF RecordedMtimesPast, PastWrite, memory

\* The store begins empty.
LEMMA StoreInvInit == StoreInit => StoreInv
<1> SUFFICES ASSUME StoreInit PROVE StoreInv
  OBVIOUS
<1>1. /\ DOMAIN entries = {} /\ nextId = 1 /\ clock = 1
      /\ liveStaleSnap = {} /\ latestDiskMtimes = {}
      /\ mtime \in [Files -> {0, 1}]
  BY DEF StoreInit
<1>2. liveStale = FALSE
  BY DEF StoreInit
<1>3. StoreTypeOK
  BY InitType
<1>4. RetentionWindow
  BY <1>1 DEF RetentionWindow
<1>5. AnchorIsNewestDisk
  BY <1>1 DEF AnchorIsNewestDisk, DiskIds
<1>6. FlagNamesSnapshot
  BY <1>1, <1>2, Zenon DEF FlagNamesSnapshot
<1>7. RecordedMtimesPast
  BY <1>1 DEF RecordedMtimesPast
<1> QED BY <1>3, <1>4, <1>5, <1>6, <1>7 DEF StoreInv

\* By the lemmas above, one for each part of the invariant.
LEMMA StoreInvStep == StoreInv /\ [StoreNext]_storeVars => StoreInv'
<1> SUFFICES ASSUME StoreInv, [StoreNext]_storeVars
             PROVE  StoreInv'
  OBVIOUS
<1>0. StoreTypeOK'
  BY NextType DEF StoreInv
<1> USE DEF StoreInv
<1>1. ASSUME NEW kind \in Kinds, RegisterDisk(kind)
      PROVE  StoreInv'
  <2>1. Register(kind, {CollectMtimes}) /\ UNCHANGED files
    BY <1>1 DEF RegisterDisk
  <2>2. RetentionWindow' /\ AnchorIsNewestDisk'
    BY <2>1, RegisterKeepsWindow, RegisterKeepsAnchor
  <2>3. RecordedMtimesPast'
    BY <2>1, RegisterKeepsPast
  <2>4. nextId' = nextId + 1 /\ nextId \in Nat
    BY <2>1 DEF Register, StoreTypeOK
  <2>5. FlagNamesSnapshot'
    <3>1. CASE KeepStale
      BY <2>4, <3>1 DEF KeepStale, FlagNamesSnapshot, StoreTypeOK
    <3>2. CASE ClearStale
      BY <3>2, Zenon DEF ClearStale, FlagNamesSnapshot
    <3>3. CASE MarkStale(nextId)
      BY <2>4, <3>3 DEF MarkStale, FlagNamesSnapshot
    <3> QED BY <1>1, <3>1, <3>2, <3>3 DEF RegisterDisk
  <2> QED BY <1>0, <2>2, <2>3, <2>5
<1>2. CASE RegisterLive
  <2>1. Register("pcb", {}) /\ UNCHANGED files /\ KeepStale
    BY <1>2 DEF RegisterLive
  <2>2. RetentionWindow' /\ AnchorIsNewestDisk'
    BY <2>1, RegisterKeepsWindow, RegisterKeepsAnchor
  <2>3. RecordedMtimesPast'
    BY <2>1, RegisterKeepsPast
  <2>4. FlagNamesSnapshot'
    BY <2>1 DEF Register, KeepStale, FlagNamesSnapshot, StoreTypeOK
  <2> QED BY <1>0, <2>2, <2>3, <2>4
<1>3. CASE ClearLiveStale
  <2>1. FlagNamesSnapshot'
    BY <1>3, Zenon DEF ClearLiveStale, ClearStale, FlagNamesSnapshot
  <2>2. RetentionWindow' /\ AnchorIsNewestDisk' /\ RecordedMtimesPast'
    BY <1>3 DEF ClearLiveStale, RetentionWindow, AnchorIsNewestDisk, DiskIds,
                RecordedMtimesPast, PastWrite
  <2> QED BY <1>0, <2>1, <2>2
<1>4. ASSUME NEW f \in Files, WriteFile(f) \/ RemoveFile(f)
      PROVE  StoreInv'
  <2>1. UNCHANGED memory
    BY <1>4 DEF WriteFile, RemoveFile
  <2>2. RecordedMtimesPast'
    BY <1>4, <2>1, FilesKeepPast
  <2>3. RetentionWindow' /\ AnchorIsNewestDisk' /\ FlagNamesSnapshot'
    BY <2>1 DEF memory, RetentionWindow, AnchorIsNewestDisk, DiskIds, FlagNamesSnapshot
  <2> QED BY <1>0, <2>2, <2>3
<1>5. CASE Restart
  <2>1. /\ DOMAIN entries' = {} /\ nextId' = 1
        /\ liveStaleSnap' = {} /\ latestDiskMtimes' = {}
        /\ UNCHANGED <<mtime, clock>>
    BY <1>5 DEF Restart, ForgetAll, files
  <2>2. liveStale' = FALSE
    BY <1>5 DEF Restart, ForgetAll
  <2>3. RetentionWindow' /\ AnchorIsNewestDisk' /\ RecordedMtimesPast'
    BY <2>1 DEF RetentionWindow, AnchorIsNewestDisk, DiskIds, RecordedMtimesPast
  <2>4. FlagNamesSnapshot'
    BY <2>1, <2>2, Zenon DEF FlagNamesSnapshot
  <2> QED BY <1>0, <2>3, <2>4
<1>6. CASE UNCHANGED storeVars
  BY <1>0, <1>6 DEF storeVars, RetentionWindow, AnchorIsNewestDisk, DiskIds,
                    FlagNamesSnapshot, RecordedMtimesPast, PastWrite
<1> QED BY <1>1, <1>2, <1>3, <1>4, <1>5, <1>6 DEF StoreNext

THEOREM InductiveInvariant == StoreSpec => []StoreInv
BY StoreInvInit, StoreInvStep, PTL DEF StoreSpec

\* FIFO eviction keeps exactly the last Retention ids: an agent holding one of
\* them is never told SNAPSHOT_STALE.
THEOREM RetentionCorrect == StoreSpec => []RetentionWindow
BY InductiveInvariant, PTL DEF StoreInv

\* The anchor of the disk guard is the newest retained disk snapshot.
THEOREM AnchorCorrect == StoreSpec => []AnchorIsNewestDisk
BY InductiveInvariant, PTL DEF StoreInv

\* The split-brain flag always names a snapshot that was registered.
THEOREM FlagCorrect == StoreSpec => []FlagNamesSnapshot
BY InductiveInvariant, PTL DEF StoreInv

(***************************************************************************)
(* Staleness is for ever, within one process.                              *)
(***************************************************************************)

\* A changed file stays changed with respect to any past reading.
LEMMA ChangeIsForEver ==
  ASSUME StoreInv, [StoreNext]_storeVars,
         NEW m, IsMtimes(m), PastWrite(m), NEW f \in DOMAIN m, Changed(m, f)
  PROVE  mtime'[f] # m[f]
<1>1. f \in Files /\ m[f] \in 1..clock /\ clock \in Nat /\ mtime \in [Files -> Nat]
  BY DEF IsMtimes, PastWrite, StoreInv, StoreTypeOK
<1>2. \/ mtime' = mtime
      \/ \E g \in Files : mtime' = [mtime EXCEPT ![g] = clock + 1]
      \/ \E g \in Files : mtime' = [mtime EXCEPT ![g] = 0]
  BY DEF StoreNext, RegisterDisk, RegisterLive, ClearLiveStale, WriteFile, Write,
         RemoveFile, Restart, files, storeVars
<1> QED BY <1>1, <1>2 DEF Changed

\* Steps that keep the ids of the store keep the snapshots they name.
LEMMA EntriesImmutable ==
  ASSUME StoreInv, [StoreNext]_storeVars, nextId' >= nextId,
         NEW i \in DOMAIN entries \cap DOMAIN entries'
  PROVE  entries'[i] = entries[i]
<1>1. nextId \in Nat \ {0} /\ i # nextId
  BY DEF StoreInv, StoreTypeOK, RetentionWindow
<1>2. ASSUME NEW kind, NEW o, Register(kind, o)
      PROVE  entries'[i] = entries[i]
  BY <1>1, <1>2 DEF Register
<1>3. CASE \E kind \in Kinds : RegisterDisk(kind)
  BY <1>2, <1>3 DEF RegisterDisk
<1>4. CASE RegisterLive
  BY <1>2, <1>4 DEF RegisterLive
<1>5. CASE Restart
  BY <1>5 DEF Restart, ForgetAll
<1>6. CASE UNCHANGED entries
  BY <1>6
<1> QED BY <1>3, <1>4, <1>5, <1>6
        DEF StoreNext, ClearLiveStale, WriteFile, RemoveFile, memory, storeVars

\* A base_snap once refused for an external edit is never accepted again by
\* the same process.
THEOREM StaleForEver == StoreSpec => StaleNeverRevives
<1>1. ASSUME StoreInv, [StoreNext]_storeVars
      PROVE  \A i \in DOMAIN entries \cap DOMAIN entries' :
               nextId' >= nextId => (~ValidBase(i) => ~ValidBase(i)')
  <2> SUFFICES ASSUME NEW i \in DOMAIN entries \cap DOMAIN entries',
                      nextId' >= nextId, ~ValidBase(i)
               PROVE  ~ValidBase(i)'
    OBVIOUS
  <2>1. entries'[i] = entries[i]
    BY <1>1, EntriesImmutable
  <2>2. PICK m \in entries[i].mtimes : \E f \in DOMAIN m : Changed(m, f)
    BY DEF ValidBase, Unchanged
  <2>3. PICK f \in DOMAIN m : Changed(m, f)
    BY <2>2
  <2>4. IsMtimes(m) /\ PastWrite(m)
    BY <1>1 DEF StoreInv, StoreTypeOK, OptionalMtimes, RecordedMtimesPast
  <2>5. mtime'[f] # m[f]
    BY <1>1, <2>3, <2>4, ChangeIsForEver
  <2> QED BY <2>1, <2>2, <2>3, <2>5 DEF ValidBase, Unchanged, Changed
<1> QED BY <1>1, InductiveInvariant, PTL DEF StoreSpec, StaleNeverRevives

(***************************************************************************)
(* The mtime comparison implements exact edit detection.                   *)
(***************************************************************************)

\* A write or removal of f makes f dirty if it is tracked, and nothing else.
LEMMA EditMakesDirty ==
  ASSUME StoreInv, NEW f \in Files, WriteFile(f) \/ RemoveFile(f)
  PROVE  /\ trackedFiles' = trackedFiles
         /\ dirtyFiles' = dirtyFiles \cup ({f} \cap trackedFiles)
<1>1. latestDiskMtimes' = latestDiskMtimes
  BY DEF WriteFile, RemoveFile, memory
<1>2. trackedFiles' = trackedFiles
  BY <1>1 DEF trackedFiles
<1>3. /\ mtime \in [Files -> Nat] /\ clock \in Nat
      /\ \A m \in latestDiskMtimes : IsMtimes(m) /\ PastWrite(m)
  BY DEF StoreInv, StoreTypeOK, OptionalMtimes, RecordedMtimesPast
<1>4. \A g \in Files : g # f => mtime'[g] = mtime[g]
  BY <1>3 DEF WriteFile, Write, RemoveFile
<1>5. mtime'[f] \in {0, clock + 1}
  BY <1>3 DEF WriteFile, Write, RemoveFile
<1>6. \A m, n \in latestDiskMtimes : m = n
  BY DEF StoreInv, StoreTypeOK, OptionalMtimes, AtMostOne
<1>7. trackedFiles \subseteq Files
  BY <1>3 DEF trackedFiles, IsMtimes
<1>8. ASSUME NEW g \in trackedFiles
      PROVE  g \in dirtyFiles' <=> g \in dirtyFiles \/ g = f
  <2>1. PICK m \in latestDiskMtimes : g \in DOMAIN m
    BY DEF trackedFiles
  <2>2. latestDiskMtimes = {m}
    BY <1>6, <2>1
  <2>3. g \in dirtyFiles' <=> mtime'[g] # m[g]
    BY <1>1, <1>2, <2>2 DEF dirtyFiles, Changed
  <2>4. g \in dirtyFiles <=> mtime[g] # m[g]
    BY <2>2 DEF dirtyFiles, Changed
  <2>5. CASE g = f
    <3>1. m[f] \in 1..clock
      BY <1>3, <2>1, <2>5 DEF PastWrite
    <3> QED BY <1>3, <1>5, <2>3, <2>5, <3>1
  <2>6. CASE g # f
    BY <1>4, <1>7, <2>3, <2>4, <2>6
  <2> QED BY <2>5, <2>6
<1>9. dirtyFiles \subseteq trackedFiles /\ dirtyFiles' \subseteq trackedFiles
  BY <1>2 DEF dirtyFiles
<1> QED BY <1>2, <1>8, <1>9

\* Registering the current mtimes re-anchors: all tracked, none dirty.
LEMMA RegisterDiskAnchors ==
  ASSUME NEW kind, RegisterDisk(kind)
  PROVE  Detector!Anchor(trackedFiles') /\ trackedFiles' \in SUBSET Files
<1>1. latestDiskMtimes' = {CollectMtimes} /\ mtime' = mtime
  BY DEF RegisterDisk, Register, files
<1>2. dirtyFiles' = {}
  BY <1>1 DEF dirtyFiles, trackedFiles, Changed, CollectMtimes
<1>3. trackedFiles' \subseteq Files
  BY <1>1 DEF trackedFiles, CollectMtimes
<1> QED BY <1>2, <1>3 DEF Detector!Anchor

\* SnapshotStore implements EditDetector: from one disk registration to the
\* next, check_no_external_disk_edit knows exactly the tracked files touched.
THEOREM ImplementsDetector == StoreSpec => DetectsEdits
<1>1. StoreInit => Detector!Init
  BY DEF StoreInit, Detector!Init, trackedFiles, dirtyFiles
<1>2. ASSUME StoreInv, [StoreNext]_storeVars
      PROVE  [Detector!Next]_(Detector!detectorVars)
  <2>1. CASE \E kind \in Kinds : RegisterDisk(kind)
    BY <2>1, RegisterDiskAnchors DEF Detector!Next
  <2>2. CASE RegisterLive \/ ClearLiveStale \/ UNCHANGED storeVars
    <3>1. latestDiskMtimes' = latestDiskMtimes /\ mtime' = mtime
      BY <2>2 DEF RegisterLive, Register, ClearLiveStale, storeVars, files
    <3> QED BY <3>1 DEF Detector!detectorVars, trackedFiles, dirtyFiles, Changed
  <2>3. ASSUME NEW f \in Files, WriteFile(f) \/ RemoveFile(f)
        PROVE  Detector!Next
    BY <1>2, <2>3, EditMakesDirty DEF Detector!Next, Detector!Edit
  <2>4. CASE Restart
    <3>1. latestDiskMtimes' = {}
      BY <2>4 DEF Restart, ForgetAll
    <3>2. trackedFiles' = {} /\ dirtyFiles' = {}
      BY <3>1 DEF trackedFiles, dirtyFiles
    <3> QED BY <3>2 DEF Detector!Next, Detector!Forget, Detector!Anchor
  <2> QED BY <1>2, <2>1, <2>2, <2>3, <2>4 DEF StoreNext
<1>3. ASSUME StoreInv PROVE NoExternalEdit <=> dirtyFiles = {}
  <2>1. \A m, n \in latestDiskMtimes : m = n
    BY <1>3 DEF StoreInv, StoreTypeOK, OptionalMtimes, AtMostOne
  <2>2. CASE latestDiskMtimes = {}
    BY <2>2 DEF NoExternalEdit, dirtyFiles
  <2>3. CASE latestDiskMtimes # {}
    <3>1. PICK m : latestDiskMtimes = {m}
      BY <2>1, <2>3
    <3>2. trackedFiles = DOMAIN m
      BY <3>1 DEF trackedFiles
    <3> QED BY <3>1, <3>2 DEF NoExternalEdit, Unchanged, dirtyFiles
  <2> QED BY <2>2, <2>3
<1> QED BY <1>1, <1>2, <1>3, InductiveInvariant, PTL
        DEF StoreSpec, DetectsEdits, Detector!Spec

=============================================================================
