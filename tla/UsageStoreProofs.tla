-------------------------- MODULE UsageStoreProofs --------------------------
(* Theorems about the usage store, for every value of its constants.       *)
EXTENDS UsageStore, DataLemmas

(* A saturating sum of counters is a counter. *)
LEMMA SaturatingAddType ==
  ASSUME NEW left \in Bytes, NEW right \in Bytes
  PROVE  SaturatingAdd(left, right) \in Bytes
BY UsageDataAssumption DEF SaturatingAdd, Bytes

(* The clock a manager works with is one of the seconds. *)
LEMMA CurrentSecondType ==
  ASSUME TypeOK
  PROVE  CurrentSecond \in Second
BY DEF TypeOK, CurrentSecond

LEMMA PruneType ==
  ASSUME NEW book \in Book, NEW now
  PROVE  Prune(book, now) \in Book
BY UsageDataAssumption DEF Prune, Book, Bytes

LEMMA LoadType ==
  ASSUME NEW book \in Book, NEW now
  PROVE  Load(book, now) \in Book
<1>1. \A k \in Key : book[k] \in Bytes
  BY DEF Book
<1>2. 0 \in Bytes /\ MaxBytes \in Bytes
  BY UsageDataAssumption DEF Bytes
<1>3. \A keys : SaturatingTotal(book, keys) \in Bytes
  BY <1>2 DEF SaturatingTotal
<1> QED
  BY <1>1, <1>2, <1>3 DEF Load, Book

LEMMA OverlayType ==
  ASSUME NEW book \in Book, NEW puts \in [Key -> Bytes \cup {Clean}],
         NEW deletes
  PROVE  Overlay(book, puts, deletes) \in Book
BY UsageDataAssumption DEF Overlay, Book, Bytes
-----------------------------------------------------------------------------
(* MemoryMatchesDisk is not inductive alone: the cleanup of a flush is     *)
(* right only because of what the snapshot still says about the maps.      *)
(* While a transaction runs, records may overwrite an entry of the         *)
(* snapshot or turn a deletion of it into an entry, and nothing else.      *)
SnapshotStillPending ==
  runner \in {"update", "cleanup"} =>
    /\ persistent
    /\ \A k \in Key : snapDirty[k] # Clean => dirty[k] # Clean
    /\ \A k \in snapDeletions : k \in deletions \/ dirty[k] # Clean

(* After the commit the file holds what the snapshot says. *)
SnapshotWritten ==
  runner = "cleanup" =>
    /\ \A k \in Key : snapDirty[k] # Clean => disk[k] = snapDirty[k]
    /\ \A k \in snapDeletions : disk[k] = 0

NoManagerNoRunner == status \in {"down", "closed"} => runner = "exited"

IInv ==
  /\ TypeOK
  /\ PutOrDelete
  /\ MemoryMatchesDisk
  /\ SnapshotStillPending
  /\ SnapshotWritten
  /\ NoManagerNoRunner

(* MemoryMatchesDisk, key by key. *)
LEMMA MatchesKeyByKey ==
  ASSUME NEW book \in Book, NEW puts, NEW deletes, NEW whole \in Book,
         \A k \in Key : whole[k] = IF puts[k] # Clean THEN puts[k]
                                   ELSE IF k \in deletes THEN 0 ELSE book[k]
  PROVE  Overlay(book, puts, deletes) = whole
BY DEF Overlay, Book

LEMMA MatchesAtKey ==
  ASSUME TypeOK, Overlay(disk, dirty, deletions) = usage, NEW k \in Key
  PROVE  usage[k] = IF dirty[k] # Clean THEN dirty[k]
                    ELSE IF k \in deletions THEN 0 ELSE disk[k]
BY DEF Overlay

LEMMA InitIInv == Init => IInv
<1> SUFFICES ASSUME Init PROVE IInv
  OBVIOUS
<1>1. 0 \in Bytes /\ 0 \in Second
  BY UsageDataAssumption DEF Bytes, Second
<1>2. TypeOK
  BY <1>1 DEF Init, TypeOK, EmptyBook, Book, NothingDirty
<1> QED
  BY <1>2 DEF Init, IInv, PutOrDelete, MemoryMatchesDisk,
     SnapshotStillPending, SnapshotWritten, NoManagerNoRunner
-----------------------------------------------------------------------------
(* One lemma per step that touches what IInv speaks of. *)

LEMMA CrashIInv == IInv /\ Crash => IInv'
<1> SUFFICES ASSUME IInv, Crash PROVE IInv'
  OBVIOUS
<1>1. 0 \in Bytes /\ 0 \in Second
  BY UsageDataAssumption DEF Bytes, Second
<1>2. TypeOK'
  BY <1>1 DEF IInv, TypeOK, Crash, EmptyBook, Book, NothingDirty
<1> QED
  BY <1>2 DEF IInv, Crash, PutOrDelete, MemoryMatchesDisk,
     SnapshotStillPending, SnapshotWritten, NoManagerNoRunner, NothingDirty

LEMMA OpenIInv == IInv /\ Open => IInv'
<1> SUFFICES ASSUME IInv, Open PROVE IInv'
  OBVIOUS
<1> USE DEF Open, Started
<1>1. /\ disk \in Book /\ disk' = disk /\ clock \in Second
      /\ usage' = Load(disk, clock) /\ usage' \in Book
  BY LoadType DEF IInv, TypeOK
<1>2. ClampedKeys(disk, clock) \subseteq Key
      /\ FutureKeys(disk, clock) \subseteq Key
      /\ ExpiredKeys(clock) \subseteq Key
  BY DEF ClampedKeys, FutureKeys, ExpiredKeys
<1>3. deletions' \in SUBSET Key
  BY <1>2
<1>4. dirty' \in [Key -> Bytes \cup {Clean}]
  BY <1>1 DEF Book
<1>5. TypeOK'
  BY <1>1, <1>3, <1>4 DEF IInv, TypeOK, NothingDirty
<1>6. \A k \in Key :
        k[2] \in Int /\ ~(k \in ExpiredKeys(clock) /\ k[2] >= clock)
  BY <1>1, UsageDataAssumption DEF Key, Second, ExpiredKeys
<1>7. \A k \in ClampedKeys(disk, clock) : k \notin deletions'
  BY <1>1, <1>6 DEF ClampedKeys, FutureKeys, Second
<1>8. PutOrDelete'
  BY <1>3, <1>7 DEF PutOrDelete, NothingDirty
<1>9. ASSUME NEW k \in Key
      PROVE  usage'[k] = IF dirty'[k] # Clean THEN dirty'[k]
                         ELSE IF k \in deletions' THEN 0 ELSE disk'[k]
  <2>1. CASE k \in ClampedKeys(disk, clock)
    <3>1. usage'[k] \in Bytes
      BY <1>1 DEF Book
    <3> QED
      BY <2>1, <3>1, UsageStoreAssumption
  <2>2. CASE k \notin ClampedKeys(disk, clock)
    <3>1. dirty'[k] = Clean
      BY <2>2
    <3>2. usage'[k] = IF k \in ExpiredKeys(clock) \/ k[2] > clock
                      THEN 0 ELSE disk[k]
      BY <1>1, <2>2 DEF Load
    <3>3. k \in deletions' <=> (disk[k] # 0
                                /\ (k \in ExpiredKeys(clock) \/ k[2] > clock))
      BY DEF FutureKeys
    <3> QED
      BY <1>1, <3>1, <3>2, <3>3
  <2> QED
    BY <2>1, <2>2
<1>10. MemoryMatchesDisk'
  <2>1. Overlay(disk', dirty', deletions') = usage'
    BY <1>1, <1>9, MatchesKeyByKey
  <2> QED
    BY <2>1 DEF MemoryMatchesDisk, Overlay
<1>11. SnapshotStillPending' /\ SnapshotWritten' /\ NoManagerNoRunner'
  BY DEF SnapshotStillPending, SnapshotWritten, NoManagerNoRunner
<1> QED
  BY <1>5, <1>8, <1>10, <1>11 DEF IInv

LEMMA OpenFailsIInv == IInv /\ OpenFails => IInv'
<1> SUFFICES ASSUME IInv, OpenFails PROVE IInv'
  OBVIOUS
<1>1. 0 \in Bytes
  BY UsageDataAssumption DEF Bytes
<1>2. TypeOK'
  BY <1>1 DEF IInv, TypeOK, OpenFails, Started, EmptyBook, Book, NothingDirty
<1> QED
  BY <1>2 DEF IInv, OpenFails, Started, PutOrDelete, MemoryMatchesDisk,
     SnapshotStillPending, SnapshotWritten, NoManagerNoRunner, NothingDirty

LEMMA RecordIInv ==
  ASSUME IInv, NEW p \in Prefix, NEW amount \in Amount, Record(p, amount)
  PROVE  IInv'
<1> DEFINE k == <<p, CurrentSecond>>
           total == SaturatingAdd(usage[k], amount)
<1>1. CurrentSecond \in Second /\ k \in Key
  BY CurrentSecondType DEF IInv, Key
<1>2. usage[k] \in Bytes /\ amount \in Bytes
  BY <1>1, UsageStoreAssumption DEF IInv, TypeOK, Book
<1>3. total \in Bytes /\ total # Clean
  BY <1>2, SaturatingAddType, UsageStoreAssumption
<1>4. /\ lastNow' = CurrentSecond
      /\ usage' = [usage EXCEPT ![k] = total]
      /\ dirty' = [dirty EXCEPT ![k] = total]
      /\ deletions' = deletions \ {k}
      /\ touched' = touched \cup {k}
      /\ UNCHANGED <<clock, status, persistent, disk, runner, drained,
                     snapDirty, snapDeletions, lastFlush>>
  BY DEF Record, flushing
<1> HIDE DEF k, total
<1>5. TypeOK'
  BY <1>1, <1>3, <1>4 DEF IInv, TypeOK, Book
<1>6. PutOrDelete'
  BY <1>4 DEF IInv, TypeOK, PutOrDelete
<1>7. ASSUME persistent PROVE Overlay(disk', dirty', deletions') = usage'
  <2>1. Overlay(disk, dirty, deletions) = usage
    BY <1>7 DEF IInv, MemoryMatchesDisk
  <2>2. \A x \in Key : usage[x] = IF dirty[x] # Clean THEN dirty[x]
                                  ELSE IF x \in deletions THEN 0 ELSE disk[x]
    BY <2>1, MatchesAtKey DEF IInv
  <2>3. \A x \in Key :
          usage'[x] = IF dirty'[x] # Clean THEN dirty'[x]
                      ELSE IF x \in deletions' THEN 0 ELSE disk'[x]
    BY <2>2, <1>1, <1>3, <1>4 DEF IInv, TypeOK, Book
  <2> QED
    BY <2>3, <1>5, MatchesKeyByKey DEF TypeOK
<1>8. MemoryMatchesDisk'
  BY <1>7, <1>4 DEF MemoryMatchesDisk, Overlay
<1>9. SnapshotStillPending'
  BY <1>1, <1>3, <1>4 DEF IInv, TypeOK, SnapshotStillPending
<1>10. SnapshotWritten' /\ NoManagerNoRunner'
  BY <1>4 DEF IInv, SnapshotWritten, NoManagerNoRunner
<1> QED
  BY <1>5, <1>6, <1>8, <1>9, <1>10 DEF IInv

LEMMA PruneMemoryTypes ==
  ASSUME TypeOK, PruneMemory
  PROVE  /\ lastNow' \in Second /\ usage' \in Book
         /\ dirty' \in [Key -> Bytes \cup {Clean}]
         /\ deletions' \in SUBSET Key
<1>1. lastNow' \in Second
  BY CurrentSecondType DEF PruneMemory
<1>2. usage' \in Book
  BY PruneType DEF PruneMemory, TypeOK
<1>3. dirty' \in [Key -> Bytes \cup {Clean}]
  BY DEF PruneMemory, TypeOK
<1>4. deletions' \in SUBSET Key
  BY DEF PruneMemory, TypeOK, ExpiredKeys
<1> QED
  BY <1>1, <1>2, <1>3, <1>4

(* Pruning outside a flush: a bucket that goes from memory is marked for   *)
(* deletion, and a bucket that is not in memory is not in the file either. *)
LEMMA PruneIInv ==
  ASSUME IInv, PruneMemory, runner \notin {"update", "cleanup"},
         runner' \notin {"update", "cleanup"}, NoManagerNoRunner',
         drained' \in BOOLEAN, runner' \in {"select", "drain"},
         UNCHANGED <<clock, status, persistent, disk, flushing, history>>
  PROVE  IInv'
<1> DEFINE removed == {k \in ExpiredKeys(CurrentSecond) : usage[k] # 0}
<1>1. TypeOK'
  BY PruneMemoryTypes DEF IInv, TypeOK, flushing, history
<1>2. /\ usage' = Prune(usage, CurrentSecond)
      /\ dirty' = [k \in Key |-> IF k \in removed THEN Clean ELSE dirty[k]]
      /\ deletions' = deletions \cup removed
  BY DEF PruneMemory
<1>3. \A k \in Key : usage'[k] = IF k \in removed THEN 0 ELSE usage[k]
  BY <1>2 DEF Prune
<1>4. removed \subseteq Key
  BY DEF ExpiredKeys
<1> HIDE DEF removed
<1>5. PutOrDelete'
  BY <1>2, <1>4 DEF IInv, TypeOK, PutOrDelete, flushing
<1>6. ASSUME persistent PROVE Overlay(disk', dirty', deletions') = usage'
  <2>1. \A k \in Key : usage[k] = IF dirty[k] # Clean THEN dirty[k]
                                  ELSE IF k \in deletions THEN 0 ELSE disk[k]
    BY <1>6, MatchesAtKey DEF IInv, MemoryMatchesDisk
  <2>2. \A k \in Key :
          usage'[k] = IF dirty'[k] # Clean THEN dirty'[k]
                      ELSE IF k \in deletions' THEN 0 ELSE disk'[k]
    BY <2>1, <1>2, <1>3
  <2> QED
    BY <2>2, <1>1, MatchesKeyByKey DEF TypeOK
<1>7. MemoryMatchesDisk'
  BY <1>6 DEF MemoryMatchesDisk, Overlay
<1> QED
  BY <1>1, <1>5, <1>7 DEF IInv, SnapshotStillPending, SnapshotWritten

LEMMA PruneTickIInv == IInv /\ PruneTick => IInv'
<1> SUFFICES ASSUME IInv, PruneTick PROVE IInv'
  OBVIOUS
<1>1. NoManagerNoRunner' /\ drained' \in BOOLEAN
  BY DEF IInv, TypeOK, NoManagerNoRunner, PruneTick
<1> QED
  BY <1>1, PruneIInv DEF PruneTick

LEMMA StopReceivedIInv == IInv /\ StopReceived => IInv'
<1> SUFFICES ASSUME IInv, StopReceived PROVE IInv'
  OBVIOUS
<1>1. NoManagerNoRunner'
  BY DEF NoManagerNoRunner, StopReceived
<1> QED
  BY <1>1, PruneIInv DEF StopReceived

LEMMA FlushSnapshotIInv == IInv /\ FlushSnapshot => IInv'
<1> SUFFICES ASSUME IInv, FlushSnapshot PROVE IInv'
  OBVIOUS
<1>1. TypeOK'
  BY DEF IInv, TypeOK, FlushSnapshot, memory
<1>2. NoManagerNoRunner'
  BY DEF IInv, NoManagerNoRunner, FlushSnapshot
<1> QED
  BY <1>1, <1>2 DEF IInv, FlushSnapshot, memory, PutOrDelete, Overlay,
     MemoryMatchesDisk, SnapshotStillPending, SnapshotWritten

LEMMA UpdateCommitsIInv == IInv /\ UpdateCommits => IInv'
<1> SUFFICES ASSUME IInv, UpdateCommits PROVE IInv'
  OBVIOUS
<1>1. /\ disk' = Overlay(disk, snapDirty, snapDeletions)
      /\ runner = "update" /\ runner' = "cleanup" /\ persistent
      /\ UNCHANGED <<clock, status, persistent, lastNow, usage, dirty,
                     deletions, drained, snapDirty, snapDeletions, touched>>
  BY DEF IInv, SnapshotStillPending, UpdateCommits, memory, flushing
<1>2. disk' \in Book
  BY <1>1, OverlayType DEF IInv, TypeOK
<1>3. TypeOK'
  BY <1>1, <1>2 DEF IInv, TypeOK, UpdateCommits
<1>4. \A k \in Key :
        disk'[k] = IF snapDirty[k] # Clean THEN snapDirty[k]
                   ELSE IF k \in snapDeletions THEN 0 ELSE disk[k]
  BY <1>1 DEF Overlay
<1>5. \A k \in Key : usage[k] = IF dirty[k] # Clean THEN dirty[k]
                                ELSE IF k \in deletions THEN 0 ELSE disk[k]
  BY <1>1, MatchesAtKey DEF IInv, MemoryMatchesDisk
<1>6. \A k \in Key :
        usage'[k] = IF dirty'[k] # Clean THEN dirty'[k]
                    ELSE IF k \in deletions' THEN 0 ELSE disk'[k]
  BY <1>1, <1>4, <1>5 DEF IInv, SnapshotStillPending
<1>7. MemoryMatchesDisk'
  <2>1. Overlay(disk', dirty', deletions') = usage'
    BY <1>6, <1>3, MatchesKeyByKey DEF TypeOK
  <2> QED
    BY <2>1 DEF MemoryMatchesDisk, Overlay
<1>8. SnapshotWritten'
  BY <1>1, <1>4 DEF IInv, TypeOK, PutOrDelete, SnapshotWritten
<1> QED
  BY <1>1, <1>3, <1>7, <1>8 DEF IInv, PutOrDelete, SnapshotStillPending,
     NoManagerNoRunner

LEMMA UpdateFailsIInv == IInv /\ UpdateFails => IInv'
<1> SUFFICES ASSUME IInv, UpdateFails PROVE IInv'
  OBVIOUS
<1>1. TypeOK'
  BY DEF IInv, TypeOK, UpdateFails, AfterFlush, memory, NothingDirty
<1>2. NoManagerNoRunner' /\ runner' \notin {"update", "cleanup"}
  BY DEF IInv, NoManagerNoRunner, UpdateFails, AfterFlush
<1> QED
  BY <1>1, <1>2 DEF IInv, UpdateFails, memory, PutOrDelete, Overlay,
     MemoryMatchesDisk, SnapshotStillPending, SnapshotWritten

(* Dropping an entry that still holds the written value changes nothing:   *)
(* the file holds that value; nor does dropping a deletion that was done.  *)
LEMMA FlushCleanupIInv == IInv /\ FlushCleanup => IInv'
<1> SUFFICES ASSUME IInv, FlushCleanup PROVE IInv'
  OBVIOUS
<1>1. TypeOK'
  BY DEF IInv, TypeOK, FlushCleanup, AfterFlush, NothingDirty, history
<1>2. NoManagerNoRunner' /\ runner' \notin {"update", "cleanup"}
  BY DEF IInv, NoManagerNoRunner, FlushCleanup, AfterFlush
<1>3. /\ \A k \in Key : dirty'[k] = IF snapDirty[k] # Clean
                                        /\ dirty[k] = snapDirty[k]
                                     THEN Clean ELSE dirty[k]
      /\ deletions' = deletions \ snapDeletions
      /\ usage' = usage /\ disk' = disk /\ persistent
      /\ persistent' = persistent
      /\ runner = "cleanup"
  BY DEF IInv, SnapshotStillPending, FlushCleanup
<1>4. PutOrDelete'
  BY <1>1, <1>3 DEF IInv, TypeOK, PutOrDelete, FlushCleanup
<1>5. \A k \in Key : usage[k] = IF dirty[k] # Clean THEN dirty[k]
                                ELSE IF k \in deletions THEN 0 ELSE disk[k]
  BY <1>3, MatchesAtKey DEF IInv, MemoryMatchesDisk
<1>6. \A k \in Key :
        usage'[k] = IF dirty'[k] # Clean THEN dirty'[k]
                    ELSE IF k \in deletions' THEN 0 ELSE disk'[k]
  BY <1>3, <1>5 DEF IInv, PutOrDelete, SnapshotWritten
<1>7. MemoryMatchesDisk'
  <2>1. Overlay(disk', dirty', deletions') = usage'
    BY <1>6, <1>1, MatchesKeyByKey DEF TypeOK
  <2> QED
    BY <2>1 DEF MemoryMatchesDisk, Overlay
<1> QED
  BY <1>1, <1>2, <1>4, <1>7 DEF IInv, SnapshotStillPending, SnapshotWritten

(* The other steps leave the maps, the file and the snapshot alone. *)
LEMMA QuietIInv ==
  ASSUME IInv,
         \/ SetClock \/ Check \/ FlushReturnsEarly
         \/ CloseBegins \/ CloseEnds \/ UNCHANGED vars
  PROVE  IInv'
<1> USE DEF SetClock, Check, FlushReturnsEarly, CloseBegins, CloseEnds, vars,
            memory, flushing, history
<1>1. TypeOK'
  BY CurrentSecondType DEF IInv, TypeOK
<1>2. UNCHANGED <<memory, disk, flushing, persistent>>
      /\ (runner' # runner => runner = "drain" /\ runner' = "exited")
  OBVIOUS
<1>3. NoManagerNoRunner'
  BY DEF IInv, NoManagerNoRunner
<1> QED
  BY <1>1, <1>2, <1>3 DEF IInv, PutOrDelete, MemoryMatchesDisk, Overlay,
     SnapshotStillPending, SnapshotWritten
-----------------------------------------------------------------------------
LEMMA NextIInv == IInv /\ [Next]_vars => IInv'
<1> SUFFICES ASSUME IInv, [Next]_vars PROVE IInv'
  OBVIOUS
<1>1. CASE Crash
  BY <1>1, CrashIInv
<1>2. CASE Open
  BY <1>2, OpenIInv
<1>3. CASE OpenFails
  BY <1>3, OpenFailsIInv
<1>4. CASE \E p \in Prefix, amount \in Amount : Record(p, amount)
  BY <1>4, RecordIInv
<1>5. CASE PruneTick
  BY <1>5, PruneTickIInv
<1>6. CASE StopReceived
  BY <1>6, StopReceivedIInv
<1>7. CASE FlushSnapshot
  BY <1>7, FlushSnapshotIInv
<1>8. CASE UpdateCommits
  BY <1>8, UpdateCommitsIInv
<1>9. CASE UpdateFails
  BY <1>9, UpdateFailsIInv
<1>10. CASE FlushCleanup
  BY <1>10, FlushCleanupIInv
<1>11. CASE \/ SetClock \/ Check \/ FlushReturnsEarly
            \/ CloseBegins \/ CloseEnds \/ UNCHANGED vars
  BY <1>11, QuietIInv
<1> QED
  BY <1>1, <1>2, <1>3, <1>4, <1>5, <1>6, <1>7, <1>8, <1>9, <1>10, <1>11
  DEF Next, Run

(* IInv holds in every reachable state. *)
LEMMA Invariance == Spec => []IInv
BY InitIInv, NextIInv, PTL DEF Spec

(* Every variable of the manager stays in its range: the counters saturate *)
(* and clocks never leave the modelled seconds.                            *)
THEOREM TypeCorrect == Spec => []TypeOK
<1>1. IInv => TypeOK
  BY DEF IInv
<1> QED
  BY <1>1, Invariance, PTL

(* For any number of prefixes, seconds and bytes: file and pending changes *)
(* together are the memory, whatever requests record while flush writes.   *)
THEOREM MatchesDisk == Spec => []MemoryMatchesDisk
<1>1. IInv => MemoryMatchesDisk
  BY DEF IInv
<1> QED
  BY <1>1, Invariance, PTL

(* flush never deletes and puts the same key in one transaction.           *)
THEOREM PutsAndDeletesDisjoint == Spec => []PutOrDelete
<1>1. IInv => PutOrDelete
  BY DEF IInv
<1> QED
  BY <1>1, Invariance, PTL
-----------------------------------------------------------------------------
(* While a flush is under way, an entry nobody touched since the snapshot  *)
(* is the entry of the snapshot, so the cleanup will drop it.              *)
UntouchedIsInSnapshot ==
  runner \in {"update", "cleanup"} =>
    \A k \in Key \ touched : dirty[k] # Clean => snapDirty[k] = dirty[k]

LateInv == UntouchedIsInSnapshot /\ FlushLeavesOnlyLateRecords

LEMMA LateInitially == Init => LateInv
BY DEF Init, LateInv, UntouchedIsInSnapshot, FlushLeavesOnlyLateRecords

LEMMA LateStep ==
  ASSUME IInv, IInv', LateInv, [Next]_vars
  PROVE  LateInv'
<1> USE DEF LateInv, UntouchedIsInSnapshot, FlushLeavesOnlyLateRecords,
            DirtyKeys
<1>1. CASE Crash \/ Open \/ OpenFails
  BY <1>1 DEF Crash, Open, OpenFails, Started, NothingDirty
<1>2. ASSUME NEW p \in Prefix, NEW amount \in Amount, Record(p, amount)
      PROVE  LateInv'
  <2>1. \A k \in Key : k # <<p, CurrentSecond>> => dirty'[k] = dirty[k]
    BY <1>2 DEF Record, IInv, TypeOK
  <2>2. touched' = touched \cup {<<p, CurrentSecond>>}
        /\ UNCHANGED <<runner, snapDirty, persistent, lastFlush>>
    BY <1>2 DEF Record, flushing
  <2> QED
    BY <2>1, <2>2
<1>3. CASE PruneTick \/ StopReceived
  <2>1. \A k \in Key : dirty'[k] \in {Clean, dirty[k]}
    BY <1>3 DEF PruneTick, StopReceived, PruneMemory
  <2>2. runner \notin {"update", "cleanup"} /\ runner' \notin {"update", "cleanup"}
        /\ UNCHANGED <<touched, persistent, lastFlush>>
    BY <1>3 DEF PruneTick, StopReceived, history
  <2> QED
    BY <2>1, <2>2
<1>4. CASE FlushSnapshot
  BY <1>4 DEF FlushSnapshot, memory
<1>5. CASE UpdateCommits
  BY <1>5 DEF UpdateCommits, memory, flushing
<1>6. CASE UpdateFails
  BY <1>6 DEF UpdateFails, AfterFlush
<1>7. CASE FlushCleanup
  BY <1>7 DEF FlushCleanup, AfterFlush, history
<1>8. CASE SetClock \/ Check \/ FlushReturnsEarly \/ CloseBegins \/ CloseEnds
           \/ UNCHANGED vars
  <2>1. UNCHANGED <<dirty, snapDirty, touched, persistent, lastFlush>>
    BY <1>8 DEF SetClock, Check, FlushReturnsEarly, CloseBegins, CloseEnds,
       vars, memory, flushing, history
  <2>2. runner' # runner => runner = "drain" /\ runner' = "exited"
    BY <1>8 DEF SetClock, Check, FlushReturnsEarly, CloseBegins, CloseEnds, vars
  <2> QED
    BY <2>1, <2>2
<1> QED
  BY <1>1, <1>2, <1>3, <1>4, <1>5, <1>6, <1>7, <1>8 DEF Next, Run

(* After a flush that committed, whatever is still dirty was recorded      *)
(* after its snapshot; so a clean close loses late records and no others.  *)
THEOREM OnlyLateRecordsStayDirty == Spec => []FlushLeavesOnlyLateRecords
<1>1. IInv /\ IInv' /\ LateInv /\ [Next]_vars => LateInv'
  BY LateStep
<1>2. LateInv => FlushLeavesOnlyLateRecords
  BY DEF LateInv
<1> QED
  BY <1>1, <1>2, LateInitially, Invariance, PTL DEF Spec

LEMMA StaysInWindowStep ==
  ASSUME IInv, [Next]_vars, Alive, ~Started, ~Crash,
         NEW p \in Prefix, NEW d \in Window, NEW k \in WindowKeys(p, lastNow', d)
  PROVE  usage'[k] >= usage[k]
<1>1. k \in Key /\ k[2] \in Int /\ usage[k] \in Int
  BY UsageDataAssumption
  DEF WindowKeys, Key, Second, Bytes, Book, IInv, TypeOK
<1>2. CASE UNCHANGED usage
  BY <1>1, <1>2
<1>3. ASSUME NEW q \in Prefix, NEW amount \in Amount, Record(q, amount)
      PROVE  usage'[k] >= usage[k]
  <2>1. usage' = [usage EXCEPT ![<<q, CurrentSecond>>] =
                    SaturatingAdd(usage[<<q, CurrentSecond>>], amount)]
    BY <1>3 DEF Record
  <2>2. \A u \in Bytes : SaturatingAdd(u, amount) >= u
    BY UsageDataAssumption, UsageStoreAssumption DEF SaturatingAdd, Bytes
  <2> QED
    BY <1>1, <2>1, <2>2 DEF IInv, TypeOK, Book
<1>4. CASE PruneTick \/ StopReceived
  <2>1. lastNow' = CurrentSecond /\ usage' = Prune(usage, CurrentSecond)
    BY <1>4 DEF PruneTick, StopReceived, PruneMemory
  <2>2. lastNow' \in Int /\ d \in 1 .. Retention
    BY <2>1, CurrentSecondType, UsageStoreAssumption, UsageDataAssumption
    DEF IInv, Second
  <2>3. k[2] > lastNow' - d
    BY DEF WindowKeys
  <2>4. k \notin ExpiredKeys(CurrentSecond)
    BY <1>1, <2>1, <2>2, <2>3, UsageDataAssumption DEF ExpiredKeys
  <2> QED
    BY <1>1, <2>1, <2>4 DEF Prune
<1>5. ~Open /\ ~OpenFails
  BY DEF Open, OpenFails
<1>6. UNCHANGED usage \/ PruneTick \/ StopReceived
      \/ \E q \in Prefix, amount \in Amount : Record(q, amount)
  BY <1>5 DEF Next, Run, SetClock, Check, FlushSnapshot, FlushReturnsEarly,
     UpdateCommits, UpdateFails, FlushCleanup, CloseBegins, CloseEnds, vars,
     memory
<1> QED
  BY <1>2, <1>3, <1>4, <1>6

(* Pruning and flushing are invisible to every configured window: while a  *)
(* manager lives, usage leaves a window only because time passes.          *)
THEOREM WindowsKeepUsage == Spec => UsageStaysInWindow
<1>1. IInv /\ [Next]_vars =>
        [(Alive /\ ~Started /\ ~Crash) =>
           \A p \in Prefix, d \in Window :
             \A k \in WindowKeys(p, lastNow', d) : usage'[k] >= usage[k]]_vars
  BY StaysInWindowStep
<1> QED
  BY <1>1, Invariance, PTL DEF Spec, UsageStaysInWindow

(* What a window of a prefix reads after a load: the future of the file is *)
(* in the second of the start, the rest of the window is as it was.        *)
PastKeys(p, now, d) == {k \in Key : k[1] = p /\ k[2] > now - d /\ k[2] < now}
FromNow(p, now)     == {k \in Key : k[1] = p /\ k[2] >= now}

LEMMA WindowSplits ==
  ASSUME NEW p \in Prefix, NEW now \in Second, NEW d \in 1 .. Retention
  PROVE  /\ WindowKeys(p, now, d) = PastKeys(p, now, d) \cup FromNow(p, now)
         /\ PastKeys(p, now, d) \cap FromNow(p, now) = {}
         /\ IsFiniteSet(PastKeys(p, now, d)) /\ IsFiniteSet(FromNow(p, now))
         /\ <<p, now>> \in FromNow(p, now)
<1>0. LastSecond \in Nat /\ Retention \in Nat \ {0} /\ now \in 0 .. LastSecond
  BY UsageDataAssumption DEF Second
<1>1. \A k \in Key : k[2] \in 0 .. LastSecond /\ k = <<k[1], k[2]>>
  BY DEF Key, Second
<1>2. /\ WindowKeys(p, now, d) = PastKeys(p, now, d) \cup FromNow(p, now)
      /\ PastKeys(p, now, d) \cap FromNow(p, now) = {}
  BY <1>0, <1>1 DEF WindowKeys, PastKeys, FromNow
<1>3. <<p, now>> \in FromNow(p, now)
  BY <1>0 DEF Key, Second, FromNow
<1>4. PICK all : all = {k \in Key : k[1] = p}
  OBVIOUS
<1>5. IsFiniteSet(all)
  <2>1. IsFiniteSet({p}) /\ IsFiniteSet(0 .. LastSecond)
    <3>1. 0 \in Int /\ LastSecond \in Int
      BY <1>0
    <3> QED BY <3>1, FS_Singleton, FS_Interval
  <2>2. IsFiniteSet({p} \X (0 .. LastSecond))
    BY <2>1, FS_Product
  <2>3. all \subseteq {p} \X (0 .. LastSecond)
    BY <1>4 DEF Key, Second
  <2> QED BY <2>2, <2>3, FS_Subset
<1>6. PastKeys(p, now, d) \subseteq all /\ FromNow(p, now) \subseteq all
  BY <1>4 DEF PastKeys, FromNow
<1> QED BY <1>2, <1>3, <1>5, <1>6, FS_Subset

LEMMA LoadedWindow ==
  ASSUME NEW book \in Book, NEW p \in Prefix, NEW now \in Second,
         NEW d \in 1 .. Retention
  PROVE  SaturatingTotal(Load(book, now), WindowKeys(p, now, d))
           >= SaturatingTotal(book, WindowKeys(p, now, d))
<1>0. /\ LastSecond \in Nat /\ Retention \in Nat \ {0} /\ MaxBytes \in Nat \ {0}
      /\ now \in 0 .. LastSecond
  BY UsageDataAssumption DEF Second
<1>1. PICK past, future, here :
        past = PastKeys(p, now, d) /\ future = FromNow(p, now) /\ here = <<p, now>>
  OBVIOUS
<1>2. PICK window : window = WindowKeys(p, now, d)
  OBVIOUS
<1>3. /\ window = past \cup future /\ past \cap future = {}
      /\ IsFiniteSet(past) /\ IsFiniteSet(future) /\ here \in future
  BY <1>1, <1>2, WindowSplits
<1>4. PICK loaded \in Book : loaded = Load(book, now)
  BY LoadType
<1>5. \A k \in Key : /\ book[k] \in Nat /\ book[k] <= MaxBytes
                     /\ loaded[k] \in Nat /\ loaded[k] <= MaxBytes
                     /\ k[2] \in Int
  BY <1>0 DEF Book, Bytes, Key, Second
<1>6. past \subseteq Key /\ future \subseteq Key
  BY <1>1 DEF PastKeys, FromNow
<1>7. PICK x \in Nat, y \in Nat :
        /\ x = SumFunctionOnSet(book, past) /\ y = SumFunctionOnSet(book, future)
  BY <1>3, <1>5, <1>6, SumNat
<1>8. SumFunctionOnSet(book, window) = x + y
  BY <1>3, <1>5, <1>6, <1>7, SumUnion
<1>9. SumFunctionOnSet(loaded, past) = x
  <2>1. ASSUME NEW k \in past PROVE loaded[k] = book[k]
    <3>1. k \in Key /\ k \notin ExpiredKeys(now) /\ ~(k[2] > now) /\ k[2] # now
      BY <1>0, <1>1, <1>5 DEF ExpiredKeys, PastKeys
    <3> QED BY <1>4, <3>1 DEF Load, ClampedKeys
  <2> QED BY <1>3, <1>5, <1>6, <1>7, <2>1, SumSame
<1>10. SumFunctionOnSet(loaded, future) = loaded[here]
  <2>1. ASSUME NEW k \in future \ {here} PROVE loaded[k] = 0
    <3>1. k \in Key /\ k[2] > now
      BY <1>0, <1>1, <1>5 DEF Key, FromNow
    <3> QED BY <1>4, <3>1 DEF Load
  <2>2. IsFiniteSet(future \ {here})
    BY <1>3, FS_RemoveElement
  <2>3. SumFunctionOnSet(loaded, future \ {here}) = 0
    BY <2>1, <2>2, SumZero
  <2>4. SumFunctionOnSet(loaded, future)
          = loaded[here] + SumFunctionOnSet(loaded, future \ {here})
    BY <1>3, <1>5, <1>6, SumRemove
  <2> QED BY <1>3, <1>5, <1>6, <2>3, <2>4
<1>11. SumFunctionOnSet(loaded, window) = x + loaded[here]
  BY <1>3, <1>5, <1>6, <1>9, <1>10, SumUnion
<1>12. loaded[here] = IF y \in Bytes THEN y ELSE MaxBytes
  <2>0. here \in Key /\ here[1] = p /\ here[2] = now
    BY <1>1, <1>3, <1>6
  <2>1. here \notin ExpiredKeys(now) /\ ~(here[2] > now)
    BY <1>0, <2>0 DEF ExpiredKeys
  <2>2. CASE here \in ClampedKeys(book, now)
    <3>1. loaded[here] = SaturatingTotal(book, {f \in Key : f[1] = p /\ f[2] >= now})
      BY <1>4, <2>0, <2>1, <2>2 DEF Load
    <3> QED BY <1>1, <1>7, <3>1 DEF SaturatingTotal, FromNow
  <2>3. CASE here \notin ClampedKeys(book, now)
    <3>1. loaded[here] = book[here]
      BY <1>4, <2>0, <2>1, <2>3 DEF Load
    <3>2. ASSUME NEW k \in future \ {here} PROVE book[k] = 0
      <4>1. k \in Key /\ k[2] > now /\ k[1] = p
        BY <1>0, <1>1, <1>5 DEF Key, FromNow
      <4> QED BY <2>0, <2>3, <4>1 DEF ClampedKeys, FutureKeys
    <3>3. SumFunctionOnSet(book, future \ {here}) = 0
      BY <1>3, <3>2, FS_RemoveElement, SumZero
    <3>4. y = book[here] + SumFunctionOnSet(book, future \ {here})
      BY <1>3, <1>5, <1>6, <1>7, SumRemove
    <3>5. y = book[here] /\ y \in Bytes
      BY <1>0, <1>5, <2>0, <3>3, <3>4 DEF Bytes
    <3> QED BY <3>1, <3>5
  <2> QED BY <2>2, <2>3
<1>13. \A b \in {book, loaded} :
         SaturatingTotal(b, window) =
           IF SumFunctionOnSet(b, window) \in Bytes
           THEN SumFunctionOnSet(b, window) ELSE MaxBytes
  BY DEF SaturatingTotal
<1>14. SaturatingTotal(loaded, window) >= SaturatingTotal(book, window)
  BY <1>0, <1>7, <1>8, <1>11, <1>12, <1>13 DEF Bytes
<1> QED BY <1>2, <1>4, <1>14

(* Whatever the last flush wrote is held against the clients again after   *)
(* the manager was closed and opened, for every book, window and clock,    *)
(* one that was set back in between too: load adds usage of a future       *)
(* second to the second of the start.                                      *)
THEOREM RestartsForgiveNothing == Spec => RestartForgivesNothing
<1>1. ASSUME IInv, persistent, NothingToFlush, Open,
             NEW p \in Prefix, NEW d \in Window
      PROVE  SaturatingTotal(usage', WindowKeys(p, lastNow', d))
               >= SaturatingTotal(usage, WindowKeys(p, lastNow', d))
  <2>1. disk \in Book /\ usage \in Book /\ clock \in Second /\ d \in 1 .. Retention
    BY <1>1, UsageStoreAssumption DEF IInv, TypeOK
  <2>2. Overlay(disk, dirty, deletions) = usage
    BY <1>1 DEF IInv, MemoryMatchesDisk
  <2>3. Overlay(disk, dirty, deletions) = disk
    BY <1>1, <2>1 DEF NothingToFlush, NothingDirty, Overlay, Book
  <2>4. usage' = Load(usage, clock) /\ lastNow' = clock
    BY <1>1, <2>2, <2>3 DEF Open, Started
  <2> QED BY <2>1, <2>4, LoadedWindow
<1>2. IInv /\ [Next]_vars =>
        [(status = "closed" /\ persistent /\ NothingToFlush /\ Open) =>
           \A p \in Prefix, d \in Window :
             SaturatingTotal(usage', WindowKeys(p, lastNow', d)) >=
               SaturatingTotal(usage, WindowKeys(p, lastNow', d))]_vars
  BY <1>1
<1> QED
  BY <1>2, Invariance, PTL DEF Spec, RestartForgivesNothing
-----------------------------------------------------------------------------
LEMMA LedgerInitially == Init => Ledger!LedgerInit
BY DEF Init, Ledger!LedgerInit, CopyUnderWay, LedgerMode

(* The step that carries the refinement: because memory matches disk, the  *)
(* differences in the snapshot amount to a copy of the whole memory.       *)
LEMMA SnapshotIsCopy ==
  ASSUME IInv, FlushSnapshot
  PROVE  Ledger!TakeCopy
<1>1. CopyUnderWay = NoCopy /\ CopyUnderWay' = usage
  BY DEF FlushSnapshot, CopyUnderWay, IInv, MemoryMatchesDisk, Overlay
<1>2. LedgerMode = "durable"
  BY DEF FlushSnapshot, LedgerMode, IInv, NoManagerNoRunner
<1>3. UNCHANGED <<usage, disk, LedgerMode>>
  BY DEF FlushSnapshot, LedgerMode, memory
<1> QED
  BY <1>1, <1>2, <1>3 DEF Ledger!TakeCopy

LEMMA CommitPersistsCopy ==
  ASSUME IInv, UpdateCommits
  PROVE  Ledger!Persist
<1>1. CopyUnderWay = Overlay(disk, snapDirty, snapDeletions)
      /\ CopyUnderWay # NoCopy
  BY OverlayType, UsageStoreAssumption
  DEF UpdateCommits, CopyUnderWay, IInv, TypeOK
<1>2. disk' = CopyUnderWay /\ CopyUnderWay' = NoCopy
  BY <1>1 DEF UpdateCommits, CopyUnderWay
<1>3. UNCHANGED <<usage, LedgerMode>>
  BY DEF UpdateCommits, LedgerMode, memory
<1> QED
  BY <1>1, <1>2, <1>3 DEF Ledger!Persist

LEMMA FailureAbandonsCopy ==
  ASSUME IInv, UpdateFails
  PROVE  Ledger!Abandon
<1>1. CopyUnderWay # NoCopy
  BY OverlayType, UsageStoreAssumption
  DEF UpdateFails, CopyUnderWay, IInv, TypeOK
<1>2. CopyUnderWay' = NoCopy
  BY DEF UpdateFails, CopyUnderWay, AfterFlush
<1>3. UNCHANGED <<usage, disk, LedgerMode>>
  BY DEF UpdateFails, LedgerMode, memory
<1> QED
  BY <1>1, <1>2, <1>3 DEF Ledger!Abandon

LEMMA RecordServes ==
  ASSUME IInv, NEW p \in Prefix, NEW amount \in Amount, Record(p, amount)
  PROVE  \E k \in Key, a \in Bytes \ {0} : Ledger!Serve(k, a)
<1> DEFINE k == <<p, CurrentSecond>>
<1>1. k \in Key /\ amount \in Bytes \ {0}
  BY CurrentSecondType, UsageStoreAssumption DEF IInv, Key, Record
<1>2. usage' = [usage EXCEPT ![k] = SaturatingAdd(usage[k], amount)]
  BY DEF Record
<1>3. LedgerMode # "down"
  BY DEF Record, LedgerMode, Alive
<1>4. UNCHANGED <<disk, CopyUnderWay, LedgerMode>>
  BY DEF Record, CopyUnderWay, LedgerMode, Overlay, flushing
<1>5. Ledger!Serve(k, amount)
  BY <1>2, <1>3, <1>4 DEF Ledger!Serve
<1> QED
  BY <1>1, <1>5

LEMMA PruneExpires ==
  ASSUME IInv, PruneTick \/ StopReceived
  PROVE  \E now \in Second : Ledger!Expire(now)
<1>1. CurrentSecond \in Second /\ usage' = Prune(usage, CurrentSecond)
  BY CurrentSecondType DEF IInv, PruneTick, StopReceived, PruneMemory
<1>2. LedgerMode # "down" /\ CopyUnderWay = NoCopy /\ CopyUnderWay' = NoCopy
  BY DEF IInv, NoManagerNoRunner, PruneTick, StopReceived, LedgerMode,
     CopyUnderWay
<1>3. UNCHANGED <<disk, LedgerMode>>
  BY DEF PruneTick, StopReceived, LedgerMode
<1> QED
  BY <1>1, <1>2, <1>3 DEF Ledger!Expire

LEMMA OpenRecovers ==
  ASSUME IInv, Open
  PROVE  \E now \in Second : Ledger!Recover(now)
<1>1. clock \in Second /\ usage' = Load(disk, clock) /\ disk' = disk
  BY DEF Open, Started, IInv, TypeOK
<1>2. /\ LedgerMode \in {"closed", "down"} /\ LedgerMode' = "durable"
      /\ CopyUnderWay = NoCopy /\ CopyUnderWay' = NoCopy
  BY DEF IInv, NoManagerNoRunner, Open, Started, LedgerMode, CopyUnderWay
<1> QED
  BY <1>1, <1>2 DEF Ledger!Recover

LEMMA LedgerStep ==
  ASSUME IInv, [Next]_vars
  PROVE  [Ledger!LedgerNext]_Ledger!ledgerVars
<1>1. CASE SetClock \/ Check \/ FlushReturnsEarly \/ FlushCleanup
           \/ CloseBegins \/ UNCHANGED vars
  <2>1. UNCHANGED <<usage, disk, CopyUnderWay, LedgerMode>>
    BY <1>1 DEF SetClock, Check, FlushReturnsEarly, FlushCleanup, CloseBegins,
       AfterFlush, vars, memory, flushing, CopyUnderWay, LedgerMode, Overlay
  <2> QED
    BY <2>1 DEF Ledger!ledgerVars
<1>2. CASE Crash
  BY <1>2 DEF Crash, CopyUnderWay, LedgerMode, Ledger!Lose, Ledger!LedgerNext
<1>3. CASE Open
  BY <1>3, OpenRecovers DEF Ledger!LedgerNext
<1>4. CASE OpenFails
  BY <1>4 DEF OpenFails, Started, IInv, NoManagerNoRunner, CopyUnderWay,
     LedgerMode, Ledger!FailOpen, Ledger!LedgerNext
<1>5. CASE \E p \in Prefix, amount \in Amount : Record(p, amount)
  BY <1>5, RecordServes DEF Ledger!LedgerNext
<1>6. CASE PruneTick \/ StopReceived
  BY <1>6, PruneExpires DEF Ledger!LedgerNext
<1>7. CASE FlushSnapshot
  BY <1>7, SnapshotIsCopy DEF Ledger!LedgerNext
<1>8. CASE UpdateCommits
  BY <1>8, CommitPersistsCopy DEF Ledger!LedgerNext
<1>9. CASE UpdateFails
  BY <1>9, FailureAbandonsCopy DEF Ledger!LedgerNext
<1>10. CASE CloseEnds
  BY <1>10 DEF CloseEnds, CopyUnderWay, LedgerMode, memory,
     Ledger!Close, Ledger!LedgerNext
<1> QED
  BY <1>1, <1>2, <1>3, <1>4, <1>5, <1>6, <1>7, <1>8, <1>9, <1>10
  DEF Next, Run

(* The store implements the ledger of UsageLedger: every commit replaces   *)
(* the file by a copy of the memory as it was at one instant, and a crash  *)
(* or restart goes back to exactly that copy.                              *)
THEOREM StoreImplementsLedger == Spec => ImplementsLedger
<1>1. Init => Ledger!LedgerInit
  BY LedgerInitially
<1>2. IInv /\ [Next]_vars => [Ledger!LedgerNext]_Ledger!ledgerVars
  BY LedgerStep
<1> QED
  BY <1>1, <1>2, Invariance, PTL DEF Spec, ImplementsLedger, Ledger!LedgerSpec
=============================================================================
