----------------------------- MODULE UsageStore -----------------------------
(***************************************************************************)
(* usageManager (bandwidthquota_usage.go): the in-memory usage of every    *)
(* client prefix, the dirty and deletions maps that say how the bbolt file *)
(* differs from it, and the one goroutine that flushes and prunes.         *)
(*                                                                         *)
(* Requests call Record and Check under m.mu; the goroutine holds m.mu for *)
(* the snapshot and for the cleanup of a flush but not while the database  *)
(* transaction runs, so records interleave with it.  The process can crash *)
(* at any point; a later process opens the same file.                      *)
(***************************************************************************)
EXTENDS UsageData

CONSTANTS
  Window,  (* the configured window durations, in seconds                   *)
  Amount,  (* the numbers of bytes a request may record at once             *)
  Clean,   (* "the key is not in the dirty map"                             *)
  NoCopy   (* used by the ledger: no copy is being made durable             *)

VARIABLES
  clock,         (* the wall clock of the host, in seconds                  *)
  status,        (* "down", "open", "stopping" (m.stop closed) or "closed"  *)
  persistent,    (* m.db # nil                                              *)
  lastNow,       (* m.lastNow                                               *)
  usage,         (* m.usage                                                 *)
  dirty,         (* m.dirty                                                 *)
  deletions,     (* m.deletions                                             *)
  disk,          (* the committed contents of the bbolt bucket              *)
  runner,        (* where run() is                                          *)
  drained,       (* run() is in the pass it makes before it returns         *)
  snapDirty,     (* flush's local copies of dirty ...                       *)
  snapDeletions, (* ... and of deletions                                    *)
  lastFlush,     (* history: how the last transaction ended                 *)
  touched        (* history: keys recorded since the last snapshot          *)

ASSUME UsageStoreAssumption ==
  /\ Window \subseteq 1 .. Retention    (* Validate; minimumRetention floor *)
  /\ Amount \subseteq Bytes
  /\ Clean \notin Bytes
  /\ NoCopy \notin Book

memory   == <<usage, dirty, deletions>>
flushing == <<snapDirty, snapDeletions>>
history  == <<lastFlush, touched>>
vars == <<clock, status, persistent, lastNow, memory, disk, runner, drained,
          flushing, history>>

NothingDirty  == [k \in Key |-> Clean]
DirtyKeys     == {k \in Key : dirty[k] # Clean}

(* What a bucket holds after flush's transaction: deletes, then puts. *)
Overlay(book, puts, deletes) ==
  [k \in Key |-> IF puts[k] # Clean THEN puts[k]
                 ELSE IF k \in deletes THEN 0 ELSE book[k]]

(* currentSecondLocked: the wall clock, never letting time run back. *)
CurrentSecond == IF clock < lastNow THEN lastNow ELSE clock

Alive == status # "down"

Init ==
  /\ clock \in Second
  /\ status = "down" /\ persistent = FALSE /\ lastNow = 0
  /\ usage = EmptyBook /\ dirty = NothingDirty /\ deletions = {}
  /\ disk = EmptyBook
  /\ runner = "exited" /\ drained = FALSE
  /\ snapDirty = NothingDirty /\ snapDeletions = {}
  /\ lastFlush = "none" /\ touched = {}
-----------------------------------------------------------------------------
(* The host. *)

(* The clock runs, or is stepped in either direction. *)
SetClock ==
  /\ clock' \in Second \ {clock}
  /\ UNCHANGED <<status, persistent, lastNow, memory, disk, runner, drained,
                 flushing, history>>

(* Memory goes; a transaction that has not committed leaves no trace. *)
Crash ==
  /\ Alive
  /\ status' = "down" /\ persistent' = FALSE /\ lastNow' = 0
  /\ usage' = EmptyBook /\ dirty' = NothingDirty /\ deletions' = {}
  /\ runner' = "exited" /\ drained' = FALSE
  /\ snapDirty' = NothingDirty /\ snapDeletions' = {}
  /\ lastFlush' = "none" /\ touched' = {}
  /\ UNCHANGED <<clock, disk>>
-----------------------------------------------------------------------------
(* newUsageManager. *)

Started ==
  /\ status \in {"down", "closed"}
  /\ status' = "open" /\ lastNow' = clock
  /\ runner' = "select" /\ drained' = FALSE
  /\ snapDirty' = NothingDirty /\ snapDeletions' = {}
  /\ lastFlush' = "none" /\ touched' = {}
  /\ UNCHANGED <<clock, disk>>

(* open and load succeed. *)
Open ==
  /\ Started
  /\ persistent' = TRUE
  /\ usage' = Load(disk, clock)
  /\ dirty' = [k \in Key |-> IF k \in ClampedKeys(disk, clock)
                             THEN usage'[k] ELSE Clean]
  /\ deletions' = {k \in ExpiredKeys(clock) : disk[k] # 0}
                    \cup FutureKeys(disk, clock)

(* open or load fails: "using fresh in-memory state". *)
OpenFails ==
  /\ Started
  /\ persistent' = FALSE
  /\ usage' = EmptyBook /\ dirty' = NothingDirty /\ deletions' = {}
-----------------------------------------------------------------------------
(* Requests.  One that was in flight when the manager was closed still     *)
(* holds it and records into it.                                           *)

Record(p, amount) ==
  LET k     == <<p, CurrentSecond>>
      total == SaturatingAdd(usage[k], amount)
  IN  /\ Alive
      /\ amount # 0
      /\ lastNow' = CurrentSecond
      /\ usage' = [usage EXCEPT ![k] = total]
      /\ dirty' = [dirty EXCEPT ![k] = total]
      /\ deletions' = deletions \ {k}
      /\ touched' = touched \cup {k}
      /\ UNCHANGED <<clock, status, persistent, disk, runner, drained,
                     flushing, lastFlush>>

(* A check reads usage; all it changes is m.lastNow. *)
Check ==
  /\ Alive
  /\ lastNow' = CurrentSecond
  /\ UNCHANGED <<clock, status, persistent, memory, disk, runner, drained,
                 flushing, history>>
-----------------------------------------------------------------------------
(* The goroutine run(). *)

PruneMemory ==
  LET removed == {k \in ExpiredKeys(CurrentSecond) : usage[k] # 0}
  IN  /\ lastNow' = CurrentSecond
      /\ usage' = Prune(usage, CurrentSecond)
      /\ dirty' = [k \in Key |-> IF k \in removed THEN Clean ELSE dirty[k]]
      /\ deletions' = deletions \cup removed

PruneTick ==
  /\ runner = "select"
  /\ PruneMemory
  /\ UNCHANGED <<clock, status, persistent, disk, runner, drained, flushing,
                 history>>

(* Variant: the goroutine does not return after the last flush. *)
StopReceivedKeepsLooping ==
  /\ runner = "select" /\ status = "stopping"
  /\ PruneMemory
  /\ runner' = "drain"
  /\ UNCHANGED <<clock, status, persistent, disk, drained, flushing, history>>

(* case <-m.stop: prune, then the last flush. *)
StopReceived ==
  /\ runner = "select" /\ status = "stopping"
  /\ PruneMemory
  /\ runner' = "drain" /\ drained' = TRUE
  /\ UNCHANGED <<clock, status, persistent, disk, flushing, history>>

NothingToFlush == dirty = NothingDirty /\ deletions = {}

AfterFlush == IF drained THEN "exited" ELSE "select"

FlushSnapshot ==
  /\ runner \in {"select", "drain"}
  /\ persistent
  /\ ~NothingToFlush
  /\ snapDirty' = dirty /\ snapDeletions' = deletions
  /\ runner' = "update"
  /\ touched' = {}
  /\ UNCHANGED <<clock, status, persistent, lastNow, memory, disk, drained,
                 lastFlush>>

(* The last flush has no database or nothing to write. *)
FlushReturnsEarly ==
  /\ runner = "drain"
  /\ ~persistent \/ NothingToFlush
  /\ runner' = "exited"
  /\ UNCHANGED <<clock, status, persistent, lastNow, memory, disk, drained,
                 flushing, history>>

UpdateCommits ==
  /\ runner = "update"
  /\ disk' = Overlay(disk, snapDirty, snapDeletions)
  /\ runner' = "cleanup"
  /\ lastFlush' = "committed"
  /\ UNCHANGED <<clock, status, persistent, lastNow, memory, drained, flushing,
                 touched>>

(* Variant: the error is ignored and the maps are cleaned up. *)
UpdateFailsUnnoticed ==
  /\ runner = "update"
  /\ runner' = "cleanup"
  /\ lastFlush' = "failed"
  /\ UNCHANGED <<clock, status, persistent, lastNow, memory, disk, drained,
                 flushing, touched>>

(* db.Update returns an error: it is logged and the maps keep everything. *)
UpdateFails ==
  /\ runner = "update"
  /\ runner' = AfterFlush
  /\ lastFlush' = "failed"
  /\ snapDirty' = NothingDirty /\ snapDeletions' = {}
  /\ UNCHANGED <<clock, status, persistent, lastNow, memory, disk, drained,
                 touched>>

(* Variant: every written key is dropped, whatever it holds by now. *)
FlushCleanupBlind ==
  /\ runner = "cleanup"
  /\ dirty' = [k \in Key |-> IF snapDirty[k] # Clean THEN Clean ELSE dirty[k]]
  /\ deletions' = deletions \ snapDeletions
  /\ runner' = AfterFlush
  /\ snapDirty' = NothingDirty /\ snapDeletions' = {}
  /\ UNCHANGED <<clock, status, persistent, lastNow, usage, disk, drained,
                 history>>

(* Variant: only the deletions are cleaned up. *)
FlushCleanupKeepsDirty ==
  /\ runner = "cleanup"
  /\ deletions' = deletions \ snapDeletions
  /\ runner' = AfterFlush
  /\ snapDirty' = NothingDirty /\ snapDeletions' = {}
  /\ UNCHANGED <<clock, status, persistent, lastNow, usage, dirty, disk,
                 drained, history>>

(* Entries that still hold the value just written are written. *)
FlushCleanup ==
  /\ runner = "cleanup"
  /\ dirty' = [k \in Key |-> IF snapDirty[k] # Clean /\ dirty[k] = snapDirty[k]
                             THEN Clean ELSE dirty[k]]
  /\ deletions' = deletions \ snapDeletions
  /\ runner' = AfterFlush
  /\ snapDirty' = NothingDirty /\ snapDeletions' = {}
  /\ UNCHANGED <<clock, status, persistent, lastNow, usage, disk, drained,
                 history>>
-----------------------------------------------------------------------------
(* close(): signal the goroutine, wait for it, close the database. *)

CloseBegins ==
  /\ status = "open"
  /\ status' = "stopping"
  /\ UNCHANGED <<clock, persistent, lastNow, memory, disk, runner, drained,
                 flushing, history>>

CloseEnds ==
  /\ status = "stopping" /\ runner = "exited"
  /\ status' = "closed"
  /\ UNCHANGED <<clock, persistent, lastNow, memory, disk, runner, drained,
                 flushing, history>>

Run == PruneTick \/ StopReceived \/ FlushSnapshot \/ FlushReturnsEarly
         \/ UpdateCommits \/ UpdateFails \/ FlushCleanup

Next ==
  \/ SetClock \/ Crash
  \/ Open \/ OpenFails
  \/ \E p \in Prefix, amount \in Amount : Record(p, amount)
  \/ Check
  \/ Run
  \/ CloseBegins \/ CloseEnds

Spec == Init /\ [][Next]_vars

(* The flush ticker keeps firing, a transaction that is begun ends, select *)
(* does not pass over a ready stop channel for ever (its choice is random), *)
(* and the file cannot be unwritable for ever.                             *)
Fairness ==
  /\ WF_vars(FlushSnapshot)
  /\ WF_vars(UpdateCommits \/ UpdateFails)
  /\ SF_vars(UpdateCommits)
  /\ WF_vars(FlushCleanup)
  /\ SF_vars(StopReceived)
  /\ WF_vars(FlushReturnsEarly)
  /\ WF_vars(CloseEnds)

FairSpec == Spec /\ Fairness
-----------------------------------------------------------------------------
(* Every variable stays in its range; the wall clock is never behind 0 and *)
(* the run goroutine is in one of the states of its select loop.           *)
TypeOK ==
  /\ clock \in Second /\ lastNow \in Second
  /\ status \in {"down", "open", "stopping", "closed"}
  /\ persistent \in BOOLEAN /\ drained \in BOOLEAN
  /\ usage \in Book /\ disk \in Book
  /\ dirty \in [Key -> Bytes \cup {Clean}]
  /\ snapDirty \in [Key -> Bytes \cup {Clean}]
  /\ deletions \in SUBSET Key /\ snapDeletions \in SUBSET Key
  /\ runner \in {"select", "drain", "update", "cleanup", "exited"}
  /\ lastFlush \in {"none", "committed", "failed"}
  /\ touched \in SUBSET Key

(* The flush design in one line: at every instant, even while a flush is   *)
(* writing and requests record into the same keys, the file together with  *)
(* the pending changes is exactly what is in memory.  The cleanup of flush *)
(* (drop an entry only if it still holds the written value, drop a         *)
(* deletion only if it is still wanted) is right iff this survives it.     *)
MemoryMatchesDisk ==
  persistent => Overlay(disk, dirty, deletions) = usage

(* A key is never at once to be put and to be deleted, in the maps or in   *)
(* a flush's copy of them: flush applies deletions first, and a map entry  *)
(* in both would make the outcome depend on that order.                    *)
PutOrDelete ==
  /\ \A k \in deletions : dirty[k] = Clean
  /\ \A k \in snapDeletions : snapDirty[k] = Clean

(* A committed flush leaves nothing behind: what is still dirty after its  *)
(* cleanup was recorded after its snapshot.  After a clean close this says *)
(* that only the records of requests that outlived the last flush are      *)
(* lost.                                                                   *)
FlushLeavesOnlyLateRecords ==
  (persistent /\ lastFlush = "committed" /\ runner \notin {"update", "cleanup"})
    => DirtyKeys \subseteq touched

(* While a manager lives, no step takes usage out of a window other than   *)
(* the passing of time: pruning reaches only what no configured window can *)
(* count, and flushing changes nothing a check can see.                    *)
UsageStaysInWindow ==
  [][(Alive /\ ~Started /\ ~Crash) =>
       \A p \in Prefix, d \in Window :
         \A k \in WindowKeys(p, lastNow', d) : usage'[k] >= usage[k]]_vars

(* Closing and opening again forgives no usage that the last flush wrote,  *)
(* even if the wall clock was set back in between: usage of a future       *)
(* second is moved to the second of the start, not dropped.                *)
RestartForgivesNothing ==
  [][(status = "closed" /\ persistent /\ NothingToFlush /\ Open) =>
       \A p \in Prefix, d \in Window :
         SaturatingTotal(usage', WindowKeys(p, lastNow', d)) >=
           SaturatingTotal(usage, WindowKeys(p, lastNow', d))]_vars

(* Whatever is dirty reaches the file, however often requests record and   *)
(* transactions fail, unless the manager goes or the entry is pruned.      *)
DirtyReachesDisk ==
  \A k \in Key, b \in Bytes :
    (status = "open" /\ persistent /\ dirty[k] = b)
      ~> (disk[k] >= b \/ status # "open" \/ usage[k] = 0)

(* A close ends: the goroutine takes the stop signal and returns.          *)
CloseTerminates == (status = "stopping") ~> (status \in {"closed", "down"})

(* What flush is about to commit, seen as a whole book. *)
CopyUnderWay == IF runner = "update"
                THEN Overlay(disk, snapDirty, snapDeletions) ELSE NoCopy

LedgerMode == IF status \in {"down", "closed"} THEN status
              ELSE IF persistent THEN "durable" ELSE "volatile"

(* The store implements the ledger: although it writes differences, each   *)
(* commit makes the file equal to the whole memory of one moment.          *)
Ledger == INSTANCE UsageLedger WITH
  live <- usage, durable <- disk, copy <- CopyUnderWay, mode <- LedgerMode

ImplementsLedger == Ledger!LedgerSpec
=============================================================================
