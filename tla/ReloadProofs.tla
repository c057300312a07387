---------------------------- MODULE ReloadProofs ----------------------------
(***************************************************************************)
(* What Reload.cfg shows of two edits, for any number of edits, rule files *)
(* and contents: that neither the lists nor the rules are left behind      *)
(* their files, and that Shutdown leaves no watcher behind.                *)
(***************************************************************************)
EXTENDS Reload, DataLemmas

Places == {"new", "unwatched", "idle", "read", "swap", "lock", "load", "stopped"}

ReloadTypeOK ==
  /\ pc \in [Path -> Places]
  /\ pending \in [Path -> Nat]
  /\ DOMAIN disk = Path /\ DOMAIN active = List /\ DOMAIN target = Path
  /\ DOMAIN built = Path /\ missed \in [Path -> BOOLEAN]
  /\ overtaken \in [Path -> BOOLEAN] /\ late \in [List -> BOOLEAN]
  /\ skipped \in BOOLEAN

(* A watcher loads lists of its own reload only. *)
TargetInv ==
  \A w \in Path : pc[w] \in {"read", "swap"} =>
    \/ w \in Blacklist /\ target[w] \in Blacklist
    \/ w = "white" /\ target[w] = "white"

(* Shutdown returns when every watcher has stopped. *)
StoppedInv ==
  shutdown = "done" => \A w \in Path : pc[w] \in {"stopped", "unwatched"}

(* A watcher will read the file of a list again. *)
Reads(w, l) ==
  \/ pc[w] = "read" /\ target[w] = l
  \/ pc[w] \in {"read", "swap"} /\ target[w] = "ip" /\ l = "dns"

(* A watcher will put what it has read into force. *)
Swaps(w, l) == pc[w] = "swap" /\ target[w] = l

Considered(l) ==
  /\ shutdown = "no" /\ ~missed[l] /\ Loads(l, disk[l])
  /\ l = "dns" => ~skipped

OnItsWay(l) ==
  \/ pending[l] > 0
  \/ \E w \in Path : Reads(w, l)
  \/ \E w \in Path : Swaps(w, l) /\ built[w] = Entries(disk[l])

InForce(l) ==
  /\ late[l] \/ active[l] = Entries(disk[l])
  /\ \A w \in Path : Swaps(w, l) => overtaken[w] \/ built[w] = Entries(disk[l])

(* The last version of a list file is in force or on its way, or what is   *)
(* in force is late; and nothing that was read before is put into force    *)
(* after it but by watchers that have been overtaken.                      *)
ListInv(l) == Considered(l) => OnItsWay(l) \/ InForce(l)

WatcherInv == ReloadTypeOK /\ TargetInv /\ StoppedInv

IInv == WatcherInv /\ \A l \in List : ListInv(l)
-----------------------------------------------------------------------------
LEMMA ListPaths ==
  /\ List = {"ip", "dns", "white"} /\ List \subseteq Path
  /\ Blacklist \subseteq List /\ RuleFile \subseteq Path
  /\ \A w \in RuleFile : w \notin List
BY ReloadAssumption DEF List, Blacklist, Path

LEMMA InitIInv == Init => IInv
<1> SUFFICES ASSUME Init PROVE IInv
  OBVIOUS
<1>1. /\ pc = [w \in Path |-> "new"] /\ disk \in FirstDisk /\ shutdown = "no"
      /\ active = [l \in List |-> Entries(disk[l])]
  BY DEF Init
<1>2. ReloadTypeOK
  BY ReloadAssumption DEF Init, ReloadTypeOK, Places
<1>3. \A w \in Path : pc[w] = "new"
  BY <1>1
<1>4. TargetInv /\ StoppedInv
  BY <1>1, <1>3 DEF TargetInv, StoppedInv
<1>6. \A l \in List : ListInv(l)
  BY <1>1, <1>3 DEF ListInv, InForce, Swaps
<1> QED BY <1>2, <1>4, <1>6 DEF IInv, WatcherInv
-----------------------------------------------------------------------------
(* The watchers themselves. *)

LEMMA TypeStep == ReloadTypeOK /\ TargetInv /\ [Next]_vars => ReloadTypeOK'
<1> SUFFICES ASSUME ReloadTypeOK, TargetInv, [Next]_vars PROVE ReloadTypeOK'
  OBVIOUS
<1> USE DEF ReloadTypeOK, Places
<1>1. ASSUME NEW p \in Path, Edit(p) PROVE ReloadTypeOK'
  <2>1. PICK content :
          LET noticed == Running(p) /\ content # Missing
          IN  /\ disk' = [disk EXCEPT ![p] = content]
              /\ pending' = [pending EXCEPT ![p] = IF noticed THEN @ + 1 ELSE @]
              /\ missed' = [missed EXCEPT ![p] = ~noticed]
    BY <1>1 DEF Edit
  <2> DEFINE noticed == Running(p) /\ content # Missing
  <2>2. noticed \in BOOLEAN
    OBVIOUS
  <2>3. missed' = [missed EXCEPT ![p] = ~noticed]
    BY <2>1
  <2>4. pending' = [pending EXCEPT ![p] = IF noticed THEN @ + 1 ELSE @]
    BY <2>1
  <2> HIDE DEF noticed
  <2>5. missed' \in [Path -> BOOLEAN]
    BY <2>2, <2>3
  <2>6. pending' \in [Path -> Nat]
    BY <2>2, <2>4
  <2> QED BY <1>1, <2>1, <2>5, <2>6 DEF Edit, config, local
<1>2. ASSUME NEW w \in Path, StartWatcher(w) PROVE ReloadTypeOK'
  BY <1>2 DEF StartWatcher, config, local, past
<1>3. ASSUME NEW w \in Path, TakeEvent(w) PROVE ReloadTypeOK'
  <2>1. pending' \in [Path -> Nat]
    BY <1>3 DEF TakeEvent
  <2>2. pc' \in [Path -> Places]
    BY <1>3 DEF TakeEvent
  <2>3. DOMAIN target' = Path
    BY <1>3 DEF TakeEvent
  <2> QED BY <1>3, <2>1, <2>2, <2>3 DEF TakeEvent, config, past
<1>4. ASSUME NEW w \in Path, BuildList(w) PROVE ReloadTypeOK'
  <2>1. pc' \in [Path -> Places] /\ DOMAIN built' = Path
    BY <1>4 DEF BuildList
  <2>2. skipped' \in BOOLEAN
    BY <1>4 DEF BuildList
  <2> QED BY <1>4, <2>1, <2>2 DEF BuildList, config
<1>5. ASSUME NEW w \in Path, SwapList(w) PROVE ReloadTypeOK'
  <2>0. target[w] \in {"ip", "dns", "white"}
    BY <1>5 DEF SwapList, TargetInv, Blacklist
  <2>1. pc' \in [Path -> Places]
    BY <1>5, <2>0 DEF SwapList
  <2>2. DOMAIN active' = List /\ DOMAIN target' = Path /\ DOMAIN built' = Path
    BY <1>5 DEF SwapList
  <2>3. late' \in [List -> BOOLEAN]
    BY <1>5 DEF SwapList, Overtakes, List
  <2>4. overtaken' \in [Path -> BOOLEAN]
    BY <1>5 DEF SwapList, Overtakes
  <2> QED BY <1>5, <2>1, <2>2, <2>3, <2>4 DEF SwapList
<1>6. ASSUME NEW w \in Path, BeginLoad(w) PROVE ReloadTypeOK'
  BY <1>6 DEF BeginLoad, config, past
<1>7. ASSUME NEW w \in Path, LoadRuleFile(w) PROVE ReloadTypeOK'
  BY <1>7 DEF LoadRuleFile, past
<1>8. ASSUME NEW w \in Path, SwapRules(w) PROVE ReloadTypeOK'
  BY <1>8 DEF SwapRules, past
<1>9. ASSUME NEW w \in Path, StopWatcher(w) PROVE ReloadTypeOK'
  BY <1>9 DEF StopWatcher, config, local, past
<1>10. CASE Shutdown \/ WatchersGone \/ UNCHANGED vars
  BY <1>10 DEF Shutdown, WatchersGone, vars, config, local, past
<1> QED BY <1>1, <1>2, <1>3, <1>4, <1>5, <1>6, <1>7, <1>8, <1>9, <1>10
        DEF Next, Watcher

(* A step of one watcher moves no other. *)
LEMMA OneMoves ==
  ASSUME ReloadTypeOK, NEW w \in Path, Watcher(w)
  PROVE  \A v \in Path \ {w} :
           pc'[v] = pc[v] /\ target'[v] = target[v] /\ built'[v] = built[v]
<1> USE DEF ReloadTypeOK
<1>1. CASE TakeEvent(w)
  BY <1>1 DEF TakeEvent
<1>2. CASE BuildList(w)
  BY <1>2 DEF BuildList
<1>3. CASE SwapList(w)
  BY <1>3 DEF SwapList
<1>4. CASE BeginLoad(w) \/ LoadRuleFile(w) \/ SwapRules(w) \/ StopWatcher(w)
  BY <1>4 DEF BeginLoad, LoadRuleFile, SwapRules, StopWatcher, local
<1> QED BY <1>1, <1>2, <1>3, <1>4 DEF Watcher

(* Where each step takes its watcher. *)
LEMMA TakeEventMoves ==
  ASSUME ReloadTypeOK, NEW w \in Path, TakeEvent(w)
  PROVE  /\ pc[w] = "idle" /\ pending[w] > 0
         /\ w \in RuleFile => pc'[w] = "lock"
         /\ w \in Blacklist => pc'[w] = "read" /\ target'[w] = "ip"
         /\ w = "white" => pc'[w] = "read" /\ target'[w] = "white"
<1>1. pc'[w] = (IF w \in RuleFile THEN "lock" ELSE "read")
  BY DEF TakeEvent, ReloadTypeOK
<1>2. target'[w] = CASE w \in RuleFile -> "none"
                     [] w \in Blacklist -> "ip"
                     [] w = "white" -> "white"
  BY DEF TakeEvent, ReloadTypeOK
<1>3. w \in Blacklist => w \notin RuleFile /\ w # "white"
  BY ListPaths DEF Blacklist
<1>4. w = "white" => w \notin RuleFile /\ w \notin Blacklist
  BY ListPaths DEF Blacklist
<1> QED BY <1>1, <1>2, <1>3, <1>4 DEF TakeEvent

LEMMA BuildListMoves ==
  ASSUME ReloadTypeOK, NEW w \in Path, BuildList(w)
  PROVE  /\ pc[w] = "read" /\ target'[w] = target[w]
         /\ \/ /\ Loads(target[w], disk[target[w]]) /\ pc'[w] = "swap"
               /\ built'[w] = Entries(disk[target[w]])
            \/ /\ ~Loads(target[w], disk[target[w]]) /\ pc'[w] = "idle"
               /\ target[w] = "ip" => skipped'
BY DEF BuildList, ReloadTypeOK

LEMMA SwapListMoves ==
  ASSUME ReloadTypeOK, NEW w \in Path, SwapList(w)
  PROVE  /\ pc[w] = "swap"
         /\ target[w] = "ip" => pc'[w] = "read" /\ target'[w] = "dns"
         /\ target[w] = "dns" => pc'[w] = "lock"
         /\ target[w] = "white" => pc'[w] = "idle"
BY DEF SwapList, ReloadTypeOK

LEMMA LoadingMoves ==
  ASSUME ReloadTypeOK, NEW w \in Path,
         BeginLoad(w) \/ LoadRuleFile(w) \/ SwapRules(w) \/ StopWatcher(w)
  PROVE  /\ pc[w] \in {"lock", "load", "idle"} /\ pc[w] = "idle" => shutdown = "waiting"
         /\ pc'[w] \in {"load", "idle", "stopped"}
         /\ pc'[w] = "load" => pc[w] \in {"lock", "load"}
BY DEF BeginLoad, LoadRuleFile, SwapRules, StopWatcher, ReloadTypeOK

LEMMA TargetStep == ReloadTypeOK /\ TargetInv /\ [Next]_vars => TargetInv'
<1> SUFFICES ASSUME ReloadTypeOK, TargetInv, [Next]_vars,
                    NEW v \in Path, pc'[v] \in {"read", "swap"}
             PROVE  \/ v \in Blacklist /\ target'[v] \in Blacklist
                    \/ v = "white" /\ target'[v] = "white"
  BY DEF TargetInv
<1>1. ASSUME NEW w \in Path, Watcher(w), v = w
      PROVE  \/ v \in Blacklist /\ target'[v] \in Blacklist
             \/ v = "white" /\ target'[v] = "white"
  <2>1. CASE TakeEvent(w)
    BY <1>1, <2>1, TakeEventMoves, ListPaths DEF Path, List, Blacklist
  <2>2. CASE BuildList(w)
    BY <1>1, <2>2, BuildListMoves DEF TargetInv
  <2>3. CASE SwapList(w)
    BY <1>1, <2>3, SwapListMoves DEF TargetInv, Blacklist
  <2>4. CASE BeginLoad(w) \/ LoadRuleFile(w) \/ SwapRules(w) \/ StopWatcher(w)
    BY <1>1, <2>4, LoadingMoves
  <2> QED BY <1>1, <2>1, <2>2, <2>3, <2>4 DEF Watcher
<1>2. ASSUME NEW w \in Path, Watcher(w), v # w
      PROVE  pc'[v] = pc[v] /\ target'[v] = target[v]
  BY <1>2, OneMoves
<1>3. ASSUME NEW w \in Path, Edit(w) \/ StartWatcher(w)
      PROVE  pc'[v] = pc[v] /\ target'[v] = target[v]
  BY <1>3 DEF Edit, StartWatcher, local, ReloadTypeOK
<1>4. CASE Shutdown \/ WatchersGone \/ UNCHANGED vars
  BY <1>4 DEF Shutdown, WatchersGone, vars, local, TargetInv
<1> QED BY <1>1, <1>2, <1>3, <1>4 DEF Next, TargetInv

LEMMA StoppedStep == ReloadTypeOK /\ StoppedInv /\ [Next]_vars => StoppedInv'
<1> SUFFICES ASSUME ReloadTypeOK, StoppedInv, [Next]_vars PROVE StoppedInv'
  OBVIOUS
<1>1. ASSUME NEW w \in Path, Watcher(w) PROVE StoppedInv'
  <2>1. pc[w] \notin {"stopped", "unwatched"}
    BY <1>1 DEF Watcher, TakeEvent, BuildList, SwapList, BeginLoad,
       LoadRuleFile, SwapRules, StopWatcher
  <2>2. shutdown' = shutdown
    BY <1>1 DEF Watcher, TakeEvent, BuildList, SwapList, BeginLoad,
       LoadRuleFile, SwapRules, StopWatcher
  <2> QED BY <2>1, <2>2 DEF StoppedInv
<1>2. ASSUME NEW w \in Path, Edit(w) \/ StartWatcher(w) PROVE StoppedInv'
  <2>1. shutdown' = shutdown /\ (pc' = pc \/ pc[w] = "new")
    BY <1>2 DEF Edit, StartWatcher
  <2> QED BY <2>1 DEF StoppedInv
<1>3. CASE Shutdown \/ WatchersGone \/ UNCHANGED vars
  BY <1>3 DEF Shutdown, WatchersGone, vars, StoppedInv
<1> QED BY <1>1, <1>2, <1>3 DEF Next

LEMMA WatcherStep == WatcherInv /\ [Next]_vars => WatcherInv'
  BY TypeStep, TargetStep, StoppedStep DEF WatcherInv
-----------------------------------------------------------------------------
(* The lists. *)

(* A step that leaves a list and its readers alone. *)
Untouched(l) ==
  /\ Considered(l)' => Considered(l)
  /\ active'[l] = active[l] /\ Entries(disk'[l]) = Entries(disk[l])
  /\ pending'[l] = pending[l]
  /\ \A w \in Path : /\ Reads(w, l) => Reads(w, l)'
                     /\ Swaps(w, l) <=> Swaps(w, l)'
                     /\ Swaps(w, l) => built'[w] = built[w]
                     /\ Swaps(w, l) /\ overtaken[w] => overtaken'[w]
  /\ late'[l] = late[l]

LEMMA UntouchedKeeps ==
  ASSUME NEW l, ListInv(l), Untouched(l)
  PROVE  ListInv(l)'
<1> SUFFICES ASSUME Considered(l)' PROVE OnItsWay(l)' \/ InForce(l)'
  BY DEF ListInv
<1>1. OnItsWay(l) \/ InForce(l)
  BY DEF ListInv, Untouched
<1>2. Entries(disk[l])' = Entries(disk[l])
  BY DEF Untouched, Entries
<1>3. CASE OnItsWay(l)
  <2>1. CASE pending[l] > 0
    BY <2>1 DEF OnItsWay, Untouched
  <2>2. CASE \E w \in Path : Reads(w, l)
    BY <2>2 DEF OnItsWay, Untouched
  <2>3. CASE \E w \in Path : Swaps(w, l) /\ built[w] = Entries(disk[l])
    <3>1. PICK w \in Path : Swaps(w, l) /\ built[w] = Entries(disk[l])
      BY <2>3
    <3>2. Swaps(w, l)' /\ built'[w] = Entries(disk[l])'
      BY <1>2, <3>1 DEF Untouched
    <3> QED BY <3>2 DEF OnItsWay
  <2> QED BY <1>3, <2>1, <2>2, <2>3 DEF OnItsWay
<1>4. CASE InForce(l)
  BY <1>2, <1>4 DEF InForce, Untouched
<1> QED BY <1>1, <1>3, <1>4

(* An edit that a watcher notices is pending; no other counts.             *)
LEMMA EditKeeps ==
  ASSUME IInv, NEW l \in List, NEW p \in Path, Edit(p)
  PROVE  ListInv(l)'
<1>1. UNCHANGED <<active, pc, target, built, shutdown, overtaken, late, skipped>>
  BY DEF Edit, config, local
<1>2. PICK content :
        LET noticed == Running(p) /\ content # Missing
        IN  /\ disk' = [disk EXCEPT ![p] = content]
            /\ pending' = [pending EXCEPT ![p] = IF noticed THEN @ + 1 ELSE @]
            /\ missed' = [missed EXCEPT ![p] = ~noticed]
  BY DEF Edit
<1>3. l \in Path
  BY ListPaths
<1>4. CASE p = l
  <2> SUFFICES ASSUME Considered(l)' PROVE OnItsWay(l)'
    BY DEF ListInv
  <2> DEFINE noticed == Running(p) /\ content # Missing
  <2>1. missed'[l] = ~noticed
    BY <1>2, <1>3, <1>4 DEF IInv, WatcherInv, ReloadTypeOK
  <2>2. noticed
    BY <2>1 DEF Considered
  <2>3. pending' = [pending EXCEPT ![p] = @ + 1]
    BY <1>2, <2>2
  <2>4. pending'[l] > 0
    BY <1>3, <1>4, <2>3 DEF IInv, WatcherInv, ReloadTypeOK
  <2> QED BY <2>4 DEF OnItsWay
<1>5. CASE p # l
  <2>1. disk'[l] = disk[l]
    BY <1>2, <1>3, <1>5 DEF IInv, WatcherInv, ReloadTypeOK
  <2>2. pending'[l] = pending[l]
    BY <1>2, <1>3, <1>5 DEF IInv, WatcherInv, ReloadTypeOK
  <2>3. missed'[l] = missed[l]
    BY <1>2, <1>3, <1>5 DEF IInv, WatcherInv, ReloadTypeOK
  <2>4. Considered(l)' => Considered(l)
    BY <1>1, <2>1, <2>3 DEF Considered, Loads
  <2>5. Untouched(l)
    BY <1>1, <2>1, <2>2, <2>4 DEF Untouched, Reads, Swaps
  <2> QED BY <2>5, UntouchedKeeps DEF IInv
<1> QED BY <1>4, <1>5

(* A watcher that takes an event reads every list of its reload. *)
LEMMA TakeEventKeeps ==
  ASSUME IInv, NEW l \in List, NEW w \in Path, TakeEvent(w)
  PROVE  ListInv(l)'
<1>1. /\ UNCHANGED <<disk, active, built, shutdown, missed, overtaken, late,
                      skipped>>
      /\ pending' = [pending EXCEPT ![w] = @ - 1] /\ ReloadTypeOK
  BY DEF TakeEvent, config, past, IInv, WatcherInv
<1>2. l \in Path
  BY ListPaths
<1>3. CASE w = l \/ (w \in Blacklist /\ l \in Blacklist)
  <2>1. Reads(w, l)'
    BY <1>1, <1>3, TakeEventMoves, ListPaths DEF Reads, Blacklist
  <2> QED BY <2>1 DEF ListInv, OnItsWay
<1>4. CASE ~(w = l \/ (w \in Blacklist /\ l \in Blacklist))
  <2>1. pc[w] = "idle" /\ ~Reads(w, l) /\ ~Swaps(w, l) /\ ~Swaps(w, l)'
    BY <1>1, <1>4, TakeEventMoves, ListPaths DEF Reads, Swaps, Path, List
  <2>2. \A v \in Path \ {w} :
          /\ pc'[v] = pc[v] /\ target'[v] = target[v] /\ built'[v] = built[v]
    BY <1>1, OneMoves DEF Watcher
  <2>3. \A v \in Path : /\ Reads(v, l) => Reads(v, l)'
                        /\ Swaps(v, l) <=> Swaps(v, l)'
    BY <2>1, <2>2 DEF Reads, Swaps
  <2>4. pending'[l] = pending[l]
    BY <1>1, <1>2, <1>4 DEF ReloadTypeOK
  <2>5. Considered(l)' => Considered(l)
    BY <1>1 DEF Considered, Loads
  <2>6. active'[l] = active[l] /\ Entries(disk'[l]) = Entries(disk[l])
    BY <1>1
  <2>7. \A v \in Path : Swaps(v, l) => built'[v] = built[v]
    BY <1>1
  <2>8. Untouched(l)
    BY <1>1, <2>3, <2>4, <2>5, <2>6, <2>7 DEF Untouched
  <2> QED BY <2>8, UntouchedKeeps DEF IInv
<1> QED BY <1>3, <1>4

(* What is built from a file that loads is what the file says. *)
LEMMA BuildListKeeps ==
  ASSUME IInv, NEW l \in List, NEW w \in Path, BuildList(w)
  PROVE  ListInv(l)'
<1>0. ReloadTypeOK
  BY DEF IInv, WatcherInv
<1>1. /\ UNCHANGED <<disk, active, pending, target, shutdown, missed, overtaken,
                      late>>
      /\ target[w] # "dns" /\ skipped => skipped'
  <2>1. UNCHANGED <<disk, active, pending, target, shutdown, missed, overtaken,
                    late>>
    BY DEF BuildList, config
  <2>2. target[w] # "dns" /\ skipped => skipped'
    BY DEF BuildList
  <2> QED BY <2>1, <2>2
<1>2. /\ pc[w] = "read" /\ target'[w] = target[w]
      /\ \/ /\ Loads(target[w], disk[target[w]]) /\ pc'[w] = "swap"
            /\ built'[w] = Entries(disk[target[w]])
         \/ /\ ~Loads(target[w], disk[target[w]]) /\ pc'[w] = "idle"
            /\ target[w] = "ip" => skipped'
  BY <1>0, BuildListMoves
<1>3. \A v \in Path \ {w} :
        /\ pc'[v] = pc[v] /\ target'[v] = target[v] /\ built'[v] = built[v]
  BY <1>0, OneMoves DEF Watcher
<1>5. CASE target[w] = l
  <2> SUFFICES ASSUME Considered(l)' PROVE OnItsWay(l)'
    BY DEF ListInv
  <2>1. Loads(l, disk[l])
    BY <1>1 DEF Considered, Loads
  <2>2. pc'[w] = "swap" /\ built'[w] = Entries(disk[l])
    BY <1>2, <1>5, <2>1
  <2>3. Swaps(w, l)' /\ built'[w] = Entries(disk[l])'
    BY <1>1, <1>2, <1>5, <2>2 DEF Swaps, Entries
  <2> QED BY <2>3 DEF OnItsWay
<1>6. CASE target[w] = "ip" /\ l = "dns"
  <2> SUFFICES ASSUME Considered(l)' PROVE OnItsWay(l)'
    BY DEF ListInv
  <2>1. ~skipped'
    BY <1>6 DEF Considered
  <2>2. pc'[w] = "swap"
    BY <1>2, <1>6, <2>1
  <2>3. Reads(w, l)'
    BY <1>2, <1>6, <2>2 DEF Reads
  <2> QED BY <2>3 DEF OnItsWay
<1>7. CASE target[w] # l /\ ~(target[w] = "ip" /\ l = "dns")
  <2>1. ~Reads(w, l) /\ ~Swaps(w, l) /\ ~Swaps(w, l)'
    BY <1>2, <1>7 DEF Reads, Swaps
  <2>2. \A v \in Path : /\ Reads(v, l) => Reads(v, l)'
                        /\ Swaps(v, l) <=> Swaps(v, l)'
    BY <1>3, <2>1 DEF Reads, Swaps
  <2>3. \A v \in Path : Swaps(v, l) => built'[v] = built[v]
    BY <1>3, <2>1
  <2>4. active'[l] = active[l] /\ Entries(disk'[l]) = Entries(disk[l])
    BY <1>1
  <2>5. pending'[l] = pending[l]
    BY <1>1
  <2>6. Considered(l)' => Considered(l)
    BY <1>1, <1>7 DEF Considered, Loads
  <2>7. Untouched(l)
    BY <1>1, <2>2, <2>3, <2>4, <2>5, <2>6 DEF Untouched
  <2> QED BY <2>7, UntouchedKeeps DEF IInv
<1> QED BY <1>5, <1>6, <1>7

(* What is put into force is what was built, and who has built another     *)
(* version is overtaken.                                                   *)
LEMMA SwapListKeeps ==
  ASSUME IInv, NEW l \in List, NEW w \in Path, SwapList(w)
  PROVE  ListInv(l)'
<1>1. /\ UNCHANGED <<disk, pending, shutdown, missed, skipped>>
      /\ active' = [active EXCEPT ![target[w]] = built[w]] /\ pc[w] = "swap"
      /\ ReloadTypeOK
  BY DEF SwapList, IInv, WatcherInv
<1>0. /\ late' = [late EXCEPT ![target[w]] = overtaken[w]]
      /\ \A v \in Path \ {w} :
           /\ overtaken[v] => overtaken'[v]
           /\ Swaps(v, target[w]) => overtaken'[v]
  BY DEF SwapList, Overtakes, Swaps
<1>2. \A v \in Path \ {w} :
        /\ pc'[v] = pc[v] /\ target'[v] = target[v] /\ built'[v] = built[v]
  BY <1>1, OneMoves DEF Watcher
<1>3. Considered(l)' => Considered(l)
  BY <1>1 DEF Considered, Loads
<1>4. target[w] \in {"ip", "dns", "white"}
  BY <1>1 DEF IInv, WatcherInv, TargetInv, Blacklist
<1>5. ~Swaps(w, l)'
  BY <1>1, <1>4, SwapListMoves DEF Swaps
<1>6. CASE target[w] = l
  <2> SUFFICES ASSUME Considered(l)' PROVE OnItsWay(l)' \/ InForce(l)'
    BY DEF ListInv
  <2>1. OnItsWay(l) \/ InForce(l)
    BY <1>3 DEF IInv, ListInv
  <2>2. CASE pending[l] > 0
    BY <1>1, <2>2 DEF OnItsWay
  <2>3. CASE \E v \in Path : Reads(v, l)
    <3>1. PICK v \in Path : Reads(v, l)
      BY <2>3
    <3>2. v # w
      BY <1>1, <1>6, <3>1 DEF Reads
    <3>3. Reads(v, l)'
      BY <1>2, <3>1, <3>2 DEF Reads
    <3> QED BY <3>3 DEF OnItsWay
  <2>4. CASE /\ InForce(l) \/ built[w] = Entries(disk[l])
    <3>1. late'[l] = overtaken[w] /\ active'[l] = built[w]
      BY <1>0, <1>1, <1>6 DEF ReloadTypeOK
    <3>2. overtaken[w] \/ built[w] = Entries(disk[l])
      BY <1>1, <1>6, <2>4 DEF InForce, Swaps
    <3>3. late'[l] \/ active'[l] = Entries(disk[l])'
      BY <1>1, <3>1, <3>2 DEF Entries
    <3>4. ASSUME NEW v \in Path, Swaps(v, l)' PROVE overtaken'[v]
      <4>1. v # w
        BY <1>5, <3>4
      <4>2. Swaps(v, l)
        BY <1>2, <3>4, <4>1 DEF Swaps
      <4> QED BY <1>0, <1>6, <4>1, <4>2
    <3> QED BY <3>3, <3>4 DEF InForce
  <2>5. CASE \E v \in Path : Swaps(v, l) /\ built[v] = Entries(disk[l])
    <3>1. PICK v \in Path : Swaps(v, l) /\ built[v] = Entries(disk[l])
      BY <2>5
    <3>2. CASE v = w
      BY <2>4, <3>1, <3>2
    <3>3. CASE v # w
      <4>1. Swaps(v, l)' /\ built'[v] = Entries(disk[l])'
        BY <1>1, <1>2, <3>1, <3>3 DEF Swaps, Entries
      <4> QED BY <4>1 DEF OnItsWay
    <3> QED BY <3>2, <3>3
  <2> QED BY <2>1, <2>2, <2>3, <2>4, <2>5 DEF OnItsWay
<1>7. CASE target[w] = "ip" /\ l = "dns"
  <2>1. Reads(w, l)'
    BY <1>1, <1>7, SwapListMoves DEF Reads
  <2> QED BY <2>1 DEF ListInv, OnItsWay
<1>8. CASE target[w] # l /\ ~(target[w] = "ip" /\ l = "dns")
  <2>1. ~Reads(w, l) /\ ~Swaps(w, l)
    BY <1>1, <1>8 DEF Reads, Swaps
  <2>2. \A v \in Path : /\ Reads(v, l) => Reads(v, l)'
                        /\ Swaps(v, l) <=> Swaps(v, l)'
    BY <1>2, <1>5, <2>1 DEF Reads, Swaps
  <2>3. \A v \in Path : Swaps(v, l) => built'[v] = built[v]
    BY <1>2, <2>1
  <2>4. active'[l] = active[l] /\ Entries(disk'[l]) = Entries(disk[l])
    BY <1>1, <1>8 DEF ReloadTypeOK
  <2>5. pending'[l] = pending[l]
    BY <1>1
  <2>6. late'[l] = late[l]
    BY <1>0, <1>1, <1>8 DEF ReloadTypeOK
  <2>7. \A v \in Path : Swaps(v, l) /\ overtaken[v] => overtaken'[v]
    BY <1>0, <2>1
  <2>8. Untouched(l)
    BY <1>3, <2>2, <2>3, <2>4, <2>5, <2>6, <2>7 DEF Untouched
  <2> QED BY <2>8, UntouchedKeeps DEF IInv
<1> QED BY <1>6, <1>7, <1>8

LEMMA NextIInv == IInv /\ [Next]_vars => IInv'
<1> SUFFICES ASSUME IInv, [Next]_vars, NEW l \in List PROVE ListInv(l)'
  BY WatcherStep DEF IInv
<1>1. ASSUME NEW w \in Path,
             \/ StartWatcher(w)
             \/ BeginLoad(w) \/ LoadRuleFile(w) \/ SwapRules(w)
      PROVE  ListInv(l)'
  <2>1. UNCHANGED <<disk, active, pending, target, built, shutdown, missed,
                    overtaken, late, skipped>>
    BY <1>1 DEF StartWatcher, BeginLoad, LoadRuleFile, SwapRules, config,
       local, past
  <2>2. pc'[w] \notin {"read", "swap"} /\ pc[w] \notin {"read", "swap"}
    BY <1>1 DEF StartWatcher, BeginLoad, LoadRuleFile, SwapRules, IInv,
       WatcherInv, ReloadTypeOK
  <2>3. \A v \in Path \ {w} : pc'[v] = pc[v]
    BY <1>1 DEF StartWatcher, BeginLoad, LoadRuleFile, SwapRules, IInv,
       WatcherInv, ReloadTypeOK
  <2>4. \A v \in Path : (Reads(v, l) <=> Reads(v, l)')
                       /\ (Swaps(v, l) <=> Swaps(v, l)')
    BY <2>1, <2>2, <2>3 DEF Reads, Swaps
  <2>5. Considered(l)' => Considered(l)
    BY <2>1 DEF Considered, Loads
  <2>6. Untouched(l)
    BY <2>1, <2>4, <2>5 DEF Untouched
  <2> QED BY <2>6, UntouchedKeeps DEF IInv
<1>2. ASSUME NEW w \in Path, StopWatcher(w) PROVE ListInv(l)'
  BY <1>2 DEF StopWatcher, ListInv, Considered
<1>3. CASE Shutdown \/ WatchersGone
  BY <1>3 DEF Shutdown, WatchersGone, ListInv, Considered
<1>4. CASE UNCHANGED vars
  <2>1. Untouched(l)
    BY <1>4 DEF vars, config, local, past, Untouched, Considered, Loads, Reads,
       Swaps
  <2> QED BY <2>1, UntouchedKeeps DEF IInv
<1> QED BY <1>1, <1>2, <1>3, <1>4, EditKeeps, TakeEventKeeps, BuildListKeeps,
           SwapListKeeps DEF Next, Watcher

LEMMA Invariance == Spec => []IInv
  BY InitIInv, NextIInv, PTL DEF Spec

(* When the watchers are at rest, the lists in force are those of the      *)
(* files (caddywaf.go, ReloadConfig and ReloadIPWhitelist), however many   *)
(* edits and overlapping reloads there were, unless the one that swapped a *)
(* list last had been overtaken (with the other exceptions ListsCurrent    *)
(* names).                                                                 *)
THEOREM ListsFollowFiles == Spec => []ListsCurrent
<1>1. IInv => ListsCurrent
  <2> SUFFICES ASSUME IInv, NEW l \in List, Quiet, ~missed[l],
                      Loads(l, disk[l]), ~late[l], l = "dns" => ~skipped
               PROVE  active[l] = Entries(disk[l])
    BY DEF ListsCurrent
  <2>1. Considered(l) /\ ListInv(l)
    BY DEF Considered, IInv, Quiet
  <2>2. ~OnItsWay(l)
    BY ListPaths DEF OnItsWay, Quiet, Reads, Swaps
  <2> QED BY <2>1, <2>2 DEF ListInv, InForce
<1> QED BY <1>1, Invariance, PTL

(* Once Shutdown has returned no watcher changes the configuration         *)
(* (caddywaf.go, watcherWG.Wait).                                          *)
THEOREM ShutdownIsFinal == Spec => NothingAfterShutdown
<1>1. IInv /\ [Next]_vars => [shutdown = "done" => UNCHANGED config]_vars
  <2> SUFFICES ASSUME IInv, [Next]_vars, shutdown = "done"
               PROVE  UNCHANGED config
    OBVIOUS
  <2>1. ASSUME NEW w \in Path PROVE ~Watcher(w)
    <3>1. pc[w] \in {"stopped", "unwatched"}
      BY DEF IInv, WatcherInv, StoppedInv
    <3> QED BY <3>1 DEF Watcher, TakeEvent, BuildList, SwapList, BeginLoad,
            LoadRuleFile, SwapRules, StopWatcher
  <2> QED BY <2>1 DEF Next, Edit, StartWatcher, Shutdown, WatchersGone, vars
<1> QED BY <1>1, Invariance, PTL DEF Spec, NothingAfterShutdown
-----------------------------------------------------------------------------
(* The rules.  LoadFile and LoadAll are folds, which TLA+ defines over the *)
(* subsets of the positions: the last position is taken out first.         *)

LEMMA MaxIs ==
  ASSUME NEW n \in Nat, NEW t \in SUBSET (1 .. n), t # {}
  PROVE  Max(t) \in t /\ \A y \in t : y <= Max(t)
<1> DEFINE U == {n - x : x \in t}
<1>0. \A x \in t : x \in Nat /\ x <= n
  OBVIOUS
<1>1. U \subseteq Nat /\ U # {}
  <2>1. \A x \in t : n - x \in Nat
    BY <1>0
  <2> QED BY <2>1
<1>2. PICK u \in U : \A k \in U : u <= k
  <2> HIDE DEF U
  <2> QED BY <1>1, LeastMember
<1>3. PICK x \in t : u = n - x
  OBVIOUS
<1>4. \A y \in t : x >= y
  <2> SUFFICES ASSUME NEW y \in t PROVE x >= y
    OBVIOUS
  <2>1. n - y \in U
    OBVIOUS
  <2>2. n - x <= n - y /\ x \in Int /\ y \in Int
    BY <1>2, <1>3, <2>1
  <2> QED BY <2>2
<1>5. Max(t) \in t /\ \A y \in t : Max(t) >= y
  BY <1>4 DEF Max
<1> QED BY <1>5

LEMMA MaxUpTo ==
  ASSUME NEW k \in Nat, k # 0
  PROVE  /\ 1 .. k # {} /\ Max(1 .. k) = k /\ (1 .. k) \ {k} = 1 .. (k - 1)
<1>0. PICK t : t = 1 .. k
  OBVIOUS
<1>1. t \in SUBSET (1 .. k) /\ t # {} /\ k \in t
  <2>1. k \in t
    BY <1>0
  <2>2. t \subseteq 1 .. k
    BY ONLY <1>0
  <2> QED BY <2>1, <2>2
<1>2. Max(t) \in t /\ \A y \in t : y <= Max(t)
  BY ONLY <1>1, MaxIs
<1>3. Max(t) \in 1 .. k /\ k <= Max(t)
  BY <1>0, <1>1, <1>2
<1> QED BY <1>0, <1>1, <1>3

LEMMA WithoutMax ==
  ASSUME NEW k \in Nat, NEW t \in SUBSET (1 .. (k + 1)), t # {}, NEW u, u = t \ {Max(t)}
  PROVE  u \in SUBSET (1 .. k) /\ u \in SUBSET (1 .. (k + 1))
<1>0. k + 1 \in Nat
  OBVIOUS
<1>1. Max(t) \in t /\ \A y \in t : y <= Max(t)
  BY ONLY <1>0, t # {}, MaxIs
<1>2. ASSUME NEW y \in u PROVE y \in 1 .. k
  <2>1. y \in t /\ y # Max(t) /\ y \in 1 .. (k + 1) /\ Max(t) \in 1 .. (k + 1)
    BY <1>1, <1>2
  <2>2. y <= Max(t)
    BY <1>1, <2>1
  <2> QED BY <2>1, <2>2
<1> QED BY <1>2

FileStep(l, s, D, g) ==
  [t \in D |-> IF t = {} THEN l ELSE LoadRule(g[t \ {Max(t)}], s[Max(t)])]

LEMMA FileFold ==
  ASSUME NEW l, NEW s, NEW n \in Nat, DOMAIN s = 1 .. n
  PROVE  FoldLeft(LoadRule, l, s) =
           (CHOOSE g : g = FileStep(l, s, SUBSET (1 .. n), g))[1 .. n]
BY DEF FoldLeft, MapThenFoldSet, FileStep

LEMMA FileStepExists ==
  ASSUME NEW l, NEW s, NEW n \in Nat
  PROVE  \E g : g = FileStep(l, s, SUBSET (1 .. n), g)
<1> DEFINE N == {k \in Nat : \E g : g = FileStep(l, s, SUBSET (1 .. k), g)}
<1>1. 0 \in N
  <2> DEFINE g == [t \in SUBSET (1 .. 0) |-> l]
  <2>1. \A t \in SUBSET (1 .. 0) : t = {}
    OBVIOUS
  <2>2. g = FileStep(l, s, SUBSET (1 .. 0), g)
    BY <2>1 DEF FileStep
  <2> QED BY <2>2
<1>2. ASSUME NEW k \in Nat, k \in N PROVE k + 1 \in N
  <2>1. PICK g : g = FileStep(l, s, SUBSET (1 .. k), g)
    BY <1>2
  <2>2. PICK h : h = FileStep(l, s, SUBSET (1 .. (k + 1)), g)
    OBVIOUS
  <2>3. ASSUME NEW t \in SUBSET (1 .. (k + 1)), t # {}
        PROVE  h[t \ {Max(t)}] = g[t \ {Max(t)}]
    <3>1. PICK u : u = t \ {Max(t)}
      OBVIOUS
    <3>2. u \in SUBSET (1 .. k) /\ u \in SUBSET (1 .. (k + 1))
      BY <2>3, <3>1, WithoutMax
    <3>3. h[u] = IF u = {} THEN l ELSE LoadRule(g[u \ {Max(u)}], s[Max(u)])
      BY <2>2, <3>2 DEF FileStep
    <3>4. FileStep(l, s, SUBSET (1 .. k), g)[u]
            = IF u = {} THEN l ELSE LoadRule(g[u \ {Max(u)}], s[Max(u)])
      BY <3>2 DEF FileStep
    <3> QED BY <2>1, <3>1, <3>3, <3>4
  <2>4. h = FileStep(l, s, SUBSET (1 .. (k + 1)), h)
    BY <2>2, <2>3 DEF FileStep
  <2> QED BY <2>4
<1>3. Nat \subseteq N
  <2> HIDE DEF N
  <2> QED BY <1>1, <1>2, SetInduction
<1> QED BY <1>3

(* LoadFile is LoadRule for one rule after the other. *)
LEMMA FileRuns ==
  ASSUME NEW l, NEW file, NEW n \in Nat, DOMAIN file = 1 .. n
  PROVE  \E p : /\ p[0] = l /\ p[n] = LoadFile(l, file)
                /\ \A k \in 1 .. n : p[k] = LoadRule(p[k - 1], ByPriority(file)[k])
<1>1. PICK s : s = ByPriority(file)
  OBVIOUS
<1>2. DOMAIN s = 1 .. n
  BY <1>1 DEF ByPriority
<1>3. PICK g : g = CHOOSE h : h = FileStep(l, s, SUBSET (1 .. n), h)
  OBVIOUS
<1>4. g = FileStep(l, s, SUBSET (1 .. n), g)
  BY <1>3, FileStepExists
<1>5. \A t \in SUBSET (1 .. n) :
        g[t] = IF t = {} THEN l ELSE LoadRule(g[t \ {Max(t)}], s[Max(t)])
  <2> SUFFICES ASSUME NEW t \in SUBSET (1 .. n)
               PROVE  g[t] = IF t = {} THEN l ELSE LoadRule(g[t \ {Max(t)}], s[Max(t)])
    OBVIOUS
  <2>1. FileStep(l, s, SUBSET (1 .. n), g)[t]
          = IF t = {} THEN l ELSE LoadRule(g[t \ {Max(t)}], s[Max(t)])
    BY DEF FileStep
  <2> QED BY <1>4, <2>1
<1>6. PICK p : p = [k \in 0 .. n |-> g[1 .. k]]
  OBVIOUS
<1>7. p[0] = l
  <2>1. 1 .. 0 = {} /\ 1 .. 0 \in SUBSET (1 .. n) /\ 0 \in 0 .. n
    OBVIOUS
  <2>2. g[1 .. 0] = l
    BY <1>5, <2>1
  <2> QED BY <1>6, <2>1, <2>2
<1>8. ASSUME NEW k \in 1 .. n PROVE p[k] = LoadRule(p[k - 1], s[k])
  <2>1. /\ 1 .. k \in SUBSET (1 .. n) /\ 1 .. k # {} /\ Max(1 .. k) = k
        /\ (1 .. k) \ {k} = 1 .. (k - 1) /\ k \in 0 .. n /\ k - 1 \in 0 .. n
    <3>1. k \in Nat /\ k # 0
      OBVIOUS
    <3>2. /\ 1 .. k # {} /\ Max(1 .. k) = k /\ (1 .. k) \ {k} = 1 .. (k - 1)
      BY ONLY <3>1, MaxUpTo
    <3> QED BY <3>1, <3>2
  <2>2. g[1 .. k] = LoadRule(g[(1 .. k) \ {Max(1 .. k)}], s[Max(1 .. k)])
    BY <1>5, <2>1
  <2>3. g[1 .. k] = LoadRule(g[1 .. (k - 1)], s[k])
    BY <2>1, <2>2
  <2>4. p[k] = g[1 .. k] /\ p[k - 1] = g[1 .. (k - 1)]
    BY <1>6, <2>1
  <2> QED BY <2>3, <2>4
<1>9. p[n] = LoadFile(l, file)
  <2>1. FoldLeft(LoadRule, l, s) = g[1 .. n]
    BY <1>2, <1>3, FileFold
  <2> QED BY <1>1, <1>6, <2>1 DEF LoadFile
<1> QED BY <1>1, <1>7, <1>8, <1>9
-----------------------------------------------------------------------------
(* A load ends the same if it starts with the cache it left: what it looks *)
(* up of a rule it has also seen, and no rule is looked up twice.          *)
IsCache(c) == c = [id \in DOMAIN c |-> c[id]]

IsLoad(l) ==
  /\ l = [rules |-> l.rules, ids |-> l.ids, cache |-> l.cache]
  /\ IsCache(l.cache)

With(l, c) == [rules |-> l.rules, ids |-> l.ids, cache |-> c]

(* The regexes of c are those of a load, for the IDs it has seen. *)
Agrees(c, l) ==
  /\ IsCache(c)
  /\ \A id \in l.ids : /\ id \in DOMAIN c <=> id \in DOMAIN l.cache
                       /\ id \in DOMAIN c => c[id] = l.cache[id]

LEMMA NewIsLoad ==
  ASSUME NEW c, IsCache(c)
  PROVE  /\ IsLoad(NewLoad(c)) /\ Agrees(c, NewLoad(c))
         /\ \A d : With(NewLoad(d), c) = NewLoad(c)
BY DEF IsLoad, NewLoad, Agrees, With

LEMMA AgreesItself ==
  ASSUME NEW l, IsLoad(l)
  PROVE  Agrees(l.cache, l) /\ With(l, l.cache) = l
BY DEF IsLoad, Agrees, With

LEMMA AcceptIs ==
  ASSUME NEW l, IsLoad(l), NEW r, NEW x, NEW m, m = Accept(l, r, x), r.id \notin l.ids,
         r.id \in DOMAIN l.cache => x = l.cache[r.id], NEW c, Agrees(c, m)
  PROVE  /\ IsLoad(m) /\ Agrees(c, l)
         /\ r.id \in DOMAIN c /\ c[r.id] = x
         /\ Accept(With(l, c), r, x) = With(m, c)
<1>1. /\ m.ids = l.ids \cup {r.id}
      /\ m.rules = Append(l.rules, [id |-> r.id, regex |-> x])
      /\ DOMAIN m.cache = DOMAIN l.cache \cup {r.id} /\ m.cache[r.id] = x
      /\ \A id \in DOMAIN l.cache : id # r.id => m.cache[id] = l.cache[id]
      /\ IsCache(m.cache)
  BY DEF Accept, IsCache
<1>2. IsLoad(m)
  BY <1>1 DEF Accept, IsLoad
<1>3. r.id \in DOMAIN c /\ c[r.id] = x
  <2>1. PICK i : i = r.id
    OBVIOUS
  <2>2. i \in m.ids /\ i \in DOMAIN m.cache /\ m.cache[i] = x
    BY <1>1, <2>1
  <2>3. \A id \in m.ids : /\ id \in DOMAIN c <=> id \in DOMAIN m.cache
                          /\ id \in DOMAIN c => c[id] = m.cache[id]
    BY ONLY Agrees(c, m) DEF Agrees
  <2> QED BY ONLY <2>1, <2>2, <2>3
<1>4. Agrees(c, l)
  BY <1>1 DEF Agrees
<1>5. [id \in DOMAIN c \cup {r.id} |-> IF id = r.id THEN x ELSE c[id]] = c
  <2>1. c = [id \in DOMAIN c |-> c[id]]
    BY DEF Agrees, IsCache
  <2>2. DOMAIN c \cup {r.id} = DOMAIN c
    BY <1>3
  <2>3. [id \in DOMAIN c |-> IF id = r.id THEN x ELSE c[id]] = [id \in DOMAIN c |-> c[id]]
    BY <1>3
  <2> QED BY <2>1, <2>2, <2>3
<1>6. Accept(With(l, c), r, x) = With(m, c)
  <2>1. PICK w : w = With(l, c)
    OBVIOUS
  <2>2. w.rules = l.rules /\ w.ids = l.ids /\ w.cache = c
    BY <2>1 DEF With
  <2>3. Accept(w, r, x) = [rules |-> m.rules, ids |-> m.ids, cache |-> c]
    <3>1. Accept(w, r, x) =
            [rules |-> Append(w.rules, [id |-> r.id, regex |-> x]),
             ids   |-> w.ids \cup {r.id},
             cache |-> [id \in DOMAIN w.cache \cup {r.id} |->
                          IF id = r.id THEN x ELSE w.cache[id]]]
      BY Zenon DEF Accept
    <3>2. [id \in DOMAIN w.cache \cup {r.id} |->
             IF id = r.id THEN x ELSE w.cache[id]] = c
      <4>1. PICK d : d = w.cache
        OBVIOUS
      <4>2. d = c
        BY <2>2, <4>1
      <4>3. [id \in DOMAIN d \cup {r.id} |-> IF id = r.id THEN x ELSE d[id]] = c
        BY ONLY <1>5, <4>2
      <4> QED BY ONLY <4>1, <4>3
    <3>3. /\ Append(w.rules, [id |-> r.id, regex |-> x]) = m.rules
          /\ w.ids \cup {r.id} = m.ids
      BY <1>1, <2>2
    <3> QED BY ONLY <3>1, <3>2, <3>3, Zenon
  <2> QED BY <2>1, <2>3 DEF With
<1> QED BY <1>2, <1>3, <1>4, <1>6

(* A rule is taken or dropped alike by any cache that has what it left.    *)
LEMMA RuleStable ==
  ASSUME NEW l, IsLoad(l), NEW r, NEW m, m = LoadRule(l, r), NEW c
  PROVE  /\ IsLoad(m)
         /\ Agrees(c, m) => Agrees(c, l) /\ LoadRule(With(l, c), r) = With(m, c)
<1>w. PICK w : w = With(l, c)
  OBVIOUS
<1>0. w.ids = l.ids /\ w.cache = c /\ w.rules = l.rules
  BY <1>w DEF With
<1>1. CASE ~r.valid \/ r.id \in l.ids
  <2>1. m = l /\ LoadRule(w, r) = w
    BY <1>0, <1>1 DEF LoadRule
  <2> QED BY <1>w, <2>1
<1>2. CASE r.valid /\ r.id \notin l.ids /\ r.id \in DOMAIN l.cache
  <2>0. PICK x : x = l.cache[r.id]
    OBVIOUS
  <2>1. m = Accept(l, r, x)
    BY <1>2, <2>0 DEF LoadRule
  <2>i. IsLoad(m)
    BY <2>1 DEF Accept, IsLoad, IsCache
  <2>2. ASSUME Agrees(c, m)
        PROVE  Agrees(c, l) /\ LoadRule(With(l, c), r) = With(m, c)
    <3>1. /\ Agrees(c, l) /\ r.id \in DOMAIN c /\ c[r.id] = x
          /\ Accept(With(l, c), r, x) = With(m, c)
      BY <1>2, <2>0, <2>1, <2>2, AcceptIs
    <3>2. LoadRule(w, r) = Accept(w, r, x)
      BY <1>0, <1>2, <3>1 DEF LoadRule
    <3> QED BY <1>w, <3>1, <3>2
  <2> QED BY <2>i, <2>2
<1>3. CASE /\ r.valid /\ r.id \notin l.ids /\ r.id \notin DOMAIN l.cache
           /\ r.pattern # BadPattern
  <2>0. PICK x : x = r.pattern
    OBVIOUS
  <2>1. m = Accept(l, r, x)
    BY <1>3, <2>0 DEF LoadRule
  <2>i. IsLoad(m)
    BY <2>1 DEF Accept, IsLoad, IsCache
  <2>2. ASSUME Agrees(c, m)
        PROVE  Agrees(c, l) /\ LoadRule(With(l, c), r) = With(m, c)
    <3>1. /\ Agrees(c, l) /\ r.id \in DOMAIN c /\ c[r.id] = x
          /\ Accept(With(l, c), r, x) = With(m, c)
      BY <1>3, <2>0, <2>1, <2>2, AcceptIs
    <3>2. LoadRule(w, r) = Accept(w, r, x)
      BY <1>0, <1>3, <3>1 DEF LoadRule
    <3> QED BY <1>w, <3>1, <3>2
  <2> QED BY <2>i, <2>2
<1>4. CASE /\ r.valid /\ r.id \notin l.ids /\ r.id \notin DOMAIN l.cache
           /\ r.pattern = BadPattern
  <2>1. m = [l EXCEPT !.ids = @ \cup {r.id}]
    BY <1>4 DEF LoadRule
  <2>2. m = [rules |-> l.rules, ids |-> l.ids \cup {r.id}, cache |-> l.cache]
    BY <2>1 DEF IsLoad
  <2>3. IsLoad(m)
    BY <2>2 DEF IsLoad
  <2>4. ASSUME Agrees(c, m)
        PROVE  Agrees(c, l) /\ LoadRule(With(l, c), r) = With(m, c)
    <3>0. PICK i : i = r.id
      OBVIOUS
    <3>a. \A id \in l.ids \cup {i} : /\ id \in DOMAIN c <=> id \in DOMAIN l.cache
                                     /\ id \in DOMAIN c => c[id] = l.cache[id]
      BY <2>2, <2>4, <3>0 DEF Agrees
    <3>b. IsCache(c) /\ i \notin DOMAIN l.cache
      BY <1>4, <2>4, <3>0 DEF Agrees
    <3>1. Agrees(c, l) /\ r.id \notin DOMAIN c
      <4>1. \A id \in l.ids : /\ id \in DOMAIN c <=> id \in DOMAIN l.cache
                              /\ id \in DOMAIN c => c[id] = l.cache[id]
        BY ONLY <3>a
      <4>2. i \notin DOMAIN c
        BY ONLY <3>a, <3>b
      <4> QED BY ONLY <3>0, <3>b, <4>1, <4>2 DEF Agrees
    <3>2. LoadRule(w, r) = [w EXCEPT !.ids = @ \cup {r.id}]
      BY <1>0, <1>4, <3>1 DEF LoadRule
    <3>3. [w EXCEPT !.ids = @ \cup {r.id}] = With(m, c)
      BY <1>w, <2>2 DEF With
    <3> QED BY <1>w, <3>1, <3>2, <3>3
  <2> QED BY <2>3, <2>4
<1> QED BY <1>1, <1>2, <1>3, <1>4

(* What holds of every step holds of the whole way. *)
LEMMA WayStable ==
  ASSUME NEW n \in Nat, NEW p, NEW q, NEW c, IsLoad(p[0]), q[0] = With(p[0], c),
         \A k \in 1 .. n : IsLoad(p[k - 1]) =>
           /\ IsLoad(p[k])
           /\ Agrees(c, p[k]) =>
                /\ Agrees(c, p[k - 1])
                /\ q[k - 1] = With(p[k - 1], c) => q[k] = With(p[k], c)
  PROVE  /\ IsLoad(p[n])
         /\ Agrees(c, p[n]) => Agrees(c, p[0]) /\ q[n] = With(p[n], c)
<1> DEFINE N == {k \in Nat : k <= n =>
                   /\ IsLoad(p[k])
                   /\ Agrees(c, p[k]) => Agrees(c, p[0]) /\ q[k] = With(p[k], c)}
<1>1. 0 \in N
  OBVIOUS
<1>2. ASSUME NEW j \in Nat, j \in N PROVE j + 1 \in N
  <2> SUFFICES ASSUME j + 1 <= n
               PROVE  /\ IsLoad(p[j + 1])
                      /\ Agrees(c, p[j + 1]) =>
                           Agrees(c, p[0]) /\ q[j + 1] = With(p[j + 1], c)
    OBVIOUS
  <2>1. j + 1 \in 1 .. n /\ (j + 1) - 1 = j /\ j <= n
    OBVIOUS
  <2>2. /\ IsLoad(p[j])
        /\ Agrees(c, p[j]) => Agrees(c, p[0]) /\ q[j] = With(p[j], c)
    BY <1>2, <2>1
  <2>3. IsLoad(p[j]) =>
           /\ IsLoad(p[j + 1])
           /\ Agrees(c, p[j + 1]) =>
                /\ Agrees(c, p[j])
                /\ q[j] = With(p[j], c) => q[j + 1] = With(p[j + 1], c)
    BY <2>1
  <2> QED BY <2>2, <2>3
<1>3. Nat \subseteq N
  <2> HIDE DEF N
  <2> QED BY <1>1, <1>2, SetInduction
<1> QED BY <1>3

LEMMA FileStable ==
  ASSUME NEW l, IsLoad(l), NEW file, NEW n \in Nat, DOMAIN file = 1 .. n,
         NEW m, m = LoadFile(l, file), NEW c
  PROVE  /\ IsLoad(m)
         /\ Agrees(c, m) => Agrees(c, l) /\ LoadFile(With(l, c), file) = With(m, c)
<1>1. PICK s : s = ByPriority(file)
  OBVIOUS
<1>2. PICK p : /\ p[0] = l /\ p[n] = m
               /\ \A k \in 1 .. n : p[k] = LoadRule(p[k - 1], s[k])
  BY <1>1, FileRuns
<1>w. PICK w : w = With(l, c)
  OBVIOUS
<1>3. PICK q : /\ q[0] = w /\ q[n] = LoadFile(w, file)
               /\ \A k \in 1 .. n : q[k] = LoadRule(q[k - 1], s[k])
  BY <1>1, FileRuns
<1>4. ASSUME NEW k \in 1 .. n, IsLoad(p[k - 1])
      PROVE  /\ IsLoad(p[k])
             /\ Agrees(c, p[k]) =>
                  /\ Agrees(c, p[k - 1])
                  /\ q[k - 1] = With(p[k - 1], c) => q[k] = With(p[k], c)
  <2>1. p[k] = LoadRule(p[k - 1], s[k]) /\ q[k] = LoadRule(q[k - 1], s[k])
    BY <1>2, <1>3
  <2>2. PICK a, b, r : a = p[k - 1] /\ b = p[k] /\ r = s[k]
    OBVIOUS
  <2>3. /\ IsLoad(b)
        /\ Agrees(c, b) => Agrees(c, a) /\ LoadRule(With(a, c), r) = With(b, c)
    BY ONLY <1>4, <2>1, <2>2, RuleStable
  <2> QED BY ONLY <2>1, <2>2, <2>3
<1>5. IsLoad(p[0]) /\ q[0] = With(p[0], c)
  BY <1>2, <1>3, <1>w
<1>6. /\ IsLoad(p[n])
      /\ Agrees(c, p[n]) => Agrees(c, p[0]) /\ q[n] = With(p[n], c)
  BY ONLY <1>4, <1>5, n \in Nat, WayStable
<1> QED BY <1>2, <1>3, <1>w, <1>6
-----------------------------------------------------------------------------
(* All rule files, one after the other. *)
AllStep(files, c, D, g) ==
  [t \in D |-> IF t = {} THEN NewLoad(c)
               ELSE ReadFile(g[t \ {Max(t)}], files[RuleFiles[Max(t)]])]

LEMMA AllFold ==
  ASSUME NEW files, NEW c, NEW n \in Nat, DOMAIN RuleFiles = 1 .. n
  PROVE  LoadAll(files, c) =
           (CHOOSE g : g = AllStep(files, c, SUBSET (1 .. n), g))[1 .. n]
BY DEF LoadAll, FoldLeft, MapThenFoldSet, AllStep

LEMMA AllStepExists ==
  ASSUME NEW files, NEW c, NEW n \in Nat
  PROVE  \E g : g = AllStep(files, c, SUBSET (1 .. n), g)
<1> DEFINE N == {k \in Nat : \E g : g = AllStep(files, c, SUBSET (1 .. k), g)}
<1>1. 0 \in N
  <2> DEFINE g == [t \in SUBSET (1 .. 0) |-> NewLoad(c)]
  <2>1. \A t \in SUBSET (1 .. 0) : t = {}
    OBVIOUS
  <2>2. g = AllStep(files, c, SUBSET (1 .. 0), g)
    BY <2>1 DEF AllStep
  <2> QED BY <2>2
<1>2. ASSUME NEW k \in Nat, k \in N PROVE k + 1 \in N
  <2>1. PICK g : g = AllStep(files, c, SUBSET (1 .. k), g)
    BY <1>2
  <2>2. PICK h : h = AllStep(files, c, SUBSET (1 .. (k + 1)), g)
    OBVIOUS
  <2>3. ASSUME NEW t \in SUBSET (1 .. (k + 1)), t # {}
        PROVE  h[t \ {Max(t)}] = g[t \ {Max(t)}]
    <3>1. PICK u : u = t \ {Max(t)}
      OBVIOUS
    <3>2. u \in SUBSET (1 .. k) /\ u \in SUBSET (1 .. (k + 1))
      BY <2>3, <3>1, WithoutMax
    <3>3. h[u] = IF u = {} THEN NewLoad(c)
                 ELSE ReadFile(g[u \ {Max(u)}], files[RuleFiles[Max(u)]])
      BY <2>2, <3>2 DEF AllStep
    <3>4. AllStep(files, c, SUBSET (1 .. k), g)[u]
            = IF u = {} THEN NewLoad(c)
              ELSE ReadFile(g[u \ {Max(u)}], files[RuleFiles[Max(u)]])
      BY <3>2 DEF AllStep
    <3> QED BY <2>1, <3>1, <3>3, <3>4
  <2>4. h = AllStep(files, c, SUBSET (1 .. (k + 1)), h)
    BY <2>2, <2>3 DEF AllStep
  <2> QED BY <2>4
<1>3. Nat \subseteq N
  <2> HIDE DEF N
  <2> QED BY <1>1, <1>2, SetInduction
<1> QED BY <1>3

(* The load of the first k rule files. *)
Loaded(files, c) ==
  LET load[k \in 0 .. Len(RuleFiles)] ==
        IF k = 0 THEN NewLoad(c) ELSE ReadFile(load[k - 1], files[RuleFiles[k]])
  IN  load

LEMMA RuleFilesAre ==
  /\ Len(RuleFiles) \in Nat /\ DOMAIN RuleFiles = 1 .. Len(RuleFiles)
  /\ \A k \in 1 .. Len(RuleFiles) : RuleFiles[k] \in RuleFile
BY ReloadAssumption

LEMMA LoadedIs ==
  ASSUME NEW files, NEW c
  PROVE  /\ Loaded(files, c)[0] = NewLoad(c)
         /\ \A k \in 1 .. Len(RuleFiles) :
              Loaded(files, c)[k] = ReadFile(Loaded(files, c)[k - 1], files[RuleFiles[k]])
         /\ Loaded(files, c)[Len(RuleFiles)] = LoadAll(files, c)
<1>n. PICK n \in Nat : n = Len(RuleFiles)
  BY RuleFilesAre
<1>3. PICK g : g = CHOOSE h : h = AllStep(files, c, SUBSET (1 .. n), h)
  OBVIOUS
<1>4. g = AllStep(files, c, SUBSET (1 .. n), g)
  BY <1>3, AllStepExists
<1>5. \A t \in SUBSET (1 .. n) :
        g[t] = IF t = {} THEN NewLoad(c)
               ELSE ReadFile(g[t \ {Max(t)}], files[RuleFiles[Max(t)]])
  <2> SUFFICES ASSUME NEW t \in SUBSET (1 .. n)
               PROVE  g[t] = IF t = {} THEN NewLoad(c)
                             ELSE ReadFile(g[t \ {Max(t)}], files[RuleFiles[Max(t)]])
    OBVIOUS
  <2>1. AllStep(files, c, SUBSET (1 .. n), g)[t]
          = IF t = {} THEN NewLoad(c)
            ELSE ReadFile(g[t \ {Max(t)}], files[RuleFiles[Max(t)]])
    BY DEF AllStep
  <2> QED BY <1>4, <2>1
<1>6. PICK p : p = [k \in 0 .. n |-> g[1 .. k]]
  OBVIOUS
<1>7. p[0] = NewLoad(c)
  <2>1. 1 .. 0 = {} /\ 1 .. 0 \in SUBSET (1 .. n) /\ 0 \in 0 .. n
    OBVIOUS
  <2>2. g[1 .. 0] = NewLoad(c)
    BY <1>5, <2>1
  <2> QED BY <1>6, <2>1, <2>2
<1>8. ASSUME NEW k \in 1 .. n PROVE p[k] = ReadFile(p[k - 1], files[RuleFiles[k]])
  <2>1. /\ 1 .. k \in SUBSET (1 .. n) /\ 1 .. k # {} /\ Max(1 .. k) = k
        /\ (1 .. k) \ {k} = 1 .. (k - 1) /\ k \in 0 .. n /\ k - 1 \in 0 .. n
    <3>1. k \in Nat /\ k # 0
      OBVIOUS
    <3>2. /\ 1 .. k # {} /\ Max(1 .. k) = k /\ (1 .. k) \ {k} = 1 .. (k - 1)
      BY ONLY <3>1, MaxUpTo
    <3> QED BY <3>1, <3>2
  <2>2. g[1 .. k] = ReadFile(g[(1 .. k) \ {Max(1 .. k)}], files[RuleFiles[Max(1 .. k)]])
    BY <1>5, <2>1
  <2>3. g[1 .. k] = ReadFile(g[1 .. (k - 1)], files[RuleFiles[k]])
    BY <2>1, <2>2
  <2>4. p[k] = g[1 .. k] /\ p[k - 1] = g[1 .. (k - 1)]
    BY <1>6, <2>1
  <2> QED BY <2>3, <2>4
<1>9. p[n] = LoadAll(files, c)
  <2>1. LoadAll(files, c) = g[1 .. n]
    BY <1>n, <1>3, RuleFilesAre, AllFold
  <2> QED BY <1>6, <2>1
<1>10. p = [k \in 0 .. n |->
              IF k = 0 THEN NewLoad(c) ELSE ReadFile(p[k - 1], files[RuleFiles[k]])]
  <2>1. \A k \in 0 .. n : k # 0 => k \in 1 .. n
    OBVIOUS
  <2>2. \A k \in 0 .. n :
          p[k] = IF k = 0 THEN NewLoad(c) ELSE ReadFile(p[k - 1], files[RuleFiles[k]])
    BY <1>7, <1>8, <2>1
  <2>3. p = [k \in 0 .. n |-> p[k]]
    BY <1>6
  <2> QED BY <2>2, <2>3
<1>11. PICK q : q = CHOOSE h : h = [k \in 0 .. n |->
                  IF k = 0 THEN NewLoad(c) ELSE ReadFile(h[k - 1], files[RuleFiles[k]])]
  OBVIOUS
<1>12. q = [k \in 0 .. n |->
              IF k = 0 THEN NewLoad(c) ELSE ReadFile(q[k - 1], files[RuleFiles[k]])]
  BY <1>10, <1>11
<1>13. /\ q[0] = NewLoad(c)
       /\ \A k \in 1 .. n : q[k] = ReadFile(q[k - 1], files[RuleFiles[k]])
  BY <1>12
<1>14. q[n] = p[n]
  <2> DEFINE N == {k \in Nat : k <= n => q[k] = p[k]}
  <2>1. 0 \in N
    BY <1>7, <1>13
  <2>2. ASSUME NEW k \in Nat, k \in N PROVE k + 1 \in N
    <3> SUFFICES ASSUME k + 1 <= n PROVE q[k + 1] = p[k + 1]
      OBVIOUS
    <3>1. k + 1 \in 1 .. n /\ (k + 1) - 1 = k /\ k <= n
      OBVIOUS
    <3>2. q[k] = p[k]
      BY <2>2, <3>1
    <3> QED BY <1>8, <1>13, <3>1, <3>2
  <2>3. Nat \subseteq N
    <3> HIDE DEF N
    <3> QED BY <2>1, <2>2, SetInduction
  <2> QED BY <2>3
<1>15. Loaded(files, c) = q
  BY <1>n, <1>11 DEF Loaded
<1> QED BY <1>n, <1>9, <1>13, <1>14, <1>15

LEMMA ReadStable ==
  ASSUME NEW l, IsLoad(l), NEW content \in Absent \cup RuleContent,
         NEW m, m = ReadFile(l, content), NEW c
  PROVE  /\ IsLoad(m)
         /\ Agrees(c, m) => Agrees(c, l) /\ ReadFile(With(l, c), content) = With(m, c)
<1>1. CASE content \in Absent
  BY <1>1 DEF ReadFile
<1>2. CASE content \notin Absent
  <2>1. PICK n \in Nat : DOMAIN content = 1 .. n
    BY <1>2, ReloadAssumption
  <2>2. m = LoadFile(l, content) /\ ReadFile(With(l, c), content) = LoadFile(With(l, c), content)
    BY <1>2 DEF ReadFile
  <2> QED BY <2>1, <2>2, FileStable
<1> QED BY <1>1, <1>2

(* What the files hold. *)
Readable(files) == \A p \in RuleFile : files[p] \in Absent \cup RuleContent

(* A load of the first files is the same with the cache that it leaves.    *)
LEMMA LoadedStable ==
  ASSUME NEW files, Readable(files), NEW d, IsCache(d),
         NEW n \in Nat, n <= Len(RuleFiles),
         NEW m, m = Loaded(files, d)[n], NEW c, c = m.cache
  PROVE  IsLoad(m) /\ Loaded(files, c)[n] = m
<1>0. PICK p, q : p = Loaded(files, d) /\ q = Loaded(files, c)
  OBVIOUS
<1>1. p[0] = NewLoad(d) /\ q[0] = NewLoad(c)
  BY <1>0, LoadedIs
<1>2. \A k \in 1 .. n : /\ p[k] = ReadFile(p[k - 1], files[RuleFiles[k]])
                       /\ q[k] = ReadFile(q[k - 1], files[RuleFiles[k]])
  BY <1>0, LoadedIs, RuleFilesAre
<1>3. IsLoad(p[0])
  BY <1>1, NewIsLoad
<1>4. q[0] = With(p[0], c)
  BY <1>1 DEF With, NewLoad
<1>5. ASSUME NEW k \in 1 .. n, IsLoad(p[k - 1])
      PROVE  /\ IsLoad(p[k])
             /\ Agrees(c, p[k]) =>
                  /\ Agrees(c, p[k - 1])
                  /\ q[k - 1] = With(p[k - 1], c) => q[k] = With(p[k], c)
  <2>1. /\ p[k] = ReadFile(p[k - 1], files[RuleFiles[k]])
        /\ q[k] = ReadFile(q[k - 1], files[RuleFiles[k]])
    BY <1>2
  <2>2. PICK a, b, content : a = p[k - 1] /\ b = p[k] /\ content = files[RuleFiles[k]]
    OBVIOUS
  <2>3. content \in Absent \cup RuleContent
    BY <2>2, RuleFilesAre DEF Readable
  <2>4. /\ IsLoad(b)
        /\ Agrees(c, b) => Agrees(c, a) /\ ReadFile(With(a, c), content) = With(b, c)
    BY ONLY <1>5, <2>1, <2>2, <2>3, ReadStable
  <2> QED BY ONLY <2>1, <2>2, <2>4
<1>6. /\ IsLoad(p[n])
      /\ Agrees(c, p[n]) => Agrees(c, p[0]) /\ q[n] = With(p[n], c)
  BY ONLY <1>3, <1>4, <1>5, n \in Nat, WayStable
<1>7. p[n] = m
  BY <1>0
<1>8. Agrees(c, m) /\ With(m, c) = m
  BY <1>6, <1>7, AgreesItself
<1> QED BY <1>0, <1>6, <1>7, <1>8
-----------------------------------------------------------------------------
(* m.mu is held by whoever loads rules. *)
LoadingInv ==
  /\ Readable(disk) /\ IsCache(cache) /\ DOMAIN loading = Path
  /\ \A w \in Path : pc[w] = "load" =>
       lock = w /\ loading[w].next \in 1 .. Len(RuleFiles) + 1

(* What has been loaded is what the files that were read say now. *)
UpToDate(w) ==
  /\ pc[w] = "load"
  /\ Loaded(disk, cache)[loading[w].next - 1] =
       [rules |-> loading[w].rules, ids |-> loading[w].ids, cache |-> cache]

RulesOnTheirWay ==
  \/ \E p \in RuleFile : pending[p] > 0
  \/ \E w \in Path : pc[w] = "lock" \/ UpToDate(w)

RulesInForce ==
  /\ rules = LoadAll(disk, cache).rules
  /\ \A w \in Path : pc[w] # "load"

(* The last versions of the rule files are in force, are being loaded, or  *)
(* will be loaded.                                                         *)
RulesInv == (shutdown = "no" /\ NoneMissed) => RulesOnTheirWay \/ RulesInForce

LEMMA LoadedSame ==
  ASSUME NEW files, NEW other, \A p \in RuleFile : other[p] = files[p], NEW c
  PROVE  /\ \A k \in 0 .. Len(RuleFiles) : Loaded(other, c)[k] = Loaded(files, c)[k]
         /\ LoadAll(other, c) = LoadAll(files, c)
<1>n. PICK n \in Nat : n = Len(RuleFiles)
  BY RuleFilesAre
<1>0. PICK p, q : p = Loaded(files, c) /\ q = Loaded(other, c)
  OBVIOUS
<1>1. /\ p[0] = NewLoad(c) /\ q[0] = NewLoad(c)
      /\ p[n] = LoadAll(files, c) /\ q[n] = LoadAll(other, c)
  BY <1>n, <1>0, LoadedIs
<1>2. \A k \in 1 .. n : /\ p[k] = ReadFile(p[k - 1], files[RuleFiles[k]])
                       /\ q[k] = ReadFile(q[k - 1], other[RuleFiles[k]])
  BY <1>n, <1>0, LoadedIs
<1>3. \A k \in 1 .. n : other[RuleFiles[k]] = files[RuleFiles[k]]
  BY <1>n, RuleFilesAre
<1> DEFINE N == {k \in Nat : k <= n => q[k] = p[k]}
<1>4. 0 \in N
  BY <1>1
<1>5. ASSUME NEW k \in Nat, k \in N PROVE k + 1 \in N
  <2> SUFFICES ASSUME k + 1 <= n PROVE q[k + 1] = p[k + 1]
    OBVIOUS
  <2>1. k + 1 \in 1 .. n /\ (k + 1) - 1 = k /\ k <= n
    OBVIOUS
  <2>2. q[k] = p[k]
    BY <1>5, <2>1
  <2> QED BY <1>2, <1>3, <2>1, <2>2
<1>6. Nat \subseteq N
  <2> HIDE DEF N
  <2> QED BY <1>4, <1>5, SetInduction
<1>7. \A k \in 0 .. n : q[k] = p[k]
  BY <1>6
<1> QED BY <1>n, <1>0, <1>1, <1>7

LEMMA InitRules == Init => LoadingInv /\ RulesInv
<1> SUFFICES ASSUME Init PROVE LoadingInv /\ RulesInv
  OBVIOUS
<1>1. PICK n \in Nat : n = Len(RuleFiles)
  BY RuleFilesAre
<1>2. PICK m : m = LoadAll(disk, NoCache)
  OBVIOUS
<1>3. disk \in FirstDisk /\ rules = m.rules /\ cache = m.cache
  BY <1>2 DEF Init
<1>4. Readable(disk)
  <2>1. \A p \in RuleFile : p \in Path /\ disk[p] \in ContentOf(p)
    BY <1>3, ReloadAssumption DEF Path
  <2> QED BY <2>1 DEF Readable, ContentOf
<1>5. IsCache(NoCache)
  BY DEF IsCache, NoCache
<1>6. IsLoad(m) /\ LoadAll(disk, cache) = m
  <2>1. m = Loaded(disk, NoCache)[n]
    BY <1>1, <1>2, LoadedIs
  <2>2. n <= Len(RuleFiles) /\ n \in Nat
    BY <1>1
  <2>3. IsLoad(m) /\ Loaded(disk, m.cache)[n] = m
    BY ONLY <1>3, <1>4, <1>5, <2>1, <2>2, LoadedStable
  <2>4. Loaded(disk, m.cache)[n] = LoadAll(disk, m.cache)
    BY <1>1, LoadedIs
  <2> QED BY <1>3, <2>3, <2>4
<1>7. \A w \in Path : pc[w] = "new"
  BY DEF Init
<1>8. LoadingInv
  BY <1>3, <1>4, <1>6, <1>7 DEF Init, LoadingInv, IsLoad
<1>9. RulesInForce
  BY <1>3, <1>6, <1>7 DEF RulesInForce
<1> QED BY <1>8, <1>9 DEF RulesInv

(* Who is not loading does not begin to, and no file is read. *)
LEMMA LoadingKept ==
  ASSUME LoadingInv, UNCHANGED <<disk, cache, lock, loading>>,
         \A v \in Path : pc'[v] = "load" => pc[v] = "load"
  PROVE  LoadingInv'
BY DEF LoadingInv, Readable, IsCache

LEMMA OtherSteps ==
  ASSUME ReloadTypeOK, TargetInv, NEW w \in Path,
         StartWatcher(w) \/ TakeEvent(w) \/ BuildList(w) \/ SwapList(w) \/ StopWatcher(w)
  PROVE  /\ UNCHANGED <<disk, rules, cache, lock, loading, shutdown, missed>>
         /\ \A v \in Path : /\ pc'[v] = "load" <=> pc[v] = "load"
                            /\ pc[v] = "lock" => pc'[v] = "lock"
<1> USE DEF ReloadTypeOK
<1>1. CASE StartWatcher(w)
  BY <1>1 DEF StartWatcher, config, local, past
<1>2. CASE TakeEvent(w)
  BY <1>2 DEF TakeEvent, config, past
<1>3. CASE BuildList(w)
  BY <1>3 DEF BuildList, config
<1>4. CASE SwapList(w)
  <2>0. target[w] \in {"ip", "dns", "white"}
    BY <1>4 DEF SwapList, TargetInv, Blacklist
  <2> QED BY <1>4, <2>0 DEF SwapList
<1>5. CASE StopWatcher(w)
  BY <1>5 DEF StopWatcher, config, local, past
<1> QED BY <1>1, <1>2, <1>3, <1>4, <1>5

LEMMA LoadingStep == ReloadTypeOK /\ TargetInv /\ LoadingInv /\ [Next]_vars => LoadingInv'
<1> SUFFICES ASSUME ReloadTypeOK, TargetInv, LoadingInv, [Next]_vars PROVE LoadingInv'
  OBVIOUS
<1>1. ASSUME NEW p \in Path, Edit(p) PROVE LoadingInv'
  <2>1. PICK content \in ContentOf(p) : disk' = [disk EXCEPT ![p] = content]
    BY <1>1 DEF Edit
  <2>2. Readable(disk')
    <3> SUFFICES ASSUME NEW q \in RuleFile PROVE disk'[q] \in Absent \cup RuleContent
      BY DEF Readable
    <3>1. q \in Path /\ DOMAIN disk = Path /\ disk[q] \in Absent \cup RuleContent
      BY ListPaths DEF ReloadTypeOK, LoadingInv, Readable
    <3> QED BY <2>1, <3>1 DEF ContentOf
  <2>3. UNCHANGED <<cache, lock, pc, loading>>
    BY <1>1 DEF Edit, config, local
  <2> QED BY <2>2, <2>3 DEF LoadingInv, IsCache
<1>2. ASSUME NEW w \in Path,
             StartWatcher(w) \/ TakeEvent(w) \/ BuildList(w) \/ SwapList(w) \/ StopWatcher(w)
      PROVE  LoadingInv'
  <2>1. /\ UNCHANGED <<disk, cache, lock, loading>>
        /\ \A v \in Path : pc'[v] = "load" => pc[v] = "load"
    BY <1>2, OtherSteps
  <2> QED BY <2>1, LoadingKept
<1>3. ASSUME NEW w \in Path, BeginLoad(w) PROVE LoadingInv'
  <2>1. /\ UNCHANGED <<disk, cache>> /\ lock = Free /\ lock' = w
        /\ loading' = [loading EXCEPT ![w] = [rules |-> <<>>, ids |-> {}, next |-> 1]]
        /\ pc' = [pc EXCEPT ![w] = "load"]
    BY <1>3 DEF BeginLoad, config
  <2>2. \A v \in Path : pc[v] # "load"
    BY <2>1, ReloadAssumption DEF LoadingInv
  <2>3. \A v \in Path : pc'[v] = "load" => v = w
    BY <2>1, <2>2 DEF ReloadTypeOK
  <2>4. loading'[w].next = 1 /\ DOMAIN loading' = Path
    BY <2>1 DEF LoadingInv
  <2>5. 1 \in 1 .. Len(RuleFiles) + 1
    BY RuleFilesAre
  <2> QED BY <2>1, <2>3, <2>4, <2>5 DEF LoadingInv, Readable, IsCache
<1>4. ASSUME NEW w \in Path, LoadRuleFile(w) PROVE LoadingInv'
  <2>1. PICK n : n = loading[w].next
    OBVIOUS
  <2>2. PICK l : l = [rules |-> loading[w].rules, ids |-> loading[w].ids, cache |-> cache]
    OBVIOUS
  <2>3. PICK content : content = disk[RuleFiles[n]]
    OBVIOUS
  <2>4. PICK m : m = ReadFile(l, content)
    OBVIOUS
  <2>5. /\ pc[w] = "load" /\ n <= Len(RuleFiles) /\ cache' = m.cache
        /\ loading' = [loading EXCEPT ![w] = [rules |-> m.rules, ids |-> m.ids, next |-> @.next + 1]]
        /\ UNCHANGED <<disk, lock, pc>>
    BY <1>4, <2>1, <2>2, <2>3, <2>4 DEF LoadRuleFile
  <2>6. n \in 1 .. Len(RuleFiles) + 1
    BY <2>1, <2>5 DEF LoadingInv
  <2>7. n \in 1 .. Len(RuleFiles) /\ n + 1 \in 1 .. Len(RuleFiles) + 1
    BY <2>5, <2>6, RuleFilesAre
  <2>8. content \in Absent \cup RuleContent
    BY <2>3, <2>7, RuleFilesAre DEF LoadingInv, Readable
  <2>9. IsLoad(l)
    BY <2>2 DEF IsLoad, LoadingInv
  <2>10. IsLoad(m)
    BY ONLY <2>4, <2>8, <2>9, ReadStable
  <2>11. IsCache(cache')
    BY <2>5, <2>10 DEF IsLoad
  <2>12. /\ DOMAIN loading' = Path /\ loading'[w].next = n + 1
         /\ \A v \in Path : v # w => loading'[v] = loading[v]
    BY <2>1, <2>5 DEF LoadingInv
  <2>13. Readable(disk')
    BY <2>5 DEF LoadingInv
  <2> QED BY <2>5, <2>7, <2>11, <2>12, <2>13 DEF LoadingInv, IsCache
<1>5. ASSUME NEW w \in Path, SwapRules(w) PROVE LoadingInv'
  <2>1. /\ UNCHANGED <<disk, cache>> /\ pc[w] = "load"
        /\ loading' = [loading EXCEPT ![w] = [rules |-> <<>>, ids |-> {}, next |-> 1]]
        /\ pc' = [pc EXCEPT ![w] = "idle"]
    BY <1>5 DEF SwapRules
  <2>2. \A v \in Path : pc[v] = "load" => v = w
    BY <2>1 DEF LoadingInv
  <2>3. \A v \in Path : pc'[v] # "load"
    BY <2>1, <2>2 DEF ReloadTypeOK
  <2>4. DOMAIN loading' = Path
    BY <2>1 DEF LoadingInv
  <2> QED BY <2>1, <2>3, <2>4 DEF LoadingInv, Readable, IsCache
<1>6. CASE Shutdown \/ WatchersGone \/ UNCHANGED vars
  <2>1. UNCHANGED <<disk, cache, lock, loading, pc>>
    BY <1>6 DEF Shutdown, WatchersGone, vars, config, local
  <2> QED BY <2>1, LoadingKept
<1> QED BY <1>1, <1>2, <1>3, <1>4, <1>5, <1>6 DEF Next, Watcher

(* Nothing that the rules depend on changes but the place of a watcher.    *)
LEMMA RulesKept ==
  ASSUME RulesInv, UNCHANGED <<disk, rules, cache, loading, shutdown, missed>>,
         \A p \in RuleFile : pending'[p] = pending[p],
         \A v \in Path : /\ pc'[v] = "load" <=> pc[v] = "load"
                         /\ pc[v] = "lock" => pc'[v] = "lock"
  PROVE  RulesInv'
<1>1. RulesOnTheirWay => RulesOnTheirWay'
  BY DEF RulesOnTheirWay, UpToDate, Loaded
<1>2. RulesInForce => RulesInForce'
  BY DEF RulesInForce
<1>3. shutdown' = "no" /\ NoneMissed' => shutdown = "no" /\ NoneMissed
  BY DEF NoneMissed
<1> QED BY <1>1, <1>2, <1>3 DEF RulesInv

LEMMA EditRules ==
  ASSUME ReloadTypeOK, LoadingInv, RulesInv, NEW p \in Path, Edit(p)
  PROVE  RulesInv'
<1>1. PICK content \in ContentOf(p) :
        LET noticed == Running(p) /\ content # Missing
        IN  /\ disk' = [disk EXCEPT ![p] = content]
            /\ pending' = [pending EXCEPT ![p] = IF noticed THEN @ + 1 ELSE @]
            /\ missed' = [missed EXCEPT ![p] = ~noticed]
  BY DEF Edit
<1>2. UNCHANGED <<rules, cache, loading, pc, shutdown>>
  BY DEF Edit, config, local
<1>3. /\ DOMAIN disk = Path /\ \A q \in Path : pending[q] \in Nat
      /\ missed \in [Path -> BOOLEAN] /\ pending \in [Path -> Nat]
      /\ RuleFile \subseteq Path
  BY ListPaths DEF ReloadTypeOK
<1>4. CASE p \in RuleFile /\ Running(p) /\ content # Missing
  <2>1. pending'[p] = pending[p] + 1
    BY <1>1, <1>3, <1>4
  <2>2. pending'[p] > 0
    BY <1>3, <2>1
  <2> QED BY <1>4, <2>2 DEF RulesInv, RulesOnTheirWay
<1>5. CASE p \in RuleFile /\ ~(Running(p) /\ content # Missing)
  <2>1. missed'[p] = TRUE
    BY <1>1, <1>3, <1>5
  <2> QED BY <1>5, <2>1 DEF RulesInv, NoneMissed
<1>6. CASE p \notin RuleFile
  <2>1. \A q \in RuleFile : q # p /\ q \in Path
    BY <1>3, <1>6
  <2>2. \A q \in RuleFile : disk'[q] = disk[q]
    BY <1>1, <1>3, <2>1
  <2>3. \A q \in RuleFile : missed'[q] = missed[q]
    BY <1>1, <1>3, <2>1
  <2>4. \A q \in RuleFile : pending'[q] = pending[q]
    BY <1>1, <1>3, <2>1
  <2>5. /\ \A k \in 0 .. Len(RuleFiles) : Loaded(disk', cache)[k] = Loaded(disk, cache)[k]
        /\ LoadAll(disk', cache) = LoadAll(disk, cache)
    BY <2>2, LoadedSame
  <2>6. LoadAll(disk', cache').rules = LoadAll(disk, cache).rules
    <3>1. LoadAll(disk', cache') = LoadAll(disk', cache)
      BY <1>2
    <3> QED BY <2>5, <3>1
  <2>7. ASSUME NEW w \in Path, UpToDate(w) PROVE UpToDate(w)'
    <3>1. PICK k \in 0 .. Len(RuleFiles) : k = loading[w].next - 1
      <4>1. loading[w].next \in 1 .. Len(RuleFiles) + 1
        BY <2>7 DEF UpToDate, LoadingInv
      <4> QED BY <4>1, RuleFilesAre
    <3>2. loading'[w].next - 1 = k
      BY <1>2, <3>1
    <3>3. Loaded(disk', cache')[k] = Loaded(disk', cache)[k]
      BY <1>2
    <3>4. Loaded(disk', cache)[k] = Loaded(disk, cache)[k]
      BY <2>5
    <3>5. Loaded(disk, cache)[k] =
            [rules |-> loading[w].rules, ids |-> loading[w].ids, cache |-> cache]
      BY <2>7, <3>1 DEF UpToDate
    <3>6. Loaded(disk', cache')[k] =
            [rules |-> loading'[w].rules, ids |-> loading'[w].ids, cache |-> cache']
      BY <1>2, <3>3, <3>4, <3>5
    <3> QED BY <1>2, <2>7, <3>2, <3>6 DEF UpToDate
  <2>8. RulesOnTheirWay => RulesOnTheirWay'
    BY <1>2, <2>4, <2>7 DEF RulesOnTheirWay
  <2>9. RulesInForce => RulesInForce'
    BY <1>2, <2>6 DEF RulesInForce
  <2>10. shutdown' = "no" /\ NoneMissed' => shutdown = "no" /\ NoneMissed
    BY <1>2, <2>3 DEF NoneMissed
  <2> QED BY <2>8, <2>9, <2>10 DEF RulesInv
<1> QED BY <1>4, <1>5, <1>6

LEMMA LoadFileRules ==
  ASSUME ReloadTypeOK, LoadingInv, RulesInv, NEW w \in Path, LoadRuleFile(w)
  PROVE  RulesInv'
<1>1. PICK n : n = loading[w].next
  OBVIOUS
<1>2. PICK l : l = [rules |-> loading[w].rules, ids |-> loading[w].ids, cache |-> cache]
  OBVIOUS
<1>3. PICK m : m = ReadFile(l, disk[RuleFiles[n]])
  OBVIOUS
<1>4. /\ pc[w] = "load" /\ n <= Len(RuleFiles) /\ cache' = m.cache
      /\ loading' = [loading EXCEPT ![w] = [rules |-> m.rules, ids |-> m.ids, next |-> @.next + 1]]
      /\ UNCHANGED <<disk, rules, pending, pc, shutdown, missed>>
  BY <1>1, <1>2, <1>3 DEF LoadRuleFile, past
<1>5. n \in 1 .. Len(RuleFiles) + 1 /\ DOMAIN loading = Path
  BY <1>1, <1>4 DEF LoadingInv
<1>6. n \in 1 .. Len(RuleFiles) /\ n \in Nat /\ (n + 1) - 1 = n
  BY <1>4, <1>5, RuleFilesAre
<1>7. /\ loading'[w].rules = m.rules /\ loading'[w].ids = m.ids
      /\ loading'[w].next = n + 1
  BY <1>1, <1>4, <1>5
<1>8. ASSUME UpToDate(w) PROVE UpToDate(w)'
  <2>1. Loaded(disk, cache)[n - 1] = l
    BY <1>1, <1>2, <1>8 DEF UpToDate
  <2>2. Loaded(disk, cache)[n] = m
    BY <1>3, <1>6, <2>1, LoadedIs
  <2>3. PICK c : c = m.cache
    OBVIOUS
  <2>4. Readable(disk) /\ IsCache(cache)
    BY DEF LoadingInv
  <2>5. IsLoad(m) /\ Loaded(disk, c)[n] = m
    BY ONLY <1>4, <1>6, <2>2, <2>3, <2>4, LoadedStable
  <2>6. Loaded(disk', cache')[loading'[w].next - 1] = Loaded(disk, c)[n]
    BY <1>4, <1>6, <1>7, <2>3
  <2>7. m = [rules |-> loading'[w].rules, ids |-> loading'[w].ids, cache |-> cache']
    BY <1>4, <1>7, <2>5 DEF IsLoad
  <2> QED BY <1>4, <2>5, <2>6, <2>7 DEF UpToDate
<1>9. \A v \in Path : UpToDate(v) => v = w
  BY <1>4 DEF UpToDate, LoadingInv
<1>10. RulesOnTheirWay => RulesOnTheirWay'
  BY <1>4, <1>8, <1>9 DEF RulesOnTheirWay
<1>11. ~RulesInForce
  BY <1>4 DEF RulesInForce
<1>12. shutdown' = "no" /\ NoneMissed' => shutdown = "no" /\ NoneMissed
  BY <1>4 DEF NoneMissed
<1> QED BY <1>10, <1>11, <1>12 DEF RulesInv

LEMMA SwapRulesRules ==
  ASSUME ReloadTypeOK, LoadingInv, RulesInv, NEW w \in Path, SwapRules(w)
  PROVE  RulesInv'
<1>1. /\ pc[w] = "load" /\ loading[w].next > Len(RuleFiles)
      /\ rules' = loading[w].rules /\ pc' = [pc EXCEPT ![w] = "idle"]
      /\ UNCHANGED <<disk, cache, pending, shutdown, missed>>
  BY DEF SwapRules, past
<1>2. \A v \in Path : pc[v] = "load" => v = w
  BY <1>1 DEF LoadingInv
<1>3. \A v \in Path : pc'[v] # "load"
  BY <1>1, <1>2 DEF ReloadTypeOK
<1>4. loading[w].next - 1 = Len(RuleFiles)
  <2>1. loading[w].next \in 1 .. Len(RuleFiles) + 1
    BY <1>1 DEF LoadingInv
  <2> QED BY <1>1, <2>1, RuleFilesAre
<1>5. ASSUME UpToDate(w) PROVE RulesInForce'
  <2>1. Loaded(disk, cache)[Len(RuleFiles)] =
          [rules |-> loading[w].rules, ids |-> loading[w].ids, cache |-> cache]
    BY <1>4, <1>5 DEF UpToDate
  <2>2. LoadAll(disk, cache).rules = loading[w].rules
    BY <2>1, LoadedIs
  <2>3. LoadAll(disk', cache') = LoadAll(disk, cache)
    BY <1>1
  <2> QED BY <1>1, <1>3, <2>2, <2>3 DEF RulesInForce
<1>6. ASSUME NEW v \in Path, pc[v] = "lock" PROVE pc'[v] = "lock"
  BY <1>1, <1>6 DEF ReloadTypeOK
<1>7. \A v \in Path : UpToDate(v) => v = w
  BY <1>2 DEF UpToDate
<1>8. RulesOnTheirWay => RulesOnTheirWay' \/ RulesInForce'
  BY <1>1, <1>5, <1>6, <1>7 DEF RulesOnTheirWay
<1>9. ~RulesInForce
  BY <1>1 DEF RulesInForce
<1>10. shutdown' = "no" /\ NoneMissed' => shutdown = "no" /\ NoneMissed
  BY <1>1 DEF NoneMissed
<1> QED BY <1>8, <1>9, <1>10 DEF RulesInv

LEMMA RulesStep ==
  ReloadTypeOK /\ TargetInv /\ LoadingInv /\ RulesInv /\ [Next]_vars => RulesInv'
<1> SUFFICES ASSUME ReloadTypeOK, TargetInv, LoadingInv, RulesInv, [Next]_vars
             PROVE  RulesInv'
  OBVIOUS
<1>1. ASSUME NEW w \in Path, StartWatcher(w) \/ BuildList(w) \/ SwapList(w)
      PROVE  RulesInv'
  <2>1. pending' = pending
    BY <1>1 DEF StartWatcher, BuildList, SwapList
  <2>2. /\ UNCHANGED <<disk, rules, cache, lock, loading, shutdown, missed>>
        /\ \A v \in Path : /\ pc'[v] = "load" <=> pc[v] = "load"
                           /\ pc[v] = "lock" => pc'[v] = "lock"
    BY <1>1, OtherSteps
  <2> QED BY <2>1, <2>2, RulesKept
<1>2. ASSUME NEW w \in Path, TakeEvent(w) PROVE RulesInv'
  <2>1. CASE w \in RuleFile
    <3>1. pc'[w] = "lock"
      BY <1>2, <2>1, TakeEventMoves
    <3> QED BY <3>1 DEF RulesInv, RulesOnTheirWay
  <2>2. CASE w \notin RuleFile
    <3>1. /\ UNCHANGED <<disk, rules, cache, lock, loading, shutdown, missed>>
          /\ \A v \in Path : /\ pc'[v] = "load" <=> pc[v] = "load"
                             /\ pc[v] = "lock" => pc'[v] = "lock"
      BY <1>2, OtherSteps
    <3>2. \A p \in RuleFile : p # w /\ p \in Path
      BY <2>2, ListPaths
    <3>3. \A p \in RuleFile : pending'[p] = pending[p]
      BY <1>2, <3>2 DEF TakeEvent, ReloadTypeOK
    <3> QED BY <3>1, <3>3, RulesKept
  <2> QED BY <2>1, <2>2
<1>3. ASSUME NEW w \in Path, BeginLoad(w) PROVE RulesInv'
  <2>1. /\ UNCHANGED <<disk, cache>> /\ pc' = [pc EXCEPT ![w] = "load"]
        /\ loading' = [loading EXCEPT ![w] = [rules |-> <<>>, ids |-> {}, next |-> 1]]
    BY <1>3 DEF BeginLoad, config
  <2>2. /\ pc'[w] = "load" /\ loading'[w].next - 1 = 0
        /\ loading'[w].rules = <<>> /\ loading'[w].ids = {}
    BY <2>1 DEF ReloadTypeOK, LoadingInv
  <2>3. Loaded(disk, cache)[0] = NewLoad(cache)
    BY LoadedIs
  <2>4. Loaded(disk', cache')[loading'[w].next - 1] = NewLoad(cache)
    BY <2>1, <2>2, <2>3
  <2>5. UpToDate(w)'
    BY <2>1, <2>2, <2>4 DEF UpToDate, NewLoad
  <2> QED BY <2>5 DEF RulesInv, RulesOnTheirWay
<1>4. ASSUME NEW w \in Path, StopWatcher(w) PROVE RulesInv'
  BY <1>4 DEF StopWatcher, RulesInv
<1>5. CASE Shutdown \/ WatchersGone
  BY <1>5 DEF Shutdown, WatchersGone, RulesInv
<1>6. CASE UNCHANGED vars
  <2>1. UNCHANGED <<disk, rules, cache, loading, shutdown, missed, pending, pc>>
    BY <1>6 DEF vars, config, local, past
  <2> QED BY <2>1, RulesKept
<1> QED BY <1>1, <1>2, <1>3, <1>4, <1>5, <1>6, EditRules, LoadFileRules,
           SwapRulesRules DEF Next, Watcher

(* When the watchers are at rest and no edit of a rule file went unnoticed *)
(* (one before its watcher started or of a file that has none, a removal), *)
(* the active rules are what a load of the files as they are now gives     *)
(* (rules.go, loadRules), for any number of rule files, contents and edits *)
(* and whichever files were there at first.                                *)
THEOREM RulesFollowFiles == Spec => []RulesCurrent
<1>1. Init => LoadingInv /\ RulesInv
  BY InitRules
<1>2. IInv /\ LoadingInv /\ RulesInv /\ [Next]_vars => LoadingInv' /\ RulesInv'
  BY LoadingStep, RulesStep DEF IInv, WatcherInv
<1>3. IInv /\ RulesInv => RulesCurrent
  <2> SUFFICES ASSUME IInv, RulesInv, Quiet, NoneMissed
               PROVE  rules = LoadAll(disk, cache).rules
    BY DEF RulesCurrent
  <2>1. ~RulesOnTheirWay
    <3>1. \A w \in Path : pc[w] # "lock" /\ ~UpToDate(w)
      BY DEF Quiet, UpToDate
    <3>2. \A p \in RuleFile : ~(pending[p] > 0)
      BY ListPaths DEF Quiet
    <3> QED BY <3>1, <3>2 DEF RulesOnTheirWay
  <2> QED BY <2>1 DEF RulesInv, RulesInForce, Quiet
<1> QED BY <1>1, <1>2, <1>3, Invariance, PTL DEF Spec
=============================================================================
