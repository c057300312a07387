------------------------------- MODULE Reload -------------------------------
(***************************************************************************)
(* Hot reload (caddywaf.go, rules.go, ipwhitelist.go): a file watcher for  *)
(* every configured path, the reload each of them runs, and the shutdown   *)
(* that waits for them, while an operator edits the files.                 *)
(*                                                                         *)
(* A watcher is named by its path.  The paths are the rule files and the   *)
(* three lists "ip", "dns" and "white".                                    *)
(***************************************************************************)
EXTENDS RuleLoading, FiniteSets

CONSTANTS
  RuleFiles,    (* m.RuleFiles, in order                                    *)
  RuleContent,  (* what a rule file may hold: Seq(rule)                     *)
  ListContent,  (* what a list file may hold: sets of entries               *)
  FirstDisk,    (* the disks that Provision may find and succeed with       *)
  Missing,      (* no such file                                             *)
  Broken,       (* a file that is not JSON, or cannot be read or parsed     *)
  Free,         (* m.mu is not held                                         *)
  MaxEdits      (* bound: how often a file is changed                       *)

RuleFile  == ToSet(RuleFiles)
Blacklist == {"ip", "dns"}
List      == Blacklist \cup {"white"}
Path      == RuleFile \cup List
Watched   == RuleFiles \o <<"ip", "dns", "white">>
Absent    == {Missing, Broken}

ContentOf(path) ==
  Absent \cup IF path \in RuleFile THEN RuleContent ELSE ListContent

(* What a reload would take from a list file, if it can load it; a missing *)
(* blacklist is an empty one, a missing whitelist an error.                *)
Loads(list, content) ==
  content # Broken /\ (list = "white" => content # Missing)

Entries(content) == IF content = Missing THEN {} ELSE content

ReadFile(load, content) ==
  IF content \in Absent THEN load ELSE LoadFile(load, content)

LoadAll(files, cache) ==
  FoldLeft(LAMBDA load, path : ReadFile(load, files[path]), NewLoad(cache), RuleFiles)

NoCache == [id \in {} |-> BadPattern]

ASSUME ReloadAssumption ==
  /\ MaxEdits \in Nat /\ Free \notin Path
  /\ RuleFiles \in Seq(RuleFile)
  /\ \A file \in RuleContent : Len(file) \in Nat /\ DOMAIN file = 1 .. Len(file)
  /\ RuleFile \cap List = {}
  /\ \A first \in FirstDisk :
       /\ DOMAIN first = Path /\ \A path \in Path : first[path] \in ContentOf(path)
       /\ \A list \in List : Loads(list, first[list])
       /\ LoadAll(first, NoCache).rules # <<>>

VARIABLES
  disk,       (* the files                                                  *)
  rules,      (* m.Rules                                                    *)
  cache,      (* m.ruleCache                                                *)
  active,     (* m.ipBlacklist, m.dnsBlacklist, m.ipWhitelist               *)
  lock,       (* the watcher that holds m.mu                                *)
  pending,    (* Write and Create events a watcher has not taken            *)
  pc,         (* where a watcher is                                         *)
  target,     (* the list it is loading                                     *)
  built,      (* the list it has built                                      *)
  loading,    (* the rules it is loading, and the next file                 *)
  shutdown,   (* Shutdown: "no", "waiting" or "done"                        *)
  edits,      (* how often a file has been changed                          *)
  missed,     (* history: the last change of a file was not noticed         *)
  overtaken,  (* history: another has swapped the list that a watcher has   *)
              (* built, since it read the file                              *)
  late,       (* history: an overtaken watcher has swapped a list last      *)
  skipped     (* history: a ReloadConfig ended at the IP blacklist, and the *)
              (* DNS blacklist has not been loaded since                    *)

local   == <<target, built, loading>>
past    == <<edits, missed, overtaken, late, skipped>>
config  == <<rules, cache, active>>
vars    == <<disk, config, lock, pending, pc, local, shutdown, past>>

Running(w) == pc[w] \notin {"new", "unwatched", "stopped"}

(* Provision has loaded every file that is there, and some rule; the       *)
(* watchers are still to be started.                                       *)
Init ==
  /\ disk \in FirstDisk
  /\ LET load == LoadAll(disk, NoCache)
     IN  rules = load.rules /\ cache = load.cache
  /\ active = [l \in List |-> Entries(disk[l])]
  /\ lock = Free
  /\ pending = [w \in Path |-> 0] /\ pc = [w \in Path |-> "new"]
  /\ target = [w \in Path |-> "none"] /\ built = [w \in Path |-> {}]
  /\ loading = [w \in Path |-> [rules |-> <<>>, ids |-> {}, next |-> 1]]
  /\ shutdown = "no" /\ edits = 0
  /\ missed = [p \in Path |-> FALSE]
  /\ overtaken = [w \in Path |-> FALSE] /\ late = [l \in List |-> FALSE]
  /\ skipped = FALSE

(* Whoever edits the files; a removal is no Write or Create event.         *)
Edit(path) ==
  /\ edits < MaxEdits /\ edits' = edits + 1
  /\ \E content \in ContentOf(path) \ {disk[path]} :
       LET noticed == Running(path) /\ content # Missing
       IN  /\ disk' = [disk EXCEPT ![path] = content]
           /\ pending' = [pending EXCEPT ![path] = IF noticed THEN @ + 1 ELSE @]
           /\ missed' = [missed EXCEPT ![path] = ~noticed]
  /\ UNCHANGED <<config, lock, pc, local, shutdown, overtaken, late, skipped>>
-----------------------------------------------------------------------------
(* Watchers. *)

(* startFileWatcher, at the end of Provision: one path after the other.  A *)
(* file that is not there at that moment is never watched.                 *)
StartWatcher(w) ==
  /\ pc[w] = "new"
  /\ \A i, j \in DOMAIN Watched :
       (i < j /\ Watched[j] = w) => pc[Watched[i]] # "new"
  /\ pc' = [pc EXCEPT ![w] = IF disk[w] = Missing THEN "unwatched" ELSE "idle"]
  /\ UNCHANGED <<disk, config, lock, pending, local, shutdown, past>>

(* The callback of the watcher: ReloadRules, ReloadConfig (which starts    *)
(* with the IP blacklist) or ReloadIPWhitelist.                            *)
TakeEvent(w) ==
  /\ pc[w] = "idle" /\ pending[w] > 0
  /\ pending' = [pending EXCEPT ![w] = @ - 1]
  /\ pc' = [pc EXCEPT ![w] = IF w \in RuleFile THEN "lock" ELSE "read"]
  /\ target' = [target EXCEPT ![w] = CASE w \in RuleFile -> "none"
                                       [] w \in Blacklist -> "ip"
                                       [] w = "white" -> "white"]
  /\ UNCHANGED <<disk, config, lock, built, loading, shutdown, past>>

(* loadIPBlacklist, loadDNSBlacklist, buildIPWhitelist: a new list is made *)
(* from the file without the lock; an error ends the reload.               *)
BuildList(w) ==
  /\ pc[w] = "read"
  /\ LET content == disk[target[w]]
     IN  \/ /\ Loads(target[w], content)
            /\ built' = [built EXCEPT ![w] = Entries(content)]
            /\ pc' = [pc EXCEPT ![w] = "swap"]
            /\ skipped' = (skipped /\ target[w] # "dns")
         \/ /\ ~Loads(target[w], content)
            /\ pc' = [pc EXCEPT ![w] = "idle"]
            /\ skipped' = (skipped \/ target[w] = "ip")
            /\ UNCHANGED built
  /\ UNCHANGED <<disk, config, lock, pending, target, loading, shutdown, edits,
                 missed, overtaken, late>>

(* What the swap of a list makes of the others that have read it.          *)
Overtakes(w) ==
  /\ late' = [late EXCEPT ![target[w]] = overtaken[w]]
  /\ overtaken' = [v \in Path |->
       v # w /\ (overtaken[v] \/ (pc[v] = "swap" /\ target[v] = target[w]))]

(* Variant: ReloadConfig goes from the IP blacklist to the rules. *)
SwapListSkipsDNS(w) ==
  /\ pc[w] = "swap" /\ lock = Free
  /\ active' = [active EXCEPT ![target[w]] = built[w]]
  /\ pc' = [pc EXCEPT ![w] = IF target[w] = "ip" THEN "lock" ELSE "idle"]
  /\ target' = [target EXCEPT ![w] = "none"]
  /\ built' = [built EXCEPT ![w] = {}]
  /\ Overtakes(w)
  /\ UNCHANGED <<disk, rules, cache, lock, pending, loading, shutdown, edits,
                 missed, skipped>>

(* The new list replaces the active one; ReloadConfig goes on with the DNS *)
(* blacklist, and then with the rules.                                     *)
SwapList(w) ==
  /\ pc[w] = "swap" /\ lock = Free
  /\ active' = [active EXCEPT ![target[w]] = built[w]]
  /\ pc' = [pc EXCEPT ![w] = CASE target[w] = "ip"    -> "read"
                               [] target[w] = "dns"   -> "lock"
                               [] target[w] = "white" -> "idle"]
  /\ target' = [target EXCEPT ![w] = IF @ = "ip" THEN "dns" ELSE "none"]
  /\ built' = [built EXCEPT ![w] = {}]
  /\ Overtakes(w)
  /\ UNCHANGED <<disk, rules, cache, lock, pending, loading, shutdown, edits,
                 missed, skipped>>

(* Variant: files are read before the lock is taken. *)
BeginLoadUnlocked(w) ==
  /\ pc[w] = "lock"
  /\ loading' = [loading EXCEPT ![w] = [rules |-> <<>>, ids |-> {}, next |-> 1]]
  /\ pc' = [pc EXCEPT ![w] = "load"]
  /\ UNCHANGED <<disk, config, lock, pending, target, built, shutdown, past>>

(* loadRules holds m.mu to its end. *)
BeginLoad(w) ==
  /\ pc[w] = "lock" /\ lock = Free
  /\ lock' = w
  /\ loading' = [loading EXCEPT ![w] = [rules |-> <<>>, ids |-> {}, next |-> 1]]
  /\ pc' = [pc EXCEPT ![w] = "load"]
  /\ UNCHANGED <<disk, config, pending, target, built, shutdown, past>>

(* One rule file; the regexes it compiles are in the cache at once.        *)
LoadRuleFile(w) ==
  /\ pc[w] = "load" /\ loading[w].next <= Len(RuleFiles)
  /\ LET load == ReadFile([rules |-> loading[w].rules, ids |-> loading[w].ids,
                           cache |-> cache],
                          disk[RuleFiles[loading[w].next]])
     IN  /\ loading' = [loading EXCEPT ![w] = [rules |-> load.rules, ids |-> load.ids,
                                               next |-> @.next + 1]]
         /\ cache' = load.cache
  /\ UNCHANGED <<disk, rules, active, lock, pending, pc, target, built, shutdown, past>>

(* Variant: the error of an empty load leaves without the unlock. *)
SwapRulesKeepsLock(w) ==
  /\ pc[w] = "load" /\ loading[w].next > Len(RuleFiles)
  /\ rules' = loading[w].rules
  /\ lock' = IF rules' = <<>> THEN lock ELSE Free
  /\ pc' = [pc EXCEPT ![w] = "idle"]
  /\ loading' = [loading EXCEPT ![w] = [rules |-> <<>>, ids |-> {}, next |-> 1]]
  /\ UNCHANGED <<disk, cache, active, pending, target, built, shutdown, past>>

(* The rules are swapped first; that none was loaded is an error after it. *)
SwapRules(w) ==
  /\ pc[w] = "load" /\ loading[w].next > Len(RuleFiles)
  /\ rules' = loading[w].rules
  /\ lock' = Free
  /\ pc' = [pc EXCEPT ![w] = "idle"]
  /\ loading' = [loading EXCEPT ![w] = [rules |-> <<>>, ids |-> {}, next |-> 1]]
  /\ UNCHANGED <<disk, cache, active, pending, target, built, shutdown, past>>

(* The context is done: select may take this before or after an event.     *)
StopWatcher(w) ==
  /\ pc[w] = "idle" /\ shutdown = "waiting"
  /\ pc' = [pc EXCEPT ![w] = "stopped"]
  /\ pending' = [pending EXCEPT ![w] = 0]
  /\ UNCHANGED <<disk, config, lock, local, shutdown, past>>

Shutdown ==
  /\ shutdown = "no" /\ \A w \in Path : pc[w] # "new"
  /\ shutdown' = "waiting"
  /\ UNCHANGED <<disk, config, lock, pending, pc, local, past>>

(* Variant: Shutdown does not wait for the watchers. *)
WatchersGoneUnchecked ==
  /\ shutdown = "waiting"
  /\ shutdown' = "done"
  /\ UNCHANGED <<disk, config, lock, pending, pc, local, past>>

(* m.watcherWG.Wait returns. *)
WatchersGone ==
  /\ shutdown = "waiting" /\ \A w \in Path : pc[w] \in {"stopped", "unwatched"}
  /\ shutdown' = "done"
  /\ UNCHANGED <<disk, config, lock, pending, pc, local, past>>

Watcher(w) ==
  \/ TakeEvent(w) \/ BuildList(w) \/ SwapList(w)
  \/ BeginLoad(w) \/ LoadRuleFile(w) \/ SwapRules(w) \/ StopWatcher(w)

Next ==
  \/ \E path \in Path : Edit(path) \/ StartWatcher(path) \/ Watcher(path)
  \/ Shutdown \/ WatchersGone

Spec == Init /\ [][Next]_vars

(* Goroutines run; edits are finitely many, so a lock that is released is  *)
(* got in the end.                                                         *)
Fairness == WF_vars(WatchersGone) /\ \A w \in Path : WF_vars(Watcher(w))

FairSpec == Spec /\ Fairness
-----------------------------------------------------------------------------
(* Every watcher that there is is up and has dealt with all its events.    *)
Quiet == /\ shutdown = "no"
         /\ \A w \in Path : pc[w] \in {"idle", "unwatched"} /\ pending[w] = 0

NoneMissed == \A p \in RuleFile : ~missed[p]

(* When the watchers are at rest the active rules are what the rule files  *)
(* say now, if they hold a rule at all, by the regexes compiled since      *)
(* Provision, whichever watchers reloaded them, in whatever order, and     *)
(* however edits fell between the reading of two files.  Except after an   *)
(* edit no watcher noticed: a removal, one before the watchers started, or *)
(* one of a file that was not there then.                                  *)
RulesCurrent ==
  LET now == LoadAll(disk, cache).rules
  IN  (Quiet /\ NoneMissed /\ now # <<>>) => rules = now

(* ... and a list is what its file says, if that can be loaded, whichever  *)
(* of two overlapping ReloadConfig calls put it there; except when it is   *)
(* one that had been overtaken, or, for the DNS blacklist, when the last   *)
(* ReloadConfig ended at the IP blacklist.                                 *)
ListsCurrent ==
  \A list \in List :
    /\ Quiet /\ ~missed[list] /\ Loads(list, disk[list])
    /\ ~late[list]
    /\ list = "dns" => ~skipped
    => active[list] = Entries(disk[list])

(* Once Shutdown has returned no watcher changes the configuration.        *)
NothingAfterShutdown == [][shutdown = "done" => UNCHANGED config]_vars

(* Whatever reloads are under way, failing ones included, and whoever      *)
(* waits for m.mu: all of them come to their end and Shutdown returns.     *)
ShutdownReturns == (shutdown = "waiting") ~> (shutdown = "done")
=============================================================================
