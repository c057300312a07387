---------------------------- MODULE FeedsProofs ----------------------------
(***************************************************************************)
(* What Feeds.cfg shows of a few pages and meetings, for any pages, lists, *)
(* rule sets, instances and sets of scripts that run: entries put in by    *)
(* hand survive the Tor updates, downloads that fail leave the WAF its     *)
(* rules, and a script that saves saves what its sources gave.             *)
(***************************************************************************)
EXTENDS Feeds, TLAPS

Place == {"off", "start", "fetch", "save", "write", "clean", "done", "killed",
          "rest", "over", "ask", "read"}

PageAt == {"asked", "writing", "none", "saved", "read", "gone"}

FeedsTypeOK ==
  /\ pc \in [Writer -> Place] /\ at \in [Writer -> Nat]
  /\ new \in Instance \cup {None}
  /\ DOMAIN got = Writer /\ DOMAIN answered = Writer /\ DOMAIN file = File
  /\ page \in [DnsRun -> [DomainUrl -> PageAt]]

LEMMA Apart ==
  /\ Instance \cap Script = {} /\ Writer = Script \cup Instance
  /\ None \notin Writer /\ First \in Instance
BY FeedsAssumption DEF Writer

(* The files of the writers. *)
Outputs ==
  /\ \A w \in {"ip"} \cup Instance : Output(w) = "ip"
  /\ \A s \in DnsRun : Output(s) = "dns"
  /\ Output("owasp") = "rules" /\ Output("spiderlabs") = "spiderlabs"
  /\ Output("vulnerability") = "vulnerability"
  /\ Output("feeds") = Resources[at["feeds"]]

LEMMA OutputsAre == Outputs /\ Outputs'
<1>1. \A s \in Script : s \notin Instance
  BY Apart
<1>2. /\ "owasp" \in Script /\ "spiderlabs" \in Script /\ "feeds" \in Script
      /\ "vulnerability" \in Script /\ DnsRun \subseteq Script
  BY DEF Script, RuleRun
<1>3. \A w \in Instance : w \notin Script
  BY <1>1
<1> QED BY <1>1, <1>2, <1>3 DEF Outputs, Output, DnsRun

(* What the server does on its own leaves the scripts where they are. *)
LEMMA ServerSteps ==
  ASSUME FeedsTypeOK, Load \/ Crash
  PROVE  /\ \A s \in Script : pc'[s] = pc[s] /\ got'[s] = got[s]
         /\ at' = at /\ tainted \subseteq tainted'
<1>1. \A s \in Script : s \in Writer /\ s \notin Instance
  BY Apart
<1> QED BY <1>1 DEF Load, Crash, ProcessEnds, script

LEMMA FeedsTypeInitial == Init => FeedsTypeOK
<1> SUFFICES ASSUME Init PROVE FeedsTypeOK
  OBVIOUS
<1>1. pc \in [Writer -> Place] /\ at \in [Writer -> Nat]
  BY DEF Init, Place
<1>2. page \in [DnsRun -> [DomainUrl -> PageAt]]
  BY DEF Init, PageAt
<1> QED BY <1>1, <1>2 DEF Init, FeedsTypeOK, Start

LEMMA FeedsTypeStep == FeedsTypeOK /\ [Next]_vars => FeedsTypeOK'
<1> SUFFICES ASSUME FeedsTypeOK, [Next]_vars PROVE FeedsTypeOK'
  OBVIOUS
<1> USE DEF FeedsTypeOK, Place
<1>1. ASSUME NEW w \in Writer, BeginWrite(w) PROVE FeedsTypeOK'
  BY <1>1 DEF BeginWrite, script, waf
<1>2. ASSUME NEW w \in Writer, EndWrite(w) PROVE FeedsTypeOK'
  BY <1>2 DEF EndWrite, After
<1>3. ASSUME NEW s \in Script, Run(s) PROVE FeedsTypeOK'
  BY <1>3 DEF Run, files, waf
<1>4. ASSUME NEW s \in Script, Kill(s) PROVE FeedsTypeOK'
  BY <1>4 DEF Kill, Ends, files, waf, Writer, PageAt
<1>5. CASE FetchIps
  BY <1>5 DEF FetchIps, Collect, files, waf, Writer, Script
<1>6. CASE FetchTorExits
  BY <1>6 DEF FetchTorExits, Collect, files, waf, Writer, Script
<1>7. ASSUME NEW s \in RuleRun, FetchRules(s) PROVE FeedsTypeOK'
  <2>1. s \in Writer
    BY DEF Writer, Script
  <2>2. at' \in [Writer -> Nat]
    BY <1>7, <2>1 DEF FetchRules, Ends
  <2>3. \/ pc' = pc
        \/ \E p \in {"done", "save"} : pc' = [pc EXCEPT ![s] = p]
    BY <1>7, <2>1 DEF FetchRules, Ends
  <2>4. DOMAIN got' = Writer /\ DOMAIN answered' = Writer
    BY <1>7, <2>1 DEF FetchRules, Ends, Collect
  <2> QED BY <1>7, <2>1, <2>2, <2>3, <2>4 DEF FetchRules, files, waf
<1>8. CASE FetchResource
  <2>1. "feeds" \in Writer
    BY DEF Writer, Script
  <2>2. at' \in [Writer -> Nat]
    BY <1>8, <2>1 DEF FetchResource, Ends
  <2>3. \/ pc' = pc
        \/ \E p \in {"done", "save"} : pc' = [pc EXCEPT !["feeds"] = p]
    BY <1>8, <2>1 DEF FetchResource, Ends
  <2>4. DOMAIN got' = Writer /\ DOMAIN answered' = Writer
    BY <1>8, <2>1 DEF FetchResource, Ends
  <2> QED BY <1>8, <2>1, <2>2, <2>3, <2>4 DEF FetchResource, files, waf
<1>9. ASSUME NEW s \in DnsRun, DownloadAndProcessAll(s) PROVE FeedsTypeOK'
  <2>1. s \in Writer
    BY DEF Writer, Script
  <2>2. CASE PoolDone(s)
    BY <2>1, <2>2 DEF PoolDone, Ends, files, waf, PageAt
  <2>3. CASE Cleanup(s)
    BY <2>1, <2>3 DEF Cleanup, files, waf
  <2>4. ASSUME NEW u \in DomainUrl,
               BeginDownload(s, u) \/ EndDownload(s, u) \/ ProcessDomainList(s, u)
        PROVE  FeedsTypeOK'
    <3>1. \E p \in PageAt : page' = [page EXCEPT ![s][u] = p]
      BY <2>4 DEF BeginDownload, EndDownload, ProcessDomainList, PageAt
    <3>2. UNCHANGED <<pc, at, new, file>> /\ DOMAIN got' = Writer /\ DOMAIN answered' = Writer
      BY <2>4 DEF BeginDownload, EndDownload, ProcessDomainList, files, waf
    <3> QED BY <3>1, <3>2
  <2>5. ASSUME NEW u \in DomainUrl, RemoveDownload(s, u) PROVE FeedsTypeOK'
    BY <2>5 DEF RemoveDownload, files, waf
  <2> QED BY <1>9, <2>2, <2>3, <2>4, <2>5 DEF DownloadAndProcessAll
<1>10. ASSUME NEW i \in Instance, Updater(i) PROVE FeedsTypeOK'
  <2>1. i \in Writer
    BY DEF Writer
  <2> QED BY <1>10, <2>1, <1>1, <1>2 DEF Updater, Tick, UpdateTorExitNodes, Asked, UpdateFails,
         ReadExisting, ScheduleUpdates, Write, script, files, waf
<1>11. ASSUME NEW i \in Instance, Provision(i) PROVE FeedsTypeOK'
  BY <1>11 DEF Provision, script, files, Writer
<1>12. CASE Load
  BY <1>12 DEF Load, ProcessEnds, script
<1>13. CASE Crash
  BY <1>13 DEF Crash, ProcessEnds, script
<1>14. ASSUME NEW f \in File, TakeEvent(f) PROVE FeedsTypeOK'
  BY <1>14 DEF TakeEvent, script
<1>15. CASE UNCHANGED vars
  BY <1>15 DEF vars, script, files, waf
<1>16. CASE Scripted
  <2>1. CASE DownloadOwaspRules \/ DownloadSpiderlabsRules
    BY <2>1, <1>7 DEF DownloadOwaspRules, DownloadSpiderlabsRules, RuleRun
  <2>2. ASSUME NEW s \in Script, Run(s) \/ Kill(s) \/ Write(s) PROVE FeedsTypeOK'
    BY <2>2, <1>1, <1>2, <1>3, <1>4 DEF Write, Writer
  <2> QED BY <1>16, <2>1, <2>2, <1>5, <1>6, <1>8, <1>9 DEF Scripted
<1> QED BY <1>10, <1>11, <1>12, <1>13, <1>14, <1>15, <1>16 DEF Next
(* Own entries: while nothing explains a loss, only updaters write the     *)
(* list; it holds them unless it is half written, and so does what an      *)
(* updater is about to write.                                              *)
OwnInv ==
  \/ "ip" \in tainted
  \/ /\ file["ip"].whole => Own \subseteq file["ip"].rows
     /\ ~file["ip"].whole => \E i \in Instance : pc[i] = "write"
     /\ \A i \in Instance : pc[i] \in {"save", "write"} => Own \subseteq got[i]
     /\ \A w \in {"ip", "feeds"} : pc[w] = "write" => Output(w) # "ip"

LEMMA OwnInitial == Init => OwnInv
BY Apart, FeedsAssumption DEF Init, OwnInv, Start, Script, File

(* What neither writes a file nor collects anything new for the updaters.  *)
LEMMA OwnFrame ==
  ASSUME OwnInv, file' = file, tainted \subseteq tainted',
         \A i \in Instance : pc[i] = "write" => pc'[i] = "write" \/ "ip" \in tainted',
         \A i \in Instance : \/ pc'[i] \notin {"save", "write"}
                             \/ pc'[i] = pc[i] /\ got'[i] = got[i],
         \A w \in {"ip", "feeds"} : pc'[w] # "write" \/ (pc'[w] = pc[w] /\ at'[w] = at[w])
  PROVE  OwnInv'
<1>1. Outputs /\ Outputs'
  BY OutputsAre
<1>2. \A w \in {"ip", "feeds"} : pc'[w] = "write" => pc[w] = "write" /\ Output(w)' = Output(w)
  BY <1>1 DEF Outputs
<1>3. (\E i \in Instance : pc[i] = "write")
         => "ip" \in tainted' \/ \E i \in Instance : pc'[i] = "write"
  OBVIOUS
<1> QED BY <1>2, <1>3 DEF OwnInv

LEMMA OwnStep == FeedsTypeOK /\ OwnInv /\ [Next]_vars => OwnInv'
<1> SUFFICES ASSUME FeedsTypeOK, OwnInv, [Next]_vars PROVE OwnInv'
  OBVIOUS
<1> USE DEF FeedsTypeOK
<1>0. Outputs /\ Outputs'
  BY OutputsAre
<1>1. ASSUME NEW w \in Writer, BeginWrite(w) PROVE OwnInv'
  <2>1. CASE Output(w) = "ip" /\ w \in {"ip", "feeds"}
    BY <1>1, <2>1 DEF BeginWrite, OwnInv, Script
  <2>2. CASE Output(w) = "ip" /\ w \notin {"ip", "feeds"}
    <3>1. ~file'["ip"].whole /\ pc' = [pc EXCEPT ![w] = "write"] /\ UNCHANGED <<got, at>>
      BY <1>1, <2>2 DEF BeginWrite, script, File
    <3>2. Output("feeds")' = Output("feeds")
      BY <3>1, <1>0 DEF Outputs
    <3>3. tainted \subseteq tainted'
      BY <1>1 DEF BeginWrite
    <3> QED BY <3>1, <3>2, <3>3, <1>0, <1>1, <2>2 DEF OwnInv, Outputs, BeginWrite, Writer
  <2>3. CASE Output(w) # "ip"
    <3>1. /\ file'["ip"] = file["ip"] /\ pc' = [pc EXCEPT ![w] = "write"]
          /\ UNCHANGED <<got, at>> /\ tainted \subseteq tainted'
      BY <1>1, <2>3 DEF BeginWrite, script, File
    <3>2. w \notin Instance
      BY <2>3, <1>0 DEF Outputs
    <3>3. Output("feeds")' = Output("feeds")
      BY <3>1, <1>0 DEF Outputs
    <3> QED BY Apart, <3>1, <3>2, <3>3, <1>0, <2>3 DEF OwnInv, Outputs, Writer
  <2> QED BY <2>1, <2>2, <2>3
<1>2. ASSUME NEW w \in Writer, EndWrite(w) PROVE OwnInv'
  <2>1. CASE Output(w) # "ip"
    <3>1. file'["ip"] = file["ip"] /\ tainted \subseteq tainted'
      BY <1>2, <2>1 DEF EndWrite, File
    <3>2. w \notin Instance
      BY <2>1, <1>0 DEF Outputs
    <3>3. After(w) # "write"
      BY DEF After
    <3>4. /\ \A v \in Writer \ {w} : pc'[v] = pc[v] /\ at'[v] = at[v] /\ got'[v] = got[v]
          /\ pc'[w] # "write"
      BY <1>2, <3>3 DEF EndWrite
    <3>5. Output("feeds")' = Output("feeds") \/ w = "feeds"
      BY <3>4, <1>0 DEF Outputs, Writer, Script
    <3> QED BY Apart, <3>1, <3>2, <3>4, <3>5, <1>0 DEF OwnInv, Outputs, Writer, Script
  <2>2. CASE Output(w) = "ip" /\ w \in shared
    BY <1>2, <2>2 DEF EndWrite, OwnInv
  <2>3. CASE Output(w) = "ip" /\ w \notin shared
    <3>1. /\ file'["ip"].rows = got[w] /\ file'["ip"].whole
          /\ tainted \subseteq tainted' /\ pc[w] = "write"
      BY <1>2, <2>3 DEF EndWrite, Left, File
    <3>2. SUFFICES ASSUME "ip" \notin tainted PROVE OwnInv'
      BY <3>1 DEF OwnInv
    <3>3. w \in Instance
      BY <3>1, <3>2, <2>3, <1>0 DEF OwnInv, Outputs, Writer, Script, RuleRun
    <3>4. file'["ip"].whole /\ Own \subseteq file'["ip"].rows
      BY <3>1, <3>2, <3>3 DEF OwnInv
    <3>5. After(w) \in {"start", "rest"}
      BY Apart, <3>3 DEF After, DnsRun
    <3>6. /\ \A v \in Writer \ {w} : pc'[v] = pc[v] /\ at'[v] = at[v] /\ got'[v] = got[v]
          /\ pc'[w] \in {"start", "rest"}
      BY <1>2, <3>5 DEF EndWrite
    <3>7. Output("feeds")' = Output("feeds")
      BY Apart, <3>6, <3>3, <1>0 DEF Outputs, Writer, Script
    <3> QED BY Apart, <3>2, <3>3, <3>4, <3>6, <3>7, <1>0 DEF OwnInv, Outputs, Writer, Script
  <2> QED BY <2>1, <2>2, <2>3
<1> DEFINE ScriptStep == /\ UNCHANGED file /\ tainted \subseteq tainted'
                         /\ \A i \in Instance : pc'[i] = pc[i] /\ got'[i] = got[i]
                         /\ \A w \in {"ip", "feeds"} : pc'[w] = "write" => UNCHANGED <<pc[w], at[w]>>
<1>3. ScriptStep => OwnInv'
  BY OwnFrame
<1>4. ASSUME NEW s \in Script, Run(s) \/ Kill(s) PROVE ScriptStep
  BY Apart, <1>4 DEF Run, Kill, Ends, files, Script, Writer, DnsRun, RuleRun
<1>5. CASE FetchIps \/ FetchTorExits
  BY Apart, <1>3, <1>5 DEF FetchIps, FetchTorExits, Collect, files, Writer, Script
<1>6. ASSUME NEW s \in RuleRun, FetchRules(s) PROVE ScriptStep
  BY Apart, <1>6 DEF FetchRules, Ends, Collect, files, Writer, Script, RuleRun
<1>7. CASE FetchResource
  BY Apart, <1>3, <1>7 DEF FetchResource, Ends, files, Writer, Script
<1>8. ASSUME NEW s \in DnsRun, DownloadAndProcessAll(s) PROVE ScriptStep
  BY Apart, <1>8 DEF DownloadAndProcessAll, PoolDone, Cleanup, BeginDownload, EndDownload, RemoveDownload,
     ProcessDomainList, Ends, files, Writer, Script, DnsRun
<1>9. ASSUME NEW i \in Instance, ReadExisting(i) PROVE OwnInv'
  BY Apart, <1>9 DEF ReadExisting, OwnInv, script, files, Writer, Script, Output
<1>10. ASSUME NEW i \in Instance, Tick(i) \/ Asked(i) \/ UpdateFails(i) \/ ScheduleUpdates(i)
       PROVE OwnInv'
  <2>1. /\ i \in Writer /\ file' = file /\ at' = at /\ tainted \subseteq tainted'
        /\ pc'[i] \notin {"save", "write"}
        /\ pc[i] = "write" => "ip" \in tainted'
        /\ \A w \in Writer \ {i} : pc'[w] = pc[w] /\ got'[w] = got[w]
    BY Apart, <1>10 DEF Tick, Asked, UpdateFails, ScheduleUpdates, script, files
  <2>2. "ip" \in Writer \ {i} /\ "feeds" \in Writer \ {i}
    BY Apart DEF Script
  <2>3. /\ \A j \in Instance : pc[j] = "write" => pc'[j] = "write" \/ "ip" \in tainted'
        /\ \A j \in Instance : \/ pc'[j] \notin {"save", "write"}
                               \/ pc'[j] = pc[j] /\ got'[j] = got[j]
    BY Apart, <2>1
  <2>4. \A w \in {"ip", "feeds"} :
           pc'[w] # "write" \/ (pc'[w] = pc[w] /\ at'[w] = at[w])
    BY <2>1, <2>2
  <2>5. file' = file /\ tainted \subseteq tainted'
    BY <2>1
  <2> QED BY <2>3, <2>4, <2>5, OwnFrame
<1>11. ASSUME NEW i \in Instance, Provision(i) PROVE OwnInv'
  BY Apart, <1>11, OwnFrame DEF Provision, script, files, Writer, Script
<1>12. CASE Load
  BY Apart, <1>12, OwnFrame DEF Load, ProcessEnds, script, Writer, Script
<1>13. CASE Crash
  BY Apart, <1>13, OwnFrame DEF Crash, ProcessEnds, script, Writer, Script
<1>14. ASSUME NEW f \in File, TakeEvent(f) PROVE OwnInv'
  BY <1>14, OwnFrame DEF TakeEvent, script
<1>15. CASE UNCHANGED vars
  BY <1>15, OwnFrame DEF vars, script, files
<1>16. CASE Scripted
  <2>1. CASE DownloadOwaspRules \/ DownloadSpiderlabsRules
    BY <2>1, <1>3, <1>6 DEF DownloadOwaspRules, DownloadSpiderlabsRules, RuleRun
  <2>2. ASSUME NEW s \in Script, Run(s) \/ Kill(s) \/ Write(s) PROVE OwnInv'
    BY <2>2, <1>1, <1>2, <1>3, <1>4 DEF Write, Writer
  <2> QED BY <1>16, <2>1, <2>2, <1>3, <1>5, <1>7, <1>8 DEF Scripted
<1>17. ASSUME NEW i \in Instance, Updater(i) PROVE OwnInv'
  BY <1>17, <1>1, <1>2, <1>9, <1>10 DEF Updater, UpdateTorExitNodes, Write, Writer
<1> QED BY <1>11, <1>12, <1>13, <1>14, <1>15, <1>16, <1>17 DEF Next

(* Entries put into the IP list by hand survive Tor updates by any set of  *)
(* instances, failed requests and reads, failed opens, reloads and crashes *)
(* outside the write, for any list and any exit nodes: until a script      *)
(* begins to replace the list, a write of it fails or is cut off after the *)
(* truncation, two writers meet, or an updater merges a half-written list. *)
THEOREM OwnEntriesAreKept == Spec => []OwnEntriesStay
<1>1. Init => FeedsTypeOK /\ OwnInv
  BY FeedsTypeInitial, OwnInitial
<1>2. FeedsTypeOK /\ OwnInv /\ [Next]_vars => (FeedsTypeOK /\ OwnInv)'
  BY FeedsTypeStep, OwnStep
<1>3. FeedsTypeOK /\ OwnInv => OwnEntriesStay
  BY Apart, OutputsAre DEF OwnInv, OwnEntriesStay, Writing, Outputs
<1> QED BY <1>1, <1>2, <1>3, PTL DEF Spec

-----------------------------------------------------------------------------
HasRules(f) == file[f].whole /\ \E rule \in file[f].rows : Valid(rule)

(* The rules of the files that a run has been through. *)
Through(s, n) == \A i \in 1 .. n : OwaspRules(Page[ConfFiles[i]]) \subseteq got[s]

(* What is about to be written holds rules. *)
RulesToWrite ==
  /\ \A s \in RuleRun :
       /\ pc[s] = "fetch" => at[s] \in 0 .. Len(ConfFiles)
       /\ pc[s] = "fetch" => Output(s) \in tainted \/ Through(s, at[s] - 1)
       /\ pc[s] \in {"save", "write"} =>
            Output(s) \in tainted \/ Through(s, Len(ConfFiles))
  /\ pc["vulnerability"] # "fetch"
  /\ pc["vulnerability"] \in {"save", "write"}
        => got["vulnerability"] = VulnerabilityRules
  /\ pc["feeds"] \in {"fetch", "save", "write"} => at["feeds"] \in 1 .. 3
  /\ pc["feeds"] \in {"save", "write"} /\ at["feeds"] = 3
       => got["feeds"] = Bundle["rules"]

(* Some rule file holds rules, or somebody writes one and will end it.     *)
RulesAreKept ==
  \/ tainted \cap RuleFile # {}
  \/ \E f \in RuleFile : HasRules(f) \/ Writing(f) # {}

(* Without an event on a rule file the rules in force are those there.     *)
RulesInForce ==
  serving # None /\ event \cap RuleFile = {} => active.rules = Rules(file)

RulesInv == RulesToWrite /\ RulesAreKept /\ RulesInForce

LEMMA VulnerabilityRulesValid == \E rule \in VulnerabilityRules : Valid(rule)
<1>1. /\ 1 \in DOMAIN Payloads /\ 0 \in 0 .. Payloads[1].patterns - 1
      /\ Payloads[1].targets # {}
  BY DEF Payloads
<1>2. PICK name : name = Payloads[1].type \o "-" \o ToString(PatternsBefore(1) + 0)
  OBVIOUS
<1>3. PICK rule : rule = [id |-> name, phase |-> 2, pattern |-> "ok",
                          targets |-> Payloads[1].targets, action |-> "block", score |-> 7]
  OBVIOUS
<1>4. rule \in VulnerabilityRules
  <2> DEFINE made(i) == {[id |-> Payloads[i].type \o "-" \o ToString(PatternsBefore(i) + k),
                          phase |-> 2, pattern |-> "ok", targets |-> Payloads[i].targets,
                          action |-> "block", score |-> 7] :
                           k \in 0 .. Payloads[i].patterns - 1}
  <2>1. rule \in made(1)
    <3>1. rule = [id |-> Payloads[1].type \o "-" \o ToString(PatternsBefore(1) + 0),
                  phase |-> 2, pattern |-> "ok", targets |-> Payloads[1].targets,
                  action |-> "block", score |-> 7]
      BY <1>2, <1>3
    <3> QED BY <1>1, <3>1, Zenon
  <2>2. VulnerabilityRules = UNION {made(i) : i \in DOMAIN Payloads}
    BY Zenon DEF VulnerabilityRules
  <2> HIDE DEF made
  <2> QED BY <1>1, <2>1, <2>2, Zenon
<1>5. Valid(rule)
  BY <1>1, <1>3 DEF Valid
<1> QED BY <1>4, <1>5

(* A rule set that a run has been through holds rules. *)
LEMMA ThroughHasRules ==
  ASSUME NEW s, Through(s, Len(ConfFiles))
  PROVE  \E rule \in got[s] : Valid(rule)
<1>1. DOMAIN ConfFiles = 1 .. Len(ConfFiles)
  BY FeedsAssumption
<1> QED BY <1>1, FeedsAssumption DEF Through

LEMMA RulesInitial == Init => RulesInv
<1> SUFFICES ASSUME Init PROVE RulesInv
  OBVIOUS
<1>1. \A w \in Writer : pc[w] \notin {"fetch", "save", "write"}
  BY DEF Init
<1>2. RulesToWrite
  BY <1>1 DEF RulesToWrite, Writer, Script, RuleRun
<1>3. \E f \in RuleFile : HasRules(f)
  BY RulesAtFirst DEF Init, Rules, HasRules
<1>4. active.rules = Rules(file)
  BY DEF Init, Loaded
<1> QED BY <1>2, <1>3, <1>4 DEF RulesInv, RulesAreKept, RulesInForce

(* Steps of others leave what a run is about to write as it is. *)
LEMMA ToWriteFrame ==
  ASSUME RulesToWrite, tainted \subseteq tainted',
         \A s \in RuleRun \cup {"vulnerability"} :
           pc'[s] = pc[s] /\ at'[s] = at[s] /\ got'[s] = got[s],
         \/ pc'["feeds"] \notin {"fetch", "save", "write"}
         \/ pc'["feeds"] = pc["feeds"] /\ at'["feeds"] = at["feeds"]
              /\ got'["feeds"] = got["feeds"]
  PROVE  RulesToWrite'
<1>1. Outputs /\ Outputs'
  BY OutputsAre
<1>2. \A s \in RuleRun : Output(s)' = Output(s)
  BY <1>1 DEF Outputs, RuleRun
<1>3. \A s \in RuleRun : \A n : Through(s, n)' <=> Through(s, n)
  BY DEF Through
<1> QED BY <1>2, <1>3 DEF RulesToWrite

LEMMA ToWriteFetch ==
  ASSUME FeedsTypeOK, RulesToWrite, NEW s \in RuleRun, FetchRules(s)
  PROVE  RulesToWrite'
<1> USE DEF FeedsTypeOK
<1>0. s \in Writer /\ s # "feeds" /\ s # "vulnerability" /\ tainted \subseteq tainted'
  BY DEF Writer, Script, RuleRun, FetchRules
<1>1. /\ \A w \in Writer \ {s} : pc'[w] = pc[w] /\ at'[w] = at[w] /\ got'[w] = got[w]
  BY <1>0 DEF FetchRules, Ends, Collect
<1>2. Outputs /\ Outputs'
  BY OutputsAre
<1>3. \A q \in RuleRun : Output(q)' = Output(q)
  BY <1>2 DEF Outputs, RuleRun
<1>5. \A q \in RuleRun \ {s} : \A n : Through(q, n)' <=> Through(q, n)
  BY <1>1 DEF Through, Writer, Script
<1>6. /\ pc[s] = "fetch" /\ at[s] \in 0 .. Len(ConfFiles) /\ Len(ConfFiles) \in Nat
      /\ Output(s) \in tainted \/ Through(s, at[s] - 1)
      /\ DOMAIN ConfFiles = 1 .. Len(ConfFiles) /\ ConfFiles # <<>>
  BY FeedsAssumption DEF FetchRules, RulesToWrite
<1>7. CASE pc'[s] = "done"
  BY <1>0, <1>1, <1>3, <1>5, <1>7 DEF RulesToWrite, Writer, Script
<1>8. CASE pc'[s] # "done"
  <2>1. at'[s] = at[s] + 1
    BY <1>0, <1>8 DEF FetchRules, Ends
  <2>2. CASE at[s] = 0
    <3>1. pc'[s] = "fetch" /\ at'[s] = 1
      BY <1>0, <1>6, <1>8, <2>1, <2>2 DEF FetchRules, Ends
    <3>2. Len(ConfFiles) >= 1
      BY <1>6, FeedsAssumption
    <3>3. Through(s, at[s] - 1)' /\ at'[s] \in 0 .. Len(ConfFiles)
      BY <1>6, <3>1, <3>2 DEF Through
    <3> QED BY <1>0, <1>1, <1>3, <1>5, <3>1, <3>3 DEF RulesToWrite, Writer, Script
  <2>3. CASE at[s] > 0
    <3>1. pc'[s] = IF at[s] = Len(ConfFiles) THEN "save" ELSE "fetch"
      BY <1>0, <1>6, <1>8, <2>3 DEF FetchRules, Ends
    <3>2. Output(s) \in tainted' \/ got'[s] = got[s] \cup OwaspRules(Page[ConfFiles[at[s]]])
      BY <1>0, <1>8, <2>3 DEF FetchRules, Ends, Collect
    <3>3. PICK n : n = at[s]
      OBVIOUS
    <3>4. n \in 1 .. Len(ConfFiles)
      BY <1>6, <2>3, <3>3
    <3>5. Through(s, n - 1) /\ got'[s] = got[s] \cup OwaspRules(Page[ConfFiles[n]])
             => Through(s, n)'
      BY <3>4 DEF Through
    <3>6. Output(s) \in tainted' \/ Through(s, n)'
      BY <1>0, <1>6, <3>2, <3>3, <3>5
    <3>7. /\ pc'[s] = "fetch" => /\ at'[s] \in 0 .. Len(ConfFiles)
                                /\ at'[s] - 1 = n
          /\ pc'[s] \in {"fetch", "save"} /\ (pc'[s] = "save" => Len(ConfFiles) = n)
      <4>1. n \in Nat /\ Len(ConfFiles) \in Nat /\ n <= Len(ConfFiles) /\ at'[s] = n + 1
        BY <1>6, <2>1, <3>3, <3>4
      <4>2. CASE n = Len(ConfFiles)
        BY <3>1, <3>3, <4>1, <4>2
      <4>3. CASE n # Len(ConfFiles)
        <5>1. pc'[s] = "fetch"
          BY <3>1, <3>3, <4>3
        <5>2. n + 1 \in 0 .. Len(ConfFiles) /\ (n + 1) - 1 = n
          BY <4>1, <4>3
        <5> QED BY <4>1, <5>1, <5>2
      <4> QED BY <4>2, <4>3
    <3>8. /\ pc'[s] = "fetch" => (Output(s) \in tainted \/ Through(s, at[s] - 1))'
          /\ pc'[s] \in {"save", "write"}
               => (Output(s) \in tainted \/ Through(s, Len(ConfFiles)))'
      BY <1>3, <3>6, <3>7
    <3>9. \A q \in RuleRun \ {s} : Output(q) \in tainted => Output(q)' \in tainted'
      BY <1>0, <1>3
    <3> QED BY <1>0, <1>1, <1>5, <3>7, <3>8, <3>9 DEF RulesToWrite, Writer, Script
  <2> QED BY <2>2, <2>3, <1>6
<1> QED BY <1>7, <1>8

LEMMA ToWriteStep == FeedsTypeOK /\ RulesToWrite /\ [Next]_vars => RulesToWrite'
<1> SUFFICES ASSUME FeedsTypeOK, RulesToWrite, [Next]_vars PROVE RulesToWrite'
  OBVIOUS
<1> USE DEF FeedsTypeOK
<1>0. Outputs /\ Outputs'
  BY OutputsAre
<1>1. ASSUME NEW w \in Writer, BeginWrite(w) PROVE RulesToWrite'
  <2>1. /\ pc[w] = "save" /\ pc' = [pc EXCEPT ![w] = "write"] /\ UNCHANGED <<at, got>>
        /\ tainted \subseteq tainted'
    BY <1>1 DEF BeginWrite, script
  <2>2. \A s \in RuleRun : Output(s)' = Output(s)
    BY <1>0 DEF Outputs, RuleRun
  <2>3. \A s \in RuleRun : \A n : Through(s, n)' <=> Through(s, n)
    BY <2>1 DEF Through
  <2> QED BY <2>1, <2>2, <2>3 DEF RulesToWrite, Writer, Script, RuleRun
<1>2. ASSUME NEW w \in Writer, EndWrite(w) PROVE RulesToWrite'
  <2>1. After(w) \notin {"save", "write"} /\ (w # "feeds" => After(w) # "fetch")
    BY DEF After
  <2>2. /\ \A v \in Writer \ {w} : pc'[v] = pc[v] /\ at'[v] = at[v] /\ got'[v] = got[v]
        /\ tainted \subseteq tainted' /\ pc'[w] = After(w)
    BY <1>2 DEF EndWrite
  <2>3. \A s \in RuleRun : Output(s)' = Output(s)
    BY <1>0 DEF Outputs, RuleRun
  <2>4. w = "feeds" /\ pc'[w] = "fetch" => at'[w] \in 1 .. 3
    BY <1>2, <2>2 DEF EndWrite, After, Resources, RulesToWrite, Script, DnsRun
  <2>5. \A s \in RuleRun \ {w} : \A n : Through(s, n)' <=> Through(s, n)
    BY <2>2 DEF Through, Writer, Script
  <2> QED BY <2>1, <2>2, <2>3, <2>4, <2>5 DEF RulesToWrite, Writer, Script, RuleRun
<1>3. ASSUME NEW s \in Script, Run(s) PROVE RulesToWrite'
  <2>1. /\ \A v \in Writer \ {s} : pc'[v] = pc[v] /\ at'[v] = at[v] /\ got'[v] = got[v]
        /\ tainted' = tainted
    BY <1>3 DEF Run
  <2>2. CASE s \notin RuleRun \cup {"vulnerability"}
    <3>1. s = "feeds" => pc'[s] = "fetch" /\ at'[s] = 1
      BY <1>3 DEF Run, Writer, RuleRun
    <3>2. \A q \in RuleRun : Output(q)' = Output(q)
      BY <1>0 DEF Outputs, RuleRun
    <3>3. \A q \in RuleRun : \A n : Through(q, n)' <=> Through(q, n)
      BY <2>1, <2>2 DEF Through, Writer, Script, RuleRun
    <3> QED BY <2>1, <2>2, <3>1, <3>2, <3>3 DEF RulesToWrite, Writer, Script, RuleRun
  <2>3. CASE s \in RuleRun
    <3>1. pc'[s] = "fetch" /\ at'[s] = 0
      BY <1>3, <2>3 DEF Run, RuleRun, Writer
    <3>2. Through(s, at[s] - 1)'
      BY <3>1 DEF Through
    <3>3. \A q \in RuleRun : Output(q)' = Output(q)
      BY <1>0 DEF Outputs, RuleRun
    <3>4. \A q \in RuleRun \ {s} : \A n : Through(q, n)' <=> Through(q, n)
      BY <2>1 DEF Through, Writer, Script
    <3>5. Len(ConfFiles) \in Nat
      BY FeedsAssumption
    <3> QED BY <2>1, <2>3, <3>1, <3>2, <3>3, <3>4, <3>5 DEF RulesToWrite, Writer, Script, RuleRun
  <2>4. CASE s = "vulnerability"
    <3>1. pc'[s] = "save" /\ got'[s] = VulnerabilityRules
      BY <1>3, <2>4 DEF Run, Writer
    <3>2. \A q \in RuleRun : Output(q)' = Output(q)
      BY <1>0 DEF Outputs, RuleRun
    <3>3. \A q \in RuleRun : \A n : Through(q, n)' <=> Through(q, n)
      BY <2>1, <2>4 DEF Through, Writer, Script, RuleRun
    <3> QED BY <2>1, <2>4, <3>1, <3>2, <3>3 DEF RulesToWrite, Writer, Script, RuleRun
  <2> QED BY <2>2, <2>3, <2>4
<1>4. ASSUME NEW s \in Script, Kill(s) PROVE RulesToWrite'
  <2>1. /\ \A v \in Writer \ {s} : pc'[v] = pc[v] /\ at'[v] = at[v] /\ got'[v] = got[v]
        /\ tainted \subseteq tainted' /\ pc'[s] = "killed"
    BY <1>4 DEF Kill, Ends, Writer
  <2>2. \A q \in RuleRun : Output(q)' = Output(q)
    BY <1>0 DEF Outputs, RuleRun
  <2>4. \A q \in RuleRun \ {s} : \A n : Through(q, n)' <=> Through(q, n)
    BY <2>1 DEF Through, Writer, Script
  <2> QED BY <2>1, <2>2, <2>4 DEF RulesToWrite, Writer, Script, RuleRun
<1> DEFINE Aside == /\ tainted \subseteq tainted'
                    /\ \A s \in RuleRun \cup {"vulnerability"} :
                         pc'[s] = pc[s] /\ at'[s] = at[s] /\ got'[s] = got[s]
                    /\ \/ pc'["feeds"] \notin {"fetch", "save", "write"}
                       \/ UNCHANGED <<pc["feeds"], at["feeds"], got["feeds"]>>
<1>5. Aside => RulesToWrite'
  BY ToWriteFrame
<1>6. FetchIps \/ FetchTorExits => Aside
  BY DEF FetchIps, FetchTorExits, Collect, Writer, Script, RuleRun
<1>7. CASE FetchResource
  <2>1. /\ \A s \in RuleRun \cup {"vulnerability"} :
               pc'[s] = pc[s] /\ at'[s] = at[s] /\ got'[s] = got[s]
        /\ tainted' = tainted /\ "feeds" \in Writer /\ at["feeds"] \in 1 .. 3
    BY <1>7 DEF FetchResource, Ends, Writer, Script, RuleRun, RulesToWrite
  <2>2. \/ pc'["feeds"] = "save" /\ UNCHANGED at
                 /\ got'["feeds"] = Bundle[Resources[at["feeds"]]]
        \/ pc'["feeds"] = "fetch" /\ at'["feeds"] \in 1 .. 3
        \/ pc'["feeds"] = "done"
    BY <1>7, <2>1 DEF FetchResource, Ends, Resources
  <2>3. \A s \in RuleRun : Output(s)' = Output(s)
    BY <1>0 DEF Outputs, RuleRun
  <2>4. \A s \in RuleRun : \A n : Through(s, n)' <=> Through(s, n)
    BY <2>1 DEF Through
  <2> QED BY <2>1, <2>2, <2>3, <2>4 DEF RulesToWrite, Resources
<1>8. ASSUME NEW s \in DnsRun, DownloadAndProcessAll(s) PROVE Aside
  BY <1>8 DEF DownloadAndProcessAll, PoolDone, Cleanup, BeginDownload, EndDownload, RemoveDownload,
     ProcessDomainList, Ends, RuleRun, Writer, Script, DnsRun
<1>9. ASSUME NEW i \in Instance, \/ Tick(i) \/ Asked(i) \/ UpdateFails(i) \/ ReadExisting(i)
                                 \/ ScheduleUpdates(i) \/ Provision(i)
      PROVE  Aside
  BY Apart, <1>9 DEF Tick, Asked, UpdateFails, ReadExisting, ScheduleUpdates, Provision, script,
     Writer, Script, RuleRun
<1>10. Load \/ Crash => Aside
  BY ServerSteps DEF Script, RuleRun
<1>12. ASSUME NEW f \in File, TakeEvent(f) PROVE Aside
  BY <1>12 DEF TakeEvent, script
<1>13. UNCHANGED vars => Aside
  BY DEF vars, script
<1>14. CASE Scripted
  <2>1. CASE DownloadOwaspRules \/ DownloadSpiderlabsRules
    BY <2>1, ToWriteFetch DEF DownloadOwaspRules, DownloadSpiderlabsRules, RuleRun
  <2>2. ASSUME NEW s \in Script, Run(s) \/ Kill(s) \/ Write(s) PROVE RulesToWrite'
    BY <2>2, <1>1, <1>2, <1>3, <1>4 DEF Write, Writer
  <2> QED BY <1>14, <2>1, <2>2, <1>5, <1>6, <1>7, <1>8 DEF Scripted
<1>15. ASSUME NEW i \in Instance, Updater(i) PROVE RulesToWrite'
  BY <1>15, <1>1, <1>2, <1>5, <1>9 DEF Updater, UpdateTorExitNodes, Write, Writer
<1> QED BY <1>5, <1>9, <1>10, <1>12, <1>13, <1>14, <1>15 DEF Next

LEMMA RulesSame ==
  (\A f \in RuleFile : file'[f] = file[f]) => Rules(file)' = Rules(file)
BY DEF Rules

LEMMA InForceStep == FeedsTypeOK /\ RulesInForce /\ [Next]_vars => RulesInForce'
<1> SUFFICES ASSUME FeedsTypeOK, RulesInForce, [Next]_vars PROVE RulesInForce'
  OBVIOUS
<1> USE DEF FeedsTypeOK
<1>1. ASSUME NEW w \in Writer, BeginWrite(w) \/ EndWrite(w) PROVE RulesInForce'
  <2>1. /\ UNCHANGED <<active, serving>>
        /\ event' = IF serving = None THEN {} ELSE event \cup {Output(w)}
        /\ \A f \in File \ {Output(w)} : file'[f] = file[f]
    BY <1>1 DEF BeginWrite, EndWrite, waf
  <2>2. CASE Output(w) \in RuleFile
    BY <2>1, <2>2 DEF RulesInForce
  <2>3. CASE Output(w) \notin RuleFile
    <3>1. Rules(file)' = Rules(file)
      BY <2>1, <2>3, RulesSame DEF File
    <3> QED BY <2>1, <3>1 DEF RulesInForce
  <2> QED BY <2>2, <2>3
<1>2. UNCHANGED <<file, active, serving, event>> => RulesInForce'
  BY RulesSame DEF RulesInForce
<1>3. ASSUME NEW s \in Script, Run(s) \/ Kill(s) PROVE RulesInForce'
  BY <1>2, <1>3 DEF Run, Kill, files, waf
<1>4. CASE FetchIps \/ FetchTorExits \/ FetchResource
  BY <1>2, <1>4 DEF FetchIps, FetchTorExits, FetchResource, files, waf
<1>5. ASSUME NEW s \in RuleRun, FetchRules(s) PROVE RulesInForce'
  BY <1>2, <1>5 DEF FetchRules, files, waf
<1>6. ASSUME NEW s \in DnsRun, DownloadAndProcessAll(s) PROVE RulesInForce'
  BY <1>2, <1>6 DEF DownloadAndProcessAll, PoolDone, Cleanup, BeginDownload, EndDownload,
     RemoveDownload, ProcessDomainList, files, waf
<1>7. ASSUME NEW i \in Instance, \/ Tick(i) \/ Asked(i) \/ UpdateFails(i) \/ ReadExisting(i)
                                 \/ ScheduleUpdates(i) \/ Provision(i)
      PROVE  RulesInForce'
  BY <1>2, <1>7 DEF Tick, Asked, UpdateFails, ReadExisting, ScheduleUpdates, Provision,
     files, waf
<1>8. CASE Load
  <2>1. file' = file
    BY <1>8 DEF Load
  <2>2. Rules(file)' = Rules(file)
    BY <2>1, RulesSame
  <2> QED BY <1>8, <2>2 DEF Load, ProcessEnds, RulesInForce, Loaded
<1>9. CASE Crash
  BY <1>9 DEF Crash, ProcessEnds, RulesInForce
<1>10. ASSUME NEW f \in File, TakeEvent(f) PROVE RulesInForce'
  <2>1. file' = file
    BY <1>10 DEF TakeEvent
  <2>2. Rules(file)' = Rules(file)
    BY <2>1, RulesSame
  <2>3. active'.rules = IF f \in RuleFile THEN Rules(file) ELSE active'.rules
    BY <1>10 DEF TakeEvent
  <2>4. f \notin RuleFile => active'.rules = Rules(file)
    BY <1>10 DEF TakeEvent, Loaded
  <2> QED BY <2>2, <2>3, <2>4 DEF RulesInForce
<1>11. CASE UNCHANGED vars
  BY <1>2, <1>11 DEF vars, files, waf
<1>12. CASE Scripted
  <2>1. CASE DownloadOwaspRules \/ DownloadSpiderlabsRules
    BY <2>1, <1>5 DEF DownloadOwaspRules, DownloadSpiderlabsRules, RuleRun
  <2>2. ASSUME NEW s \in Script, Run(s) \/ Kill(s) \/ Write(s) PROVE RulesInForce'
    BY <2>2, <1>1, <1>3 DEF Write, Writer
  <2> QED BY <1>12, <2>1, <2>2, <1>4, <1>6 DEF Scripted
<1>13. ASSUME NEW i \in Instance, Updater(i) PROVE RulesInForce'
  BY <1>13, <1>1, <1>7 DEF Updater, UpdateTorExitNodes, Write, Writer
<1> QED BY <1>7, <1>8, <1>9, <1>10, <1>11, <1>12, <1>13 DEF Next

(* Who does not write rule files, and who does. *)
LEMMA RuleWriters ==
  \A w \in Writer : Output(w) \in RuleFile => w \in RuleRun \cup {"vulnerability", "feeds"}
BY OutputsAre DEF Outputs, Writer, Script, RuleFile, RuleRun

LEMMA KeptFrame ==
  ASSUME RulesAreKept, file' = file, tainted \subseteq tainted',
         \A w \in RuleRun \cup {"vulnerability", "feeds"} : pc[w] = "write" =>
            \/ pc'[w] = "write" /\ at'[w] = at[w]
            \/ Output(w) \in tainted'
  PROVE  RulesAreKept'
<1> SUFFICES ASSUME tainted' \cap RuleFile = {} PROVE RulesAreKept'
  BY DEF RulesAreKept
<1>1. PICK f \in RuleFile : HasRules(f) \/ Writing(f) # {}
  BY DEF RulesAreKept
<1>2. CASE HasRules(f)
  BY <1>2 DEF HasRules, RulesAreKept
<1>3. CASE Writing(f) # {}
  <2>1. PICK w \in Writer : pc[w] = "write" /\ Output(w) = f
    BY <1>3 DEF Writing
  <2>2. w \in RuleRun \cup {"vulnerability", "feeds"}
    BY <2>1, RuleWriters
  <2>3. pc'[w] = "write" /\ at'[w] = at[w]
    BY <2>1, <2>2
  <2>4. Output(w)' = f
    BY <2>1, <2>2, <2>3, OutputsAre DEF Outputs, RuleRun
  <2>5. w \in Writing(f)'
    BY <2>3, <2>4 DEF Writing
  <2> QED BY <2>5 DEF RulesAreKept
<1> QED BY <1>1, <1>2, <1>3

LEMMA KeptStep == FeedsTypeOK /\ RulesToWrite /\ RulesAreKept /\ [Next]_vars => RulesAreKept'
<1> SUFFICES ASSUME FeedsTypeOK, RulesToWrite, RulesAreKept, [Next]_vars PROVE RulesAreKept'
  OBVIOUS
<1> USE DEF FeedsTypeOK
<1>0. Outputs /\ Outputs'
  BY OutputsAre
<1>1. ASSUME NEW w \in Writer, BeginWrite(w) PROVE RulesAreKept'
  <2>1. /\ pc' = [pc EXCEPT ![w] = "write"] /\ UNCHANGED at /\ tainted \subseteq tainted'
        /\ \A f \in File \ {Output(w)} : file'[f] = file[f]
    BY <1>1 DEF BeginWrite, script
  <2>2. \A v \in Writer : Output(v)' = Output(v)
    BY <2>1, <1>0 DEF Outputs, Writer, Script, RuleRun
  <2>3. CASE Output(w) \in RuleFile
    <3>1. w \in Writing(Output(w))'
      BY <2>1, <2>2 DEF Writing
    <3>2. PICK f \in RuleFile : f = Output(w)
      BY <2>3
    <3>3. w \in Writing(f)'
      BY <2>1, <2>2, <3>2 DEF Writing
    <3> QED BY <3>3 DEF RulesAreKept
  <2>4. CASE Output(w) \notin RuleFile
    <3>1. \A f \in RuleFile : Writing(f) \subseteq Writing(f)'
      BY <2>1, <2>2 DEF Writing
    <3>2. \A f \in RuleFile : HasRules(f) => HasRules(f)'
      BY <2>1, <2>4 DEF HasRules, File
    <3> QED BY <2>1, <3>1, <3>2 DEF RulesAreKept
  <2> QED BY <2>3, <2>4
<1>2. ASSUME NEW w \in Writer, EndWrite(w) PROVE RulesAreKept'
  <2>1. /\ \A v \in Writer \ {w} : pc'[v] = pc[v] /\ at'[v] = at[v]
        /\ tainted' = tainted \cup (IF w \in shared THEN {Output(w)} ELSE {})
        /\ \A f \in File \ {Output(w)} : file'[f] = file[f]
        /\ pc[w] = "write"
    BY <1>2 DEF EndWrite
  <2>2. SUFFICES ASSUME tainted' \cap RuleFile = {} PROVE RulesAreKept'
    BY DEF RulesAreKept
  <2>3. CASE Output(w) \in RuleFile
    <3>1. w \notin shared /\ Output(w) \notin tainted
      BY <2>1, <2>2, <2>3
    <3>2. file'[Output(w)] = [rows |-> got[w], whole |-> TRUE]
      BY <1>2, <3>1, <2>3 DEF EndWrite, Left, File
    <3>3. \E rule \in got[w] : Valid(rule)
      <4>1. CASE w \in RuleRun
        BY <2>1, <3>1, <4>1, ThroughHasRules DEF RulesToWrite
      <4>2. CASE w = "vulnerability"
        BY <2>1, <4>2, VulnerabilityRulesValid DEF RulesToWrite
      <4>3. CASE w = "feeds"
        <5>1. at[w] = 3 /\ got[w] = Bundle["rules"]
          BY <1>0, <2>1, <2>3, <4>3 DEF Outputs, Resources, RuleFile, RulesToWrite
        <5> QED BY <5>1, FeedsAssumption
      <4> QED BY <2>3, <4>1, <4>2, <4>3, RuleWriters
    <3>4. PICK f \in RuleFile : f = Output(w)
      BY <2>3
    <3>5. HasRules(f)'
      BY <3>2, <3>3, <3>4 DEF HasRules
    <3> QED BY <3>5 DEF RulesAreKept
  <2>4. CASE Output(w) \notin RuleFile
    <3>1. \A f \in RuleFile : HasRules(f) => HasRules(f)'
      BY <2>1, <2>4 DEF HasRules, File
    <3>2. \A v \in Writer \ {w} : Output(v)' = Output(v)
      BY <2>1, <1>0 DEF Outputs, Writer, Script, RuleRun
    <3>3. \A f \in RuleFile : Writing(f) \subseteq Writing(f)'
      BY <2>1, <2>4, <3>2 DEF Writing
    <3> QED BY <2>1, <3>1, <3>3 DEF RulesAreKept
  <2> QED BY <2>3, <2>4
<1> DEFINE Aside == /\ file' = file /\ tainted \subseteq tainted'
                    /\ \A w \in RuleRun \cup {"vulnerability", "feeds"} :
                         pc[w] = "write" => \/ pc'[w] = "write" /\ at'[w] = at[w]
                                            \/ Output(w) \in tainted'
<1>3. Aside => RulesAreKept'
  BY KeptFrame
<1>4. ASSUME NEW s \in Script, Run(s) PROVE Aside
  BY <1>4 DEF Run, files, Writer, Script, RuleRun
<1>5. ASSUME NEW s \in Script, Kill(s) PROVE Aside
  BY <1>5 DEF Kill, Ends, files, Writer, Script, RuleRun
<1>6. FetchIps \/ FetchTorExits => Aside
  BY DEF FetchIps, FetchTorExits, files, Writer, Script, RuleRun
<1>7. FetchResource => Aside
  BY DEF FetchResource, Ends, files, Writer, Script, RuleRun
<1>8. ASSUME NEW s \in DnsRun, DownloadAndProcessAll(s) PROVE Aside
  BY <1>8 DEF DownloadAndProcessAll, PoolDone, Cleanup, BeginDownload, EndDownload, RemoveDownload,
     ProcessDomainList, Ends, files, RuleRun, Writer, Script, DnsRun
<1>9. ASSUME NEW i \in Instance, \/ Tick(i) \/ Asked(i) \/ UpdateFails(i) \/ ReadExisting(i)
                                 \/ ScheduleUpdates(i) \/ Provision(i)
      PROVE  Aside
  BY Apart, <1>9 DEF Tick, Asked, UpdateFails, ReadExisting, ScheduleUpdates, Provision, script,
     files, Writer, Script, RuleRun
<1>10. Load \/ Crash => Aside
  BY ServerSteps DEF Script, RuleRun, Load, Crash
<1>12. ASSUME NEW f \in File, TakeEvent(f) PROVE Aside
  BY <1>12 DEF TakeEvent, script
<1>13. UNCHANGED vars => Aside
  BY DEF vars, script, files
<1>14. ASSUME NEW s \in RuleRun, FetchRules(s) PROVE Aside
  BY <1>14 DEF FetchRules, Ends, files, Writer, Script, RuleRun
<1>15. CASE Scripted
  <2>1. CASE DownloadOwaspRules \/ DownloadSpiderlabsRules
    BY <2>1, <1>3, <1>14 DEF DownloadOwaspRules, DownloadSpiderlabsRules, RuleRun
  <2>2. ASSUME NEW s \in Script, Run(s) \/ Kill(s) \/ Write(s) PROVE RulesAreKept'
    BY <2>2, <1>1, <1>2, <1>3, <1>4, <1>5 DEF Write, Writer
  <2> QED BY <1>15, <2>1, <2>2, <1>3, <1>6, <1>7, <1>8 DEF Scripted
<1>16. ASSUME NEW i \in Instance, Updater(i) PROVE RulesAreKept'
  BY <1>16, <1>1, <1>2, <1>3, <1>9 DEF Updater, UpdateTorExitNodes, Write, Writer
<1> QED BY <1>3, <1>9, <1>10, <1>12, <1>13, <1>15, <1>16 DEF Next

(* Downloads that fail leave the WAF its rules, for any rule sets that     *)
(* hold a rule at all and any set of scripts, the one that replaces        *)
(* rules.json by a release too: unless a script was cut off in the write   *)
(* of a rule file, two met in one, or a script of rule sets took an error  *)
(* page for rules.                                                         *)
THEOREM RulesAreNotLost == Spec => []RulesSurviveDownloads
<1>1. Init => FeedsTypeOK /\ RulesInv
  BY FeedsTypeInitial, RulesInitial
<1>2. FeedsTypeOK /\ RulesInv /\ [Next]_vars => (FeedsTypeOK /\ RulesInv)'
  BY FeedsTypeStep, ToWriteStep, KeptStep, InForceStep DEF RulesInv
<1>3. RulesInv => RulesSurviveDownloads
  <2> SUFFICES ASSUME RulesInv, serving # None, event = {}, tainted \cap RuleFile = {},
                      \A f \in RuleFile : Writing(f) = {}
               PROVE  active.rules # {}
    BY DEF RulesSurviveDownloads
  <2>1. PICK f \in RuleFile : HasRules(f)
    BY DEF RulesInv, RulesAreKept
  <2>2. Rules(file) # {}
    BY <2>1 DEF HasRules, Rules
  <2> QED BY <2>2 DEF RulesInv, RulesInForce
<1> QED BY <1>1, <1>2, <1>3, PTL DEF Spec

-----------------------------------------------------------------------------
Listed(s) == UNION {Extracted(s, p) : p \in answered[s]}

(* A run of the DNS script that nobody has hindered. *)
DownloadsRead(s) ==
  /\ got[s] = UNION {ExtractDomains(Page[u]) : u \in {v \in DomainUrl : page[s][v] = "read"}}
  /\ answered[s] = {u \in DomainUrl : page[s][u] \in {"saved", "read", "gone"}}

(* A script collects what its sources gave.                                *)
Saved(s) ==
  /\ pc[s] = "off" => answered[s] = {}
  /\ s = "ip" /\ pc[s] = "fetch" => at[s] > 0
  /\ s \in RuleRun /\ pc[s] = "fetch" => at[s] \in 0 .. Len(ConfFiles)
  /\ s \in RuleRun \cup {"ip"} /\ pc[s] \in {"fetch", "save", "write"}
       => got[s] = Listed(s)
  /\ s \in DnsRun /\ pc[s] = "off" => page[s] = [u \in DomainUrl |-> "asked"]
  /\ s \in DnsRun /\ pc[s] = "fetch" => s \in hindered \/ DownloadsRead(s)
  /\ s \in DnsRun /\ pc[s] \in {"save", "write"} => s \in hindered \/ got[s] = Listed(s)

SavedInv == \A s \in Script : Saved(s)

LEMMA ExtractedIs ==
  /\ \A s \in DnsRun : \A p : Extracted(s, p) = ExtractDomains(Page[p])
  /\ Extracted("ip", TorExits) = ExtractTorExitNodes(Page[TorExits])
  /\ \A p : p # TorExits => Extracted("ip", p) = ExtractIps(Page[p])
  /\ \A s \in RuleRun : \A p : Extracted(s, p) = OwaspRules(Page[p])
BY DEF Extracted, DnsRun, RuleRun

LEMMA SavedInitial == Init => SavedInv
<1> SUFFICES ASSUME Init PROVE SavedInv
  OBVIOUS
<1>1. \A s \in Script : pc[s] = "off" /\ answered[s] = {}
  BY Apart DEF Init, Writer, Script, DnsRun, RuleRun
<1>2. \A s \in DnsRun : page[s] = [u \in DomainUrl |-> "asked"]
  BY DEF Init
<1> QED BY <1>1, <1>2 DEF SavedInv, Saved

(* A script that does not move keeps what it has, if its downloads stay.   *)
LEMMA SavedSame ==
  ASSUME NEW s \in Script, Saved(s), s \in hindered => s \in hindered',
         pc'[s] = pc[s] \/ (pc[s] = "save" /\ pc'[s] = "write"),
         at'[s] = at[s], got'[s] = got[s], answered'[s] = answered[s],
         s \in DnsRun => page'[s] = page[s]
  PROVE  Saved(s)'
<1>1. Listed(s)' = Listed(s)
  BY DEF Listed, Extracted
<1>2. s \in DnsRun /\ DownloadsRead(s) => DownloadsRead(s)'
  BY DEF DownloadsRead
<1> QED BY <1>1, <1>2 DEF Saved

(* A script that saves nothing more owes nothing, and these two have no    *)
(* sources whose answers are collected.                                    *)
LEMMA SavedOver ==
  ASSUME NEW s \in Script, pc'[s] # "off",
         pc'[s] \notin {"fetch", "save", "write"} \/ s \in {"feeds", "vulnerability"}
  PROVE  Saved(s)'
BY DEF Saved, RuleRun, DnsRun

(* A source more. *)
LEMMA CollectListed ==
  ASSUME FeedsTypeOK, NEW s \in Script, NEW p, got[s] = Listed(s),
         Collect(s, Extracted(s, p), p)
  PROVE  got'[s] = Listed(s)'
<1>1. got'[s] = got[s] \cup Extracted(s, p) /\ answered'[s] = answered[s] \cup {p}
  BY DEF Collect, FeedsTypeOK, Writer
<1>2. UNION {Extracted(s, q) : q \in answered[s] \cup {p}}
        = (UNION {Extracted(s, q) : q \in answered[s]}) \cup Extracted(s, p)
  OBVIOUS
<1>3. Listed(s)' = UNION {Extracted(s, q) : q \in answered[s] \cup {p}}
  BY <1>1 DEF Listed, Extracted
<1> QED BY <1>1, <1>2, <1>3 DEF Listed

LEMMA SavedBegin ==
  ASSUME FeedsTypeOK, SavedInv, NEW w \in Writer, BeginWrite(w)
  PROVE  SavedInv'
<1> USE DEF FeedsTypeOK
<1>1. ASSUME NEW s \in Script PROVE Saved(s)'
  <2>1. /\ pc'[s] = pc[s] \/ (pc[s] = "save" /\ pc'[s] = "write")
        /\ UNCHANGED <<at, got, answered, page, hindered>>
    BY DEF BeginWrite, script, Writer
  <2> QED BY <2>1, SavedSame DEF SavedInv
<1> QED BY <1>1 DEF SavedInv

LEMMA SavedEnd ==
  ASSUME FeedsTypeOK, SavedInv, NEW w \in Writer, EndWrite(w)
  PROVE  SavedInv'
<1> USE DEF FeedsTypeOK
<1>1. ASSUME NEW s \in Script PROVE Saved(s)'
  <2>1. CASE s # w
    <3>1. /\ pc'[s] = pc[s] /\ at'[s] = at[s] /\ got'[s] = got[s]
          /\ answered'[s] = answered[s] /\ page' = page
          /\ s \in hindered => s \in hindered'
      BY <2>1 DEF EndWrite, Writer
    <3> QED BY <3>1, SavedSame DEF SavedInv
  <2>2. CASE s = w
    <3>1. After(s) # "off" /\ (s = "feeds" \/ After(s) \notin {"fetch", "save", "write"})
      BY Apart DEF After, Script, DnsRun, RuleRun
    <3>2. pc'[s] = After(s)
      BY <2>2 DEF EndWrite, Writer
    <3> QED BY <3>1, <3>2, SavedOver
  <2> QED BY <2>1, <2>2
<1> QED BY <1>1 DEF SavedInv

LEMMA SavedRun ==
  ASSUME FeedsTypeOK, SavedInv, NEW r \in Script, Run(r)
  PROVE  SavedInv'
<1> USE DEF FeedsTypeOK
<1>0. r \in Writer
  BY DEF Writer
<1>1. ASSUME NEW s \in Script, s # r PROVE Saved(s)'
  <2>1. /\ pc'[s] = pc[s] /\ at'[s] = at[s] /\ got'[s] = got[s]
        /\ UNCHANGED <<answered, page, hindered>>
    BY <1>0, <1>1 DEF Run, Writer
  <2> QED BY <2>1, SavedSame DEF SavedInv
<1>2. CASE r \in {"feeds", "vulnerability"}
  <2>1. pc'[r] # "off"
    BY <1>0, <1>2 DEF Run
  <2> QED BY <1>1, <1>2, <2>1, SavedOver DEF SavedInv
<1>3. CASE r \notin {"feeds", "vulnerability"}
  <2>1. /\ pc'[r] = "fetch" /\ got'[r] = {} /\ answered'[r] = {}
        /\ at'[r] = IF r \in RuleRun THEN 0 ELSE 1
        /\ page' = page
    BY <1>0, <1>3 DEF Run, SavedInv, Saved
  <2>2. Listed(r)' = {}
    BY <2>1 DEF Listed
  <2>3. Len(ConfFiles) \in Nat
    BY FeedsAssumption
  <2>4. CASE r \in DnsRun
    <3>1. page'[r] = [u \in DomainUrl |-> "asked"]
      BY <1>0, <2>1, <2>4 DEF Run, SavedInv, Saved
    <3>2. {v \in DomainUrl : page'[r][v] = "read"} = {}
      BY <3>1
    <3>3. {u \in DomainUrl : page'[r][u] \in {"saved", "read", "gone"}} = {}
      BY <3>1
    <3>4. UNION {ExtractDomains(Page[u]) : u \in {v \in DomainUrl : page'[r][v] = "read"}} = {}
      BY <3>2
    <3>5. DownloadsRead(r)'
      BY <2>1, <3>1, <3>3, <3>4, Zenon DEF DownloadsRead
    <3>6. r \notin RuleRun \cup {"ip"}
      BY <2>4 DEF DnsRun, RuleRun
    <3>7. Saved(r)'
      BY <2>1, <3>5, <3>6 DEF Saved
    <3> QED BY <1>1, <3>7 DEF SavedInv
  <2>5. CASE r \notin DnsRun
    <3>1. r = "ip" => at'[r] > 0
      BY <2>1 DEF RuleRun
    <3>2. Saved(r)'
      BY <2>1, <2>2, <2>3, <2>5, <3>1 DEF Saved
    <3> QED BY <1>1, <3>2 DEF SavedInv
  <2> QED BY <2>4, <2>5
<1> QED BY <1>2, <1>3

(* A step of one script changes nothing of the others. *)
LEMMA SavedRest ==
  ASSUME FeedsTypeOK, SavedInv, NEW r \in Script, hindered \ {r} \subseteq hindered',
         \A s \in Script \ {r} : /\ pc'[s] = pc[s] /\ at'[s] = at[s] /\ got'[s] = got[s]
                                 /\ answered'[s] = answered[s]
                                 /\ s \in DnsRun => page'[s] = page[s],
         Saved(r)'
  PROVE  SavedInv'
<1>1. ASSUME NEW s \in Script, s # r PROVE Saved(s)'
  BY <1>1, SavedSame DEF SavedInv
<1> QED BY <1>1 DEF SavedInv

LEMMA SavedKill ==
  ASSUME FeedsTypeOK, SavedInv, NEW r \in Script, Kill(r)
  PROVE  SavedInv'
<1>1. /\ \A s \in Script \ {r} : /\ pc'[s] = pc[s] /\ at'[s] = at[s] /\ got'[s] = got[s]
                                 /\ answered'[s] = answered[s]
                                 /\ s \in DnsRun => page'[s] = page[s]
      /\ hindered' = hindered \ {r} /\ pc'[r] = "killed"
  BY DEF FeedsTypeOK, Kill, Ends, Writer
<1>2. Saved(r)'
  BY <1>1, SavedOver
<1> QED BY <1>1, <1>2, SavedRest

LEMMA SavedFetchIps ==
  ASSUME FeedsTypeOK, SavedInv, FetchIps \/ FetchTorExits
  PROVE  SavedInv'
<1> USE DEF FeedsTypeOK
<1>0. "ip" \in Script /\ "ip" \in Writer
  BY DEF Script, Writer
<1>1. /\ \A s \in Script \ {"ip"} : /\ pc'[s] = pc[s] /\ at'[s] = at[s] /\ got'[s] = got[s]
                                    /\ answered'[s] = answered[s]
      /\ UNCHANGED <<page, hindered>> /\ pc'["ip"] \in {"fetch", "save"}
      /\ at'["ip"] >= at["ip"] /\ pc["ip"] = "fetch"
  BY <1>0 DEF FetchIps, FetchTorExits, Collect, Writer
<1>2. got["ip"] = Listed("ip") /\ at["ip"] > 0 /\ at["ip"] \in Nat
  BY <1>0, <1>1 DEF SavedInv, Saved
<1>3. \/ UNCHANGED <<got, answered>>
      \/ \E p : Collect("ip", Extracted("ip", p), p)
  <2>1. CASE FetchIps
    <3>1. PICK p : p = IpSources[at["ip"]]
      OBVIOUS
    <3>2. p # TorExits
      BY <1>2, <2>1, <3>1, FeedsAssumption DEF FetchIps
    <3>3. Extracted("ip", p) = ExtractIps(Page[p])
      BY <3>2, ExtractedIs
    <3> QED BY <2>1, <3>1, <3>3 DEF FetchIps
  <2>2. CASE FetchTorExits
    BY <2>2, ExtractedIs DEF FetchTorExits
  <2> QED BY <2>1, <2>2
<1>4. got'["ip"] = Listed("ip")'
  <2>1. CASE UNCHANGED <<got, answered>>
    BY <1>2, <2>1 DEF Listed, Extracted
  <2>2. ASSUME NEW p, Collect("ip", Extracted("ip", p), p) PROVE got'["ip"] = Listed("ip")'
    BY <1>0, <1>2, <2>2, CollectListed
  <2> QED BY <1>3, <2>1, <2>2
<1>5. at'["ip"] \in Nat /\ at'["ip"] > 0
  BY <1>0, <1>2 DEF FetchIps, FetchTorExits
<1>6. Saved("ip")'
  BY <1>1, <1>4, <1>5 DEF Saved, DnsRun, RuleRun
<1> QED BY <1>0, <1>1, <1>6, SavedRest

LEMMA SavedFetchRules ==
  ASSUME FeedsTypeOK, SavedInv, NEW r \in RuleRun, FetchRules(r)
  PROVE  SavedInv'
<1> USE DEF FeedsTypeOK
<1>0. r \in Script /\ r \in Writer /\ r \notin DnsRun /\ r # "ip"
  BY DEF Script, Writer, RuleRun, DnsRun
<1>1. /\ \A s \in Script \ {r} : /\ pc'[s] = pc[s] /\ at'[s] = at[s] /\ got'[s] = got[s]
                                 /\ answered'[s] = answered[s]
      /\ UNCHANGED <<page, hindered>> /\ pc[r] = "fetch"
  BY <1>0 DEF FetchRules, Ends, Collect, Writer
<1>2. got[r] = Listed(r) /\ at[r] \in 0 .. Len(ConfFiles)
  BY <1>0, <1>1 DEF SavedInv, Saved
<1>3. CASE pc'[r] = "done"
  BY <1>0, <1>1, <1>3, SavedOver, SavedRest
<1>4. CASE pc'[r] # "done"
  <2>1. \/ UNCHANGED <<got, answered>>
        \/ Collect(r, Extracted(r, ConfFiles[at[r]]), ConfFiles[at[r]])
    BY <1>0, <1>4, ExtractedIs DEF FetchRules, Ends
  <2>2. got'[r] = Listed(r)'
    <3>1. CASE UNCHANGED <<got, answered>>
      BY <1>2, <3>1 DEF Listed, Extracted
    <3>2. CASE Collect(r, Extracted(r, ConfFiles[at[r]]), ConfFiles[at[r]])
      BY <1>0, <1>2, <3>2, CollectListed
    <3> QED BY <2>1, <3>1, <3>2
  <2>3. Len(ConfFiles) \in Nat /\ Len(ConfFiles) > 0
    BY FeedsAssumption
  <2>4. /\ pc'[r] \in {"fetch", "save"}
        /\ pc'[r] = "fetch" => at[r] # Len(ConfFiles) /\ at'[r] = at[r] + 1
    BY <1>0, <1>1, <1>4, <2>3 DEF FetchRules, Ends
  <2>5. pc'[r] = "fetch" => at'[r] \in 0 .. Len(ConfFiles)
    BY <1>2, <2>3, <2>4
  <2>6. Saved(r)'
    BY <1>0, <2>2, <2>4, <2>5 DEF Saved
  <2> QED BY <1>0, <1>1, <2>6, SavedRest
<1> QED BY <1>3, <1>4

LEMMA SavedFetchResource ==
  ASSUME FeedsTypeOK, SavedInv, FetchResource
  PROVE  SavedInv'
<1>1. /\ \A s \in Script \ {"feeds"} : /\ pc'[s] = pc[s] /\ at'[s] = at[s]
                                       /\ got'[s] = got[s] /\ answered'[s] = answered[s]
      /\ UNCHANGED <<page, hindered>> /\ pc'["feeds"] # "off"
      /\ "feeds" \in Script
  BY DEF FeedsTypeOK, FetchResource, Ends, Writer, Script
<1>2. Saved("feeds")'
  BY <1>1, SavedOver
<1> QED BY <1>1, <1>2, SavedRest

(* What becomes of one download. *)
LEMMA SavedOne ==
  ASSUME FeedsTypeOK, SavedInv, NEW r \in DnsRun, NEW u \in DomainUrl, NEW p \in PageAt,
         pc' = pc, at' = at, pc[r] = "fetch", hindered \subseteq hindered',
         \A s \in Script \ {r} : got'[s] = got[s] /\ answered'[s] = answered[s],
         page' = [page EXCEPT ![r][u] = p],
         \/ r \in hindered'
         \/ /\ page[r][u] \in {"asked", "writing"} /\ got'[r] = got[r]
            /\ \/ p \in {"none", "writing"} /\ answered'[r] = answered[r]
               \/ p = "saved" /\ answered'[r] = answered[r] \cup {u}
         \/ /\ page[r][u] = "saved" /\ answered'[r] = answered[r]
            /\ \/ p = "gone" /\ got'[r] = got[r]
               \/ p = "read" /\ got'[r] = got[r] \cup ExtractDomains(Page[u])
  PROVE  SavedInv'
<1> USE DEF FeedsTypeOK, PageAt
<1>0. r \in Script /\ r \notin RuleRun \cup {"ip"}
  BY DEF Script, RuleRun, DnsRun
<1>1. ASSUME NEW s \in Script, s # r PROVE Saved(s)'
  <2>1. s \in DnsRun => page'[s] = page[s]
    BY <1>1
  <2> QED BY <1>1, <2>1, SavedSame DEF SavedInv
<1>2. page'[r] = [page[r] EXCEPT ![u] = p] /\ page[r] \in [DomainUrl -> PageAt]
  OBVIOUS
<1>3. ASSUME r \notin hindered' PROVE DownloadsRead(r)'
  <2>1. DownloadsRead(r)
    BY <1>0, <1>3 DEF SavedInv, Saved
  <2>2. answered'[r] = {v \in DomainUrl : page'[r][v] \in {"saved", "read", "gone"}}
    <3>1. answered[r] = {v \in DomainUrl : page[r][v] \in {"saved", "read", "gone"}}
      BY <2>1 DEF DownloadsRead
    <3> QED BY <1>2, <1>3, <3>1
  <2>3. PICK S : S = {v \in DomainUrl : page[r][v] = "read"}
    OBVIOUS
  <2>4. got[r] = UNION {ExtractDomains(Page[v]) : v \in S}
    BY <2>1, <2>3, Zenon DEF DownloadsRead
  <2>5. got'[r] = UNION {ExtractDomains(Page[v]) : v \in {w \in DomainUrl : page'[r][w] = "read"}}
    <3>1. CASE p = "read"
      <4>1. {v \in DomainUrl : page'[r][v] = "read"} = S \cup {u}
        BY <1>2, <2>3, <3>1
      <4>2. UNION {ExtractDomains(Page[v]) : v \in S \cup {u}}
              = (UNION {ExtractDomains(Page[v]) : v \in S}) \cup ExtractDomains(Page[u])
        OBVIOUS
      <4>3. got'[r] = got[r] \cup ExtractDomains(Page[u])
        BY <1>3, <3>1
      <4>4. got'[r] = UNION {ExtractDomains(Page[v]) : v \in S \cup {u}}
        BY <2>4, <4>2, <4>3, Zenon
      <4> QED BY <4>1, <4>4, Zenon
    <3>2. CASE p # "read"
      <4>1. {v \in DomainUrl : page'[r][v] = "read"} = S /\ got'[r] = got[r]
        BY <1>2, <1>3, <2>3, <3>2
      <4> QED BY <2>4, <4>1, Zenon
    <3> QED BY <3>1, <3>2
  <2> QED BY <2>2, <2>5, Zenon DEF DownloadsRead
<1>4. Saved(r)'
  BY <1>0, <1>3 DEF Saved
<1> QED BY <1>1, <1>4 DEF SavedInv

LEMMA SavedDownload ==
  ASSUME FeedsTypeOK, SavedInv, NEW r \in DnsRun, NEW u \in DomainUrl,
         BeginDownload(r, u) \/ EndDownload(r, u) \/ ProcessDomainList(r, u)
  PROVE  SavedInv'
<1> USE DEF FeedsTypeOK
<1>0. r \in Script /\ r \in Writer
  BY DEF Script, Writer
<1>1. pc' = pc /\ at' = at /\ pc[r] = "fetch" /\ hindered \subseteq hindered'
  BY DEF BeginDownload, EndDownload, ProcessDomainList
<1>2. \A s \in Script \ {r} : got'[s] = got[s] /\ answered'[s] = answered[s]
  BY <1>0 DEF BeginDownload, EndDownload, ProcessDomainList, Writer
<1>3. CASE BeginDownload(r, u)
  <2>1. PICK p \in {"none", "writing"} :
           /\ page' = [page EXCEPT ![r][u] = p] /\ got' = got /\ page[r][u] = "asked"
           /\ r \in hindered' \/ answered' = answered
    BY <1>3 DEF BeginDownload
  <2>2. p \in PageAt
    BY <2>1 DEF PageAt
  <2> QED BY <1>1, <1>2, <2>1, <2>2, SavedOne
<1>4. CASE EndDownload(r, u)
  <2>1. PICK p \in {"none", "saved"} :
           /\ page' = [page EXCEPT ![r][u] = p] /\ got' = got /\ page[r][u] = "writing"
           /\ p = "none" => answered' = answered
           /\ p = "saved" => answered'[r] = answered[r] \cup {u}
    BY <1>0, <1>4 DEF EndDownload
  <2>2. p \in PageAt
    BY <2>1 DEF PageAt
  <2> QED BY <1>1, <1>2, <2>1, <2>2, SavedOne
<1>5. CASE ProcessDomainList(r, u)
  <2>1. PICK p \in {"read", "gone"} :
           /\ page' = [page EXCEPT ![r][u] = p] /\ answered' = answered
           /\ page[r][u] = "saved"
           /\ \/ r \in hindered'
              \/ p = "gone" /\ got' = got
              \/ p = "read" /\ got'[r] = got[r] \cup ExtractDomains(Page[u])
    BY <1>0, <1>5 DEF ProcessDomainList
  <2>2. p \in PageAt
    BY <2>1 DEF PageAt
  <2> QED BY <1>1, <1>2, <2>1, <2>2, SavedOne
<1> QED BY <1>3, <1>4, <1>5

LEMMA SavedPoolDone ==
  ASSUME FeedsTypeOK, SavedInv, NEW r \in DnsRun, PoolDone(r)
  PROVE  SavedInv'
<1> USE DEF FeedsTypeOK
<1>0. r \in Script /\ r \in Writer /\ r \notin RuleRun \cup {"ip"}
  BY DEF Script, Writer, RuleRun, DnsRun
<1>1. /\ hindered \ {r} \subseteq hindered' /\ pc[r] = "fetch"
      /\ \A s \in Script \ {r} : /\ pc'[s] = pc[s] /\ at'[s] = at[s] /\ got'[s] = got[s]
                                 /\ answered'[s] = answered[s]
                                 /\ s \in DnsRun => page'[s] = page[s]
  BY <1>0 DEF PoolDone, Ends, Writer
<1>2. CASE pc'[r] = "done"
  BY <1>0, <1>1, <1>2, SavedOver, SavedRest
<1>3. CASE pc'[r] # "done"
  <2>1. /\ \A u \in DomainUrl : page[r][u] \in {"none", "read"}
        /\ pc'[r] = "save" /\ UNCHANGED <<got, answered, hindered>>
    BY <1>0, <1>3 DEF PoolDone, Ends
  <2>2. ASSUME DownloadsRead(r) PROVE got'[r] = Listed(r)'
    <3>1. {u \in DomainUrl : page[r][u] \in {"saved", "read", "gone"}}
            = {u \in DomainUrl : page[r][u] = "read"}
      BY <2>1
    <3>2. got[r] = UNION {ExtractDomains(Page[u]) : u \in answered[r]}
      BY <2>2, <3>1 DEF DownloadsRead
    <3>3. \A p : Extracted(r, p) = ExtractDomains(Page[p])
      BY ExtractedIs
    <3>4. UNION {ExtractDomains(Page[u]) : u \in answered[r]}
            = UNION {Extracted(r, u) : u \in answered[r]}
      BY <3>3
    <3>5. Listed(r)' = Listed(r)
      BY <2>1 DEF Listed, Extracted
    <3> QED BY <2>1, <3>2, <3>4, <3>5 DEF Listed
  <2>3. Saved(r)'
    BY <1>0, <1>1, <2>1, <2>2 DEF SavedInv, Saved
  <2> QED BY <1>0, <1>1, <2>3, SavedRest
<1> QED BY <1>2, <1>3

LEMMA SavedCleanup ==
  ASSUME FeedsTypeOK, SavedInv, NEW r \in DnsRun,
         Cleanup(r) \/ \E u \in DomainUrl : RemoveDownload(r, u)
  PROVE  SavedInv'
<1>1. /\ UNCHANGED <<at, got, answered, page, hindered>>
      /\ \A s \in Script \ {r} : pc'[s] = pc[s]
      /\ pc' = pc \/ pc'[r] = "done"
  BY DEF FeedsTypeOK, Cleanup, RemoveDownload, Script, Writer
<1>2. r \in Script
  BY DEF Script
<1>3. Saved(r)'
  BY <1>1, <1>2, SavedOver, SavedSame DEF SavedInv
<1> QED BY <1>1, <1>2, <1>3, SavedRest

LEMMA SavedStep == FeedsTypeOK /\ SavedInv /\ [Next]_vars => SavedInv'
<1> SUFFICES ASSUME FeedsTypeOK, SavedInv, [Next]_vars PROVE SavedInv'
  OBVIOUS
<1> USE DEF FeedsTypeOK
<1> DEFINE Aside == /\ UNCHANGED <<hindered, page>>
                    /\ \A s \in Script : /\ pc'[s] = pc[s] /\ at'[s] = at[s]
                                         /\ got'[s] = got[s] /\ answered'[s] = answered[s]
<1>1. ASSUME Aside PROVE SavedInv'
  BY <1>1, SavedSame DEF SavedInv
<1>2. Script \cap Instance = {} /\ Writer = Script \cup Instance
  BY Apart DEF Script, Writer, DnsRun, RuleRun
<1>3. ASSUME NEW i \in Instance, \/ Tick(i) \/ Asked(i) \/ UpdateFails(i) \/ ReadExisting(i)
                                 \/ ScheduleUpdates(i) \/ Provision(i)
      PROVE  Aside
  BY <1>2, <1>3 DEF Tick, Asked, UpdateFails, ReadExisting, ScheduleUpdates, Provision, script
<1>4. Load => Aside
  BY <1>2, FeedsAssumption DEF Load, ProcessEnds, script
<1>5. Crash => Aside
  BY <1>2 DEF Crash, ProcessEnds, script
<1>6. ASSUME NEW f \in File, TakeEvent(f) PROVE Aside
  BY <1>6 DEF TakeEvent, script
<1>7. UNCHANGED vars => Aside
  BY DEF vars, script
<1>8. ASSUME NEW i \in Instance, Updater(i) PROVE SavedInv'
  BY <1>1, <1>2, <1>3, <1>8, SavedBegin, SavedEnd DEF Updater, UpdateTorExitNodes, Write
<1>9. CASE Scripted
  <2>1. CASE DownloadOwaspRules \/ DownloadSpiderlabsRules
    BY <2>1, SavedFetchRules DEF DownloadOwaspRules, DownloadSpiderlabsRules, RuleRun
  <2>2. ASSUME NEW s \in Script, Run(s) \/ Kill(s) \/ Write(s) PROVE SavedInv'
    BY <1>2, <2>2, SavedRun, SavedKill, SavedBegin, SavedEnd DEF Write
  <2>3. ASSUME NEW s \in DnsRun, DownloadAndProcessAll(s) PROVE SavedInv'
    BY <2>3, SavedDownload, SavedPoolDone, SavedCleanup
       DEF DownloadAndProcessAll
  <2> QED BY <1>9, <2>1, <2>2, <2>3, SavedFetchIps, SavedFetchResource DEF Scripted
<1> QED BY <1>1, <1>3, <1>4, <1>5, <1>6, <1>7, <1>8, <1>9 DEF Next

(* Only the end of its write takes a script from writing to its end. *)
LEMMA OnlyEndWrite ==
  ASSUME FeedsTypeOK, Next, NEW s \in Script, pc[s] = "write",
         pc'[s] \in {"done", "clean"}
  PROVE  EndWrite(s)
<1> USE DEF FeedsTypeOK
<1>1. Script \cap Instance = {} /\ Writer = Script \cup Instance
  BY Apart DEF Script, Writer, DnsRun, RuleRun
<1>2. ASSUME NEW w \in Writer, Write(w) PROVE EndWrite(s)
  BY <1>1, <1>2 DEF Write, BeginWrite, EndWrite
<1>3. ASSUME NEW r \in Script, Run(r) \/ Kill(r) PROVE FALSE
  BY <1>1, <1>3 DEF Run, Kill, Ends
<1>4. ~FetchIps /\ ~FetchTorExits /\ ~FetchResource
  BY DEF FetchIps, FetchTorExits, FetchResource, Ends, Writer, Script
<1>5. ASSUME NEW r \in RuleRun, FetchRules(r) PROVE FALSE
  BY <1>5 DEF FetchRules, Ends, Writer, Script
<1>6. ASSUME NEW r \in DnsRun, DownloadAndProcessAll(r) PROVE FALSE
  BY <1>6 DEF DownloadAndProcessAll, PoolDone, Cleanup, BeginDownload, EndDownload, RemoveDownload,
     ProcessDomainList, Ends, Writer, Script
<1>7. ASSUME NEW i \in Instance, \/ Tick(i) \/ Asked(i) \/ UpdateFails(i) \/ ReadExisting(i)
                                 \/ ScheduleUpdates(i) \/ Provision(i)
      PROVE  FALSE
  BY <1>1, <1>7 DEF Tick, Asked, UpdateFails, ReadExisting, ScheduleUpdates, Provision
<1>8. ~Load /\ ~Crash /\ \A f \in File : ~TakeEvent(f)
  BY <1>1, FeedsAssumption DEF Load, ProcessEnds, Crash, TakeEvent
<1>9. CASE Scripted
  BY <1>1, <1>2, <1>3, <1>4, <1>5, <1>6, <1>9
     DEF Scripted, DownloadOwaspRules, DownloadSpiderlabsRules, RuleRun
<1>10. ASSUME NEW i \in Instance, Updater(i) PROVE EndWrite(s)
  BY <1>1, <1>2, <1>7, <1>10 DEF Updater, UpdateTorExitNodes
<1> QED BY <1>7, <1>8, <1>9, <1>10 DEF Next

(* What a script saves is what every source that answered lists, in        *)
(* whatever order the downloads ended, for any pages and lists and with    *)
(* two runs on one temporary directory: unless it met another writer in    *)
(* the file that it saves, or another run had removed the directory or was *)
(* writing the download that it read.                                      *)
THEOREM ListsAreSavedWhole == Spec => SavedListIsWhole
<1>1. Init => FeedsTypeOK /\ SavedInv
  BY FeedsTypeInitial, SavedInitial
<1>2. FeedsTypeOK /\ SavedInv /\ [Next]_vars => (FeedsTypeOK /\ SavedInv)'
  BY FeedsTypeStep, SavedStep
<1>3. FeedsTypeOK /\ SavedInv /\ [Next]_vars =>
        \A s \in Script \ {"vulnerability", "feeds"} :
          (pc[s] = "write" /\ pc'[s] \in {"done", "clean"}
             /\ s \notin shared \cup hindered)
            => file'[Output(s)].rows = UNION {Extracted(s, p) : p \in answered[s]}
  <2> SUFFICES ASSUME FeedsTypeOK, SavedInv, [Next]_vars,
                      NEW s \in Script \ {"vulnerability", "feeds"},
                      pc[s] = "write", pc'[s] \in {"done", "clean"},
                      s \notin shared \cup hindered
               PROVE  file'[Output(s)].rows = Listed(s)
    BY Zenon DEF Listed
  <2>1. EndWrite(s)
    BY OnlyEndWrite DEF vars
  <2>2. Output(s) \in File
    BY OutputsAre DEF Outputs, Script, RuleRun, File, RuleFile
  <2>3. file'[Output(s)].rows = got[s]
    BY <2>1, <2>2 DEF EndWrite, Left, FeedsTypeOK
  <2>4. got[s] = Listed(s)
    BY DEF SavedInv, Saved, Script
  <2> QED BY <2>3, <2>4
<1> QED BY <1>1, <1>2, <1>3, PTL DEF Spec, SavedListIsWhole
=============================================================================
