------------------------------- MODULE Feeds -------------------------------
(***************************************************************************)
(* The files that a running WAF watches, and everybody who writes them:    *)
(* the download scripts, which cron or an operator starts at any time and  *)
(* which may be killed, and the Tor updater of the WAF itself (tor.go),    *)
(* with ip_blacklist_file and tor_ip_blacklist_file the same file, as the  *)
(* documentation has it.  All of them open the file with truncation and    *)
(* then write it, so that anybody may read it in between, and a failure or *)
(* the end of the process may leave it so.                                 *)
(*                                                                         *)
(* A reload reads all its files in one step: the interleavings inside it   *)
(* are the subject of Reload.  "instance" is a provisioned middleware:     *)
(* `caddy reload` provisions a second one beside the first.                *)
(***************************************************************************)
EXTENDS FeedParsing, FiniteSets

CONSTANTS
  Page,        (* source -> the page it serves                             *)
  IpSources,   (* the sequence blocklist_sources                           *)
  TorExits,    (* the source tor_exit_nodes_url                            *)
  DomainUrl,   (* DOMAIN_LIST_URLS                                         *)
  ConfFiles,   (* the .conf files of a listing, in its order               *)
  Bundle,      (* file -> what the release of caddy-feeds holds            *)
  ExitNodes,   (* rows of the list that the updater downloads              *)
  FirstFiles,  (* file -> its rows before anything runs                    *)
  Own,         (* rows of ip_blacklist.txt put in by hand                  *)
  Setup,       (* what runs, see FeedsAssumption                           *)
  Instance,    (* instances of the WAF, each with its Tor updater          *)
  First,       (* the one that serves at first                             *)
  None

RuleFile == {"rules", "spiderlabs", "vulnerability"}
File     == {"ip", "dns"} \cup RuleFile
DnsRun   == {"dns1", "dns2"}      (* two runs of get_blacklisted_dns.py *)
RuleRun  == {"owasp", "spiderlabs"}
Script   == {"ip", "vulnerability", "feeds"} \cup DnsRun \cup RuleRun
Writer   == Script \cup Instance

(* get_caddy_feeds.py *)
Resources == <<"ip", "dns", "rules">>

ASSUME FeedsAssumption ==
  /\ First \in Instance /\ Instance \cap Script = {} /\ None \notin Writer
  /\ Own \subseteq FirstFiles["ip"]
  /\ IpSources \in Seq(DOMAIN Page \ {TorExits})
  /\ ConfFiles \in Seq(DOMAIN Page)
  /\ \E i \in DOMAIN ConfFiles :         (* the rule sets do hold rules *)
       \E rule \in OwaspRules(Page[ConfFiles[i]]) : Valid(rule)
  /\ \E rule \in Bundle["rules"] : Valid(rule)
  /\ \A s \in Setup : s.scripts \subseteq Script /\ s.tor \in BOOLEAN
                      /\ s.interval \in BOOLEAN
                      /\ s.restarts \subseteq {"reload", "crash"}

VARIABLES
  setup,     (* scripts that are started; tor.enabled; whether the interval *)
             (* is in the configuration; whether the server is reloaded or *)
             (* dies                                                       *)
  pc,        (* where a script or an updater is                            *)
  at,        (* the source a script is at                                  *)
  got,       (* the rows it has collected; gone with its process           *)
  page,      (* run of the DNS script -> url -> where its download is      *)
  temp,      (* temp_domain_lists: whether it exists, and of each list     *)
             (* "none", "whole", or the run that opened it last, until     *)
             (* that one has written it                                    *)
  file,      (* a file: its rows, and whether its writer has finished      *)
  shared,    (* history: another writer opened or wrote the file meanwhile *)
  event,     (* files with an event that no watcher has taken              *)
  active,    (* what is in force: addresses, domains, rules                *)
  serving,   (* the instance that handles requests, or None                *)
  new,       (* the instance that is being provisioned, or None            *)
  stage,     (* of its Provision: "tor" or "load"                          *)
  crashed,   (* history: the server has crashed once                       *)
  answered,  (* history: the sources whose page a script has got and kept  *)
  hindered,  (* history: runs to whose downloads another run saw: it had   *)
             (* removed the directory, or was writing what they read       *)
  tainted    (* history: files whose loss of entries has an explanation    *)

script  == <<at, page, temp, answered, hindered>>
waf     == <<active, serving, new, stage, crashed>>
files   == <<file, shared, event>>
vars    == <<setup, pc, got, script, files, waf, tainted>>

Nothing == [ip |-> {}, dns |-> {}, rules |-> {}]

(* loadIPBlacklist, loadDNSBlacklist and loadRules, of whatever is there.  *)
(* A rule file that is not valid JSON is skipped.                          *)
Rules(f) == {rule \in UNION {f[r].rows : r \in {q \in RuleFile : f[q].whole}} :
               Valid(rule)}
Loaded(f) == [ip |-> Addresses(f["ip"].rows), dns |-> f["dns"].rows,
              rules |-> Rules(f)]

Start == [f \in File |-> [rows |-> FirstFiles[f], whole |-> TRUE]]

(* The instance that serves at first has been provisioned with rules.      *)
ASSUME RulesAtFirst == Rules(Start) # {}

Init ==
  /\ setup \in Setup
  /\ pc = [w \in Writer |-> IF w = First /\ setup.tor THEN "start" ELSE "off"]
  /\ at = [w \in Writer |-> 0] /\ got = [w \in Writer |-> {}]
  /\ page = [s \in DnsRun |-> [u \in DomainUrl |-> "asked"]]
  /\ temp = [exists |-> FALSE, list |-> [u \in DomainUrl |-> "none"]]
  /\ file = Start /\ event = {} /\ shared = {}
  /\ active = Loaded(Start) /\ serving = First
  /\ new = None /\ stage = None /\ crashed = FALSE
  /\ answered = [w \in Writer |-> {}] /\ hindered = {} /\ tainted = {}
-----------------------------------------------------------------------------
(* Writing.  open(..., "w") and os.WriteFile truncate; the rows follow.    *)

Output(w) ==
  CASE w \in {"ip"} \cup Instance -> "ip"
    [] w \in DnsRun -> "dns"
    [] w = "owasp"  -> "rules"
    [] w = "feeds"  -> Resources[at["feeds"]]
    [] OTHER        -> w

Writing(f) == {w \in Writer : pc[w] = "write" /\ Output(w) = f}

(* Until the end JSON is invalid, and a list is read as an empty one (one   *)
(* that can be read up to some row has lost less).                         *)
BeginWrite(w) ==
  /\ pc[w] = "save"
  /\ file' = [file EXCEPT ![Output(w)] = [rows |-> {}, whole |-> FALSE]]
  /\ event' = IF serving = None THEN {} ELSE event \cup {Output(w)}
  /\ shared' = shared \cup (IF Writing(Output(w)) = {} THEN {}
                            ELSE Writing(Output(w)) \cup {w})
  /\ pc' = [pc EXCEPT ![w] = "write"]
  /\ tainted' = tainted \cup (IF w \in Script THEN {Output(w)} \cap {"ip"} ELSE {})
  /\ UNCHANGED <<setup, got, script, waf>>

(* What is left where two writers were at a file at once.  Of a list the   *)
(* extremes: the rows of this writer, of both, of none.                    *)
Left(w) ==
  IF w \notin shared THEN {[rows |-> got[w], whole |-> TRUE]}
  ELSE IF Output(w) \in RuleFile
  THEN {[rows |-> got[w], whole |-> TRUE], [rows |-> {}, whole |-> FALSE]}
  ELSE {[rows |-> rows, whole |-> TRUE] :
          rows \in {got[w], got[w] \cup file[Output(w)].rows, {}}}

(* The update that Provision itself makes, before its goroutine starts.    *)
FirstUpdate(w) == new = w /\ stage = "tor"

(* Where a writer goes on: the DNS script to its temporary files, the      *)
(* bundle to its next resource, a first update to the rest of Provision.   *)
After(w) ==
  CASE w \in DnsRun -> "clean"
    [] w = "feeds" /\ at[w] < Len(Resources) -> "fetch"
    [] w \in Instance -> IF FirstUpdate(w) THEN "start" ELSE "rest"
    [] OTHER -> "done"

EndWrite(w) ==
  /\ pc[w] = "write"
  /\ \E left \in Left(w) : file' = [file EXCEPT ![Output(w)] = left]
  /\ event' = IF serving = None THEN {} ELSE event \cup {Output(w)}
  /\ shared' = (shared \ {w}) \cup (Writing(Output(w)) \ {w})
  /\ pc' = [pc EXCEPT ![w] = After(w)]
  /\ at' = [at EXCEPT ![w] = IF w = "feeds" /\ After(w) = "fetch" THEN @ + 1
                             ELSE 0]
  /\ got' = [got EXCEPT ![w] = {}] /\ answered' = [answered EXCEPT ![w] = {}]
  /\ hindered' = hindered \ {w}
  /\ stage' = IF FirstUpdate(w) THEN "load" ELSE stage
  /\ tainted' = tainted \cup (IF w \in shared THEN {Output(w)} ELSE {})
  /\ UNCHANGED <<setup, page, temp, active, serving, new, crashed>>
-----------------------------------------------------------------------------
(* The scripts. *)

Run(s) ==
  /\ pc[s] = "off" /\ s \in setup.scripts
  /\ at' = [at EXCEPT ![s] = IF s \in RuleRun THEN 0 ELSE 1]
  /\ got' = [got EXCEPT ![s] = IF s = "vulnerability" THEN VulnerabilityRules
                               ELSE {}]
  /\ pc' = [pc EXCEPT ![s] = IF s = "vulnerability" THEN "save" ELSE "fetch"]
  /\ temp' = IF s \in DnsRun THEN [temp EXCEPT !.exists = TRUE] ELSE temp
  /\ UNCHANGED <<setup, page, answered, hindered, files, waf, tainted>>

(* A script that saves nothing more ends.                                  *)
Ends(s, how) ==
  /\ pc' = [pc EXCEPT ![s] = how]
  /\ at' = [at EXCEPT ![s] = 0] /\ got' = [got EXCEPT ![s] = {}]
  /\ answered' = [answered EXCEPT ![s] = {}]

(* Killed, stopped by an error in its write, or the machine goes down:     *)
(* what it has written stays as it is.                                     *)
Kill(s) ==
  /\ pc[s] \in {"fetch", "save", "write", "clean"}
  /\ Ends(s, "killed")
  /\ page' = IF s \in DnsRun THEN [page EXCEPT ![s] = [u \in DomainUrl |-> "asked"]]
             ELSE page
  /\ hindered' = hindered \ {s}
  /\ shared' = shared \ {s}
  /\ tainted' = tainted \cup (IF pc[s] = "write" THEN {Output(s)} ELSE {})
  /\ UNCHANGED <<setup, temp, file, event, waf>>

Collect(s, rows, source) ==
  /\ got' = [got EXCEPT ![s] = @ \cup rows]
  /\ answered' = [answered EXCEPT ![s] = @ \cup {source}]

(* get_blacklisted_ip.py: one list after the other, and the Tor project's  *)
(* last; one that fails is passed over.                                    *)
FetchIps ==
  /\ pc["ip"] = "fetch" /\ at["ip"] <= Len(IpSources)
  /\ LET source == IpSources[at["ip"]]
     IN  \/ Collect("ip", ExtractIps(Page[source]), source)
         \/ UNCHANGED <<got, answered>>
  /\ at' = [at EXCEPT !["ip"] = @ + 1]
  /\ UNCHANGED <<setup, pc, page, temp, hindered, files, waf, tainted>>

FetchTorExits ==
  /\ pc["ip"] = "fetch" /\ at["ip"] > Len(IpSources)
  /\ \/ Collect("ip", ExtractTorExitNodes(Page[TorExits]), TorExits)
     \/ UNCHANGED <<got, answered>>
  /\ pc' = [pc EXCEPT !["ip"] = "save"]
  /\ UNCHANGED <<setup, at, page, temp, hindered, files, waf, tainted>>

(* Variant: an exception ends the download but not the script.             *)
FetchRulesAnyway(s) ==
  /\ pc[s] = "fetch"
  /\ at' = [at EXCEPT ![s] = @ + 1]
  /\ \/ at[s] = 0 /\ UNCHANGED <<pc, got, answered, tainted>>
     \/ pc' = [pc EXCEPT ![s] = "save"] /\ UNCHANGED <<got, answered, tainted>>
     \/ /\ at[s] > 0
        /\ Collect(s, OwaspRules(Page[ConfFiles[at[s]]]), ConfFiles[at[s]])
        /\ pc' = [pc EXCEPT ![s] = IF at[s] = Len(ConfFiles) THEN "save" ELSE @]
        /\ UNCHANGED tainted
  /\ UNCHANGED <<setup, page, temp, hindered, files, waf>>

(* get_owasp_rules.py, get_spiderlabs_rules.py: the listing, then a file   *)
(* after the other.  An exception ends the script and saves nothing; the   *)
(* status of a file is not looked at, and an error page has no rules.      *)
FetchRules(s) ==
  /\ pc[s] = "fetch"
  /\ \/ Ends(s, "done") /\ UNCHANGED tainted
     \/ /\ at' = [at EXCEPT ![s] = @ + 1]
        /\ \/ at[s] = 0 /\ UNCHANGED <<pc, got, answered, tainted>>
           \/ /\ at[s] > 0
              /\ \/ /\ Collect(s, OwaspRules(Page[ConfFiles[at[s]]]),
                            ConfFiles[at[s]])
                    /\ UNCHANGED tainted
                 \/ /\ tainted' = tainted \cup {Output(s)}
                    /\ UNCHANGED <<got, answered>>
              /\ pc' = [pc EXCEPT ![s] = IF at[s] = Len(ConfFiles) THEN "save"
                                         ELSE @]
  /\ UNCHANGED <<setup, page, temp, hindered, files, waf>>

DownloadOwaspRules      == FetchRules("owasp")
DownloadSpiderlabsRules == FetchRules("spiderlabs")

(* get_caddy_feeds.py: each resource is written as it comes; a status that *)
(* is not 200 passes it over, an exception ends the script.                *)
FetchResource ==
  /\ pc["feeds"] = "fetch"
  /\ \/ /\ got' = [got EXCEPT !["feeds"] = Bundle[Resources[at["feeds"]]]]
        /\ pc' = [pc EXCEPT !["feeds"] = "save"]
        /\ UNCHANGED <<at, answered>>
     \/ /\ at["feeds"] < Len(Resources)
        /\ at' = [at EXCEPT !["feeds"] = @ + 1]
        /\ UNCHANGED <<pc, got, answered>>
     \/ Ends("feeds", "done")
  /\ UNCHANGED <<setup, page, temp, hindered, files, waf, tainted>>

(* download_domain_list, in a thread per list.  Its file in the temporary  *)
(* directory, which must exist, is opened with truncation and then         *)
(* written; every exception gives None.                                    *)
BeginDownload(s, u) ==
  /\ pc[s] = "fetch" /\ page[s][u] = "asked"
  /\ \/ /\ page' = [page EXCEPT ![s][u] = "none"]
        /\ UNCHANGED <<temp, answered, hindered>>
     \/ /\ temp.exists
        /\ page' = [page EXCEPT ![s][u] = "writing"]
        /\ temp' = [temp EXCEPT !.list[u] = s]
        /\ UNCHANGED <<answered, hindered>>
     \/ /\ ~temp.exists
        /\ page' = [page EXCEPT ![s][u] = "none"]
        /\ answered' = [answered EXCEPT ![s] = @ \cup {u}]
        /\ hindered' = hindered \cup {s}
        /\ UNCHANGED temp
  /\ UNCHANGED <<setup, pc, at, got, files, waf, tainted>>

(* A file that was removed meanwhile is written all the same, unseen; one  *)
(* that another run has truncated since is whole when that one has written *)
(* it.                                                                     *)
EndDownload(s, u) ==
  /\ pc[s] = "fetch" /\ page[s][u] = "writing"
  /\ \/ /\ page' = [page EXCEPT ![s][u] = "none"]
        /\ UNCHANGED <<temp, answered>>
     \/ /\ page' = [page EXCEPT ![s][u] = "saved"]
        /\ answered' = [answered EXCEPT ![s] = @ \cup {u}]
        /\ temp' = IF temp.list[u] = s THEN [temp EXCEPT !.list[u] = "whole"]
                   ELSE temp
  /\ UNCHANGED <<setup, pc, at, got, hindered, files, waf, tainted>>

(* Main takes the downloads as they are completed; a file that is gone is  *)
(* an exception, and main waits for the pool before the run ends with it.  *)
(* One that is being written is read up to some line: the extremes.        *)
ProcessDomainList(s, u) ==
  /\ pc[s] = "fetch" /\ page[s][u] = "saved"
  /\ \A v \in DomainUrl : page[s][v] # "gone"
  /\ \/ /\ temp.list[u] = "whole"
        /\ got' = [got EXCEPT ![s] = @ \cup ExtractDomains(Page[u])]
        /\ page' = [page EXCEPT ![s][u] = "read"]
        /\ UNCHANGED hindered
     \/ /\ temp.list[u] \in DnsRun
        /\ \E rows \in {{}, ExtractDomains(Page[u])} :
             got' = [got EXCEPT ![s] = @ \cup rows]
        /\ page' = [page EXCEPT ![s][u] = "read"]
        /\ hindered' = hindered \cup {s}
     \/ /\ temp.list[u] = "none"
        /\ page' = [page EXCEPT ![s][u] = "gone"]
        /\ UNCHANGED <<got, hindered>>
  /\ UNCHANGED <<setup, pc, at, temp, answered, files, waf, tainted>>

(* Variant: the first download that comes to nothing ends the loop.        *)
PoolDoneEarly(s) ==
  /\ pc[s] = "fetch"
  /\ \E u \in DomainUrl : page[s][u] \in {"none", "read"}
  /\ pc' = [pc EXCEPT ![s] = "save"]
  /\ UNCHANGED <<setup, got, script, files, waf, tainted>>

PoolDone(s) ==
  /\ pc[s] = "fetch"
  /\ \/ /\ \A u \in DomainUrl : page[s][u] \in {"none", "read"}
        /\ pc' = [pc EXCEPT ![s] = "save"]
        /\ UNCHANGED <<at, got, answered, hindered>>
     \/ /\ \E u \in DomainUrl : page[s][u] = "gone"
        /\ \A u \in DomainUrl : page[s][u] \notin {"asked", "writing"}
        /\ Ends(s, "done") /\ hindered' = hindered \ {s}
  /\ page' = [page EXCEPT ![s] = [u \in DomainUrl |-> "asked"]]
  /\ UNCHANGED <<setup, temp, files, waf, tainted>>

(* cleanup_temp_dir removes one file after the other, whoever downloaded   *)
(* it, and then the directory.                                             *)
RemoveDownload(s, u) ==
  /\ pc[s] = "clean" /\ temp.list[u] # "none"
  /\ temp' = [temp EXCEPT !.list[u] = "none"]
  /\ UNCHANGED <<setup, pc, at, got, page, answered, hindered, files, waf, tainted>>

(* Anything that is gone already, or a file that came meanwhile, ends it   *)
(* with an exception, the list being saved.                                *)
Cleanup(s) ==
  /\ pc[s] = "clean"
  /\ \/ /\ temp.exists /\ \A u \in DomainUrl : temp.list[u] = "none"
        /\ temp' = [temp EXCEPT !.exists = FALSE]
     \/ UNCHANGED temp
  /\ pc' = [pc EXCEPT ![s] = "done"]
  /\ UNCHANGED <<setup, at, got, page, answered, hindered, files, waf, tainted>>

DownloadAndProcessAll(s) ==
  \/ PoolDone(s) \/ Cleanup(s)
  \/ \E u \in DomainUrl : \/ BeginDownload(s, u) \/ EndDownload(s, u)
                          \/ ProcessDomainList(s, u) \/ RemoveDownload(s, u)
-----------------------------------------------------------------------------
(* The Tor updater of an instance. *)

Tick(i) ==
  /\ pc[i] = "rest"
  /\ pc' = [pc EXCEPT ![i] = "ask"]
  /\ UNCHANGED <<setup, got, script, files, waf, tainted>>

Asked(i) ==
  /\ pc[i] = "ask"
  /\ pc' = [pc EXCEPT ![i] = "read"]
  /\ got' = [got EXCEPT ![i] = ExitNodes]
  /\ UNCHANGED <<setup, script, files, waf, tainted>>

(* No answer, or not 200; the list cannot be read, opened or written, with *)
(* what has been written of it left in place: the loop waits for the retry *)
(* interval and then for the next tick; in Provision it is an error.       *)
UpdateFails(i) ==
  /\ pc[i] \in {"ask", "read", "save", "write"}
  /\ pc' = [pc EXCEPT ![i] = IF FirstUpdate(i) THEN "off" ELSE "rest"]
  /\ got' = [got EXCEPT ![i] = {}]
  /\ shared' = shared \ {i}
  /\ tainted' = tainted \cup (IF pc[i] = "write" THEN {"ip"} ELSE {})
  /\ IF FirstUpdate(i) THEN new' = None /\ stage' = None ELSE UNCHANGED <<new, stage>>
  /\ UNCHANGED <<setup, script, file, event, active, serving, crashed>>

(* Variant: the list is replaced by what was downloaded. *)
ReadExistingNot(i) ==
  /\ pc[i] = "read"
  /\ pc' = [pc EXCEPT ![i] = "save"]
  /\ UNCHANGED <<setup, got, script, files, waf, tainted>>

(* readExistingBlacklist, and the merge of both lists without duplicates.  *)
ReadExisting(i) ==
  /\ pc[i] = "read"
  /\ got' = [got EXCEPT ![i] = @ \cup file["ip"].rows]
  /\ tainted' = tainted \cup (IF file["ip"].whole THEN {} ELSE {"ip"})
  /\ pc' = [pc EXCEPT ![i] = "save"]
  /\ UNCHANGED <<setup, script, files, waf>>

(* scheduleUpdates parses the interval when it starts.  Provision sets the *)
(* default only after it has started this goroutine.                       *)
ScheduleUpdates(i) ==
  /\ pc[i] = "start"
  /\ pc' = [pc EXCEPT ![i] = IF setup.interval \/ new # i THEN "rest" ELSE "over"]
  /\ UNCHANGED <<setup, got, script, files, waf, tainted>>

UpdateTorExitNodes(i) == Asked(i) \/ ReadExisting(i) \/ UpdateFails(i)
-----------------------------------------------------------------------------
(* The WAF. *)

(* The server starts, or `caddy reload`: Provision first updates the list. *)
Provision(i) ==
  /\ new = None /\ pc[i] = "off" /\ serving # i
  /\ serving # None => "reload" \in setup.restarts
  /\ new' = i
  /\ stage' = IF setup.tor THEN "tor" ELSE "load"
  /\ pc' = [pc EXCEPT ![i] = IF setup.tor THEN "ask" ELSE "off"]
  /\ UNCHANGED <<setup, got, script, files, active, serving, crashed, tainted>>

(* The process ends, with every instance, in the middle of whatever its    *)
(* updaters are writing.                                                   *)
ProcessEnds ==
  /\ pc' = [w \in Writer |-> IF w \in Instance THEN "off" ELSE pc[w]]
  /\ got' = [w \in Writer |-> IF w \in Instance THEN {} ELSE got[w]]
  /\ shared' = shared \ Instance
  /\ tainted' = tainted \cup {f \in {"ip"} : \E i \in Instance : pc[i] = "write"}

(* Lists and rules; no rule at all is an error, and a server that does not *)
(* start ends.  A reload that fails leaves its updater running, as nobody  *)
(* stops the updater of an earlier instance.                               *)
Load ==
  /\ stage = "load"
  /\ IF Rules(file) = {}
     THEN /\ UNCHANGED <<active, serving, event>>
          /\ IF serving = None THEN ProcessEnds
             ELSE UNCHANGED <<pc, got, shared, tainted>>
     ELSE /\ active' = Loaded(file) /\ serving' = new /\ event' = {}
          /\ UNCHANGED <<pc, got, shared, tainted>>
  /\ new' = None /\ stage' = None
  /\ UNCHANGED <<setup, script, file, crashed>>

(* Variant: a reload of the lists leaves the IP blacklist to the updater.  *)
TakeEventSkipsIPs(f) ==
  /\ f \in event /\ serving # None
  /\ event' = event \ {f}
  /\ active' = [Loaded(file) EXCEPT !.ip = active.ip]
  /\ UNCHANGED <<setup, pc, got, script, file, shared, serving, new, stage,
                 crashed, tainted>>

(* A watcher: ReloadConfig, or ReloadRules for a rule file.                *)
TakeEvent(f) ==
  /\ f \in event /\ serving # None
  /\ event' = event \ {f}
  /\ active' = IF f \in RuleFile THEN [active EXCEPT !.rules = Rules(file)]
               ELSE Loaded(file)
  /\ UNCHANGED <<setup, pc, got, script, file, shared, serving, new, stage,
                 crashed, tainted>>

(* The server dies, once. *)
Crash ==
  /\ "crash" \in setup.restarts /\ ~crashed
  /\ crashed' = TRUE
  /\ ProcessEnds
  /\ active' = Nothing /\ serving' = None /\ event' = {}
  /\ new' = None /\ stage' = None
  /\ UNCHANGED <<setup, script, file>>

Write(w) == BeginWrite(w) \/ EndWrite(w)

Scripted ==
  \/ FetchIps \/ FetchTorExits \/ DownloadOwaspRules \/ DownloadSpiderlabsRules
  \/ FetchResource
  \/ \E s \in DnsRun : DownloadAndProcessAll(s)
  \/ \E s \in Script : Run(s) \/ Kill(s) \/ Write(s)

Updater(i) == Tick(i) \/ UpdateTorExitNodes(i) \/ ScheduleUpdates(i) \/ Write(i)

Next ==
  \/ Scripted \/ Load \/ Crash
  \/ \E i \in Instance : Updater(i) \/ Provision(i)
  \/ \E f \in File : TakeEvent(f)

Spec == Init /\ [][Next]_vars

(* The server is started again, its goroutines run, and downloading the    *)
(* exit list, reading, opening and writing the file work again and again,  *)
(* if not always.  Updates are hours apart: a watcher does not find the    *)
(* list half written every time it looks.                                  *)
(* Scripts owe nothing, but none stays in the middle of a write for ever.  *)
Fairness ==
  /\ \A i \in Instance : WF_vars(Updater(i))
  /\ SF_vars(\E i \in Instance : Asked(i))
  /\ SF_vars(\E i \in Instance : ReadExisting(i))
  /\ SF_vars(\E i \in Instance : BeginWrite(i))
  /\ SF_vars(\E i \in Instance : EndWrite(i))
  /\ WF_vars(serving = None /\ \E i \in Instance : Provision(i))
  /\ WF_vars(Load)
  /\ SF_vars(file["ip"].whole /\ TakeEvent("ip"))
  /\ WF_vars(EndWrite("ip") \/ (pc["ip"] = "write" /\ Kill("ip")))

FairSpec == Spec /\ Fairness
-----------------------------------------------------------------------------
Extracted(s, source) ==
  CASE s \in DnsRun                     -> ExtractDomains(Page[source])
    [] s = "ip" /\ source = TorExits    -> ExtractTorExitNodes(Page[source])
    [] s = "ip" /\ source # TorExits    -> ExtractIps(Page[source])
    [] s \in RuleRun                    -> OwaspRules(Page[source])

(* A script that saves saves what every source that answered lists, and    *)
(* nothing else, in whatever order parallel downloads ended: unless it     *)
(* shared the file with another writer, or, for the DNS script, another    *)
(* run had removed the temporary directory when it came to write there, or *)
(* was writing the very list in it that it read.                           *)
SavedListIsWhole ==
  [][\A s \in Script \ {"vulnerability", "feeds"} :
       (pc[s] = "write" /\ pc'[s] \in {"done", "clean"}
          /\ s \notin shared \cup hindered)
         => file'[Output(s)].rows = UNION {Extracted(s, p) : p \in answered[s]}]_vars

(* What was put into the IP list by hand is there whenever nobody is       *)
(* writing it, through any number of Tor updates of several instances,     *)
(* failed ones, restarts and reloads.  Except once a script has begun to   *)
(* replace the file, a write of it has failed or been cut off after the    *)
(* truncation, two writers have met in it, or an updater has merged it     *)
(* while it was half written.                                              *)
OwnEntriesStay ==
  (Writing("ip") = {} /\ "ip" \notin tainted) => Own \subseteq file["ip"].rows

(* Downloads that fail leave the rules alone: at rest, the WAF is without  *)
(* rules only if a script was cut off in its write of a rule file, two met *)
(* in one, or a script of rule sets took an error page for rules.          *)
RulesSurviveDownloads ==
  (/\ serving # None /\ event = {}
   /\ \A f \in RuleFile : Writing(f) = {}
   /\ tainted \cap RuleFile = {})
    => active.rules # {}

(* "On each tick it fetches the current exit-node list": with the interval *)
(* configured, the exit nodes are in force again and again, whatever       *)
(* scripts, half-written lists, failed updates, crashes and reloads took   *)
(* them out, unless writers meet in the list again and again.  (A server   *)
(* without any rule does not start.)                                       *)
TorNodesReturn ==
  []<>((setup.tor /\ setup.interval /\ Rules(file) # {})
         => Addresses(ExitNodes) \subseteq active.ip \/ shared # {})
=============================================================================
