----------------------------- MODULE TestSuites -----------------------------
(***************************************************************************)
(* The test tools at work: benchmark.py with its file of earlier results   *)
(* ("bench1" and "bench2" are two terminals), e2e.py, check_waf_config.py  *)
(* ("check"), debug_waf.py ("debug") and debug_test_results.py             *)
(* ("results").  They may be killed at any point, the server may be down,  *)
(* and the rules file may be edited meanwhile.                             *)
(***************************************************************************)
EXTENDS WafTests, FiniteSets

CONSTANTS
  Setup,       (* what happens together: the tools, what the rules file    *)
               (* may hold (<<>> if it is not JSON), the anomaly_threshold *)
               (* of the WAF, and whether it goes down and up              *)
  Benchmarks,  (* the expected codes of test_suite_config                  *)
  Rules,       (* rules_test.json                                          *)
  Statuses,      (* what the server answers to e2e.py, 0 for none            *)
  Configs,     (* what the admin API returns: the routes of all servers    *)
  MaxRuns,     (* bound: how often benchmark.py is run                     *)
  MaxEdits     (* bound: how often the rules file is edited                *)

Bench  == {"bench1", "bench2"}
Caser  == {"debug", "results"}
Script == Bench \cup Caser \cup {"e2e", "check"}

ASSUME TestSuitesAssumption ==
  /\ \A s \in Setup : s.tools \subseteq Script /\ s.restarts \in BOOLEAN
                      /\ s.thresholds \subseteq Nat \ {0}
                      /\ \A f \in s.files :
                           /\ f \in Seq(ToSet(f))
                           /\ \A n \in DOMAIN f : f[n].score \in Nat
  /\ Statuses \subseteq Nat /\ MaxRuns \in Nat /\ MaxEdits \in Nat

VARIABLES
  setup,      (* what happens in this behaviour                            *)
  doing,      (* where a tool is                                           *)
  results,    (* of its tests so far                                       *)
  report,     (* what it says at its end                                   *)
  runs,       (* how many runs of benchmark.py have started                *)
  id,         (* the run a terminal makes; it stands for its timestamp     *)
  loaded,     (* benchmark_data                                            *)
  file,       (* benchmark.json: its records, and whether it is valid JSON *)
  kept,       (* history: runs that nothing has endangered, see below      *)
  overlapped, (* history: terminals whose run has met another              *)
  up,         (* whether the server answers                                *)
  rules, threshold,   (* of the WAF                                        *)
  ruleFile,   (* the rules file                                            *)
  edits,      (* how often it has been edited                              *)
  predicted,  (* history: what check says of the file as it is             *)
  answers     (* history: what the rules in force have answered            *)

tool    == <<doing, results, report>>
bench   == <<runs, id, loaded, file>>
danger  == <<kept, overlapped>>
waf     == <<up, rules, threshold, ruleFile, edits>>
said    == <<predicted, answers>>
suiteVars    == <<setup, tool, bench, danger, waf, said>>

NoAnswers == [c \in ToSet(TestCases) |-> {}]

SuitesInit ==
  /\ setup \in Setup
  /\ doing = [s \in Script |-> "off"] /\ results = [s \in Script |-> <<>>]
  /\ report = [s \in Script |-> None]
  /\ runs = 0 /\ id = [s \in Bench |-> 0] /\ loaded = [s \in Bench |-> <<>>]
  /\ file = [records |-> <<>>, whole |-> FALSE]
  /\ kept = {} /\ overlapped = {}
  /\ up = TRUE /\ threshold \in setup.thresholds
  /\ ruleFile \in setup.files /\ rules = ruleFile /\ edits = 0
  /\ predicted = None /\ answers = NoAnswers

Go(s, where) == doing' = [doing EXCEPT ![s] = where]
Busy(s)      == doing[s] \notin {"off", "done"}
Has(s, x)    == results' = [results EXCEPT ![s] = Append(@, x)]

(* A tool that has ended leaves what it said or wrote.                     *)
Ends(s, what) ==
  /\ Go(s, "done")
  /\ results' = [results EXCEPT ![s] = <<>>]
  /\ report' = [report EXCEPT ![s] = what]
-----------------------------------------------------------------------------
(* benchmark.py *)

OtherBusy(s)    == \E t \in Bench \ {s} : Busy(t)
OtherWriting(s) == \E t \in Bench \ {s} : doing[t] = "write"

(* Variant: earlier results are not looked at. *)
LoadBenchmarksNot(s) ==
  /\ s \in setup.tools /\ ~Busy(s) /\ runs < MaxRuns
  /\ runs' = runs + 1 /\ id' = [id EXCEPT ![s] = runs + 1]
  /\ loaded' = [loaded EXCEPT ![s] = <<>>]
  /\ overlapped' = IF OtherBusy(s) THEN Bench ELSE overlapped \ {s}
  /\ kept' = IF OtherWriting(s) THEN {} ELSE kept
  /\ Go(s, "test")
  /\ UNCHANGED <<setup, results, report, file, waf, said>>

(* benchmark.json is read when the script starts; a file that is missing   *)
(* or no valid JSON counts as empty.                                       *)
LoadBenchmarks(s) ==
  /\ s \in setup.tools /\ ~Busy(s) /\ runs < MaxRuns
  /\ runs' = runs + 1 /\ id' = [id EXCEPT ![s] = runs + 1]
  /\ loaded' = [loaded EXCEPT ![s] = IF file.whole THEN file.records ELSE <<>>]
  /\ overlapped' = IF OtherBusy(s) THEN Bench ELSE overlapped \ {s}
  /\ kept' = IF OtherWriting(s) THEN {} ELSE kept
  /\ Go(s, "test")
  /\ UNCHANGED <<setup, results, report, file, waf, said>>

(* run_benchmark and what the loop prints of it.  Without a report the     *)
(* numbers are None, and to format them ends the script with a TypeError.  *)
RunBenchmark(s) ==
  /\ doing[s] = "test" /\ Len(results[s]) < Len(Benchmarks)
  /\ \E r \in AbReport :
       IF r = "no report" THEN Ends(s, None)
       ELSE /\ Has(s, [outcome  |-> BenchOutcome(Benchmarks[Len(results[s]) + 1], r),
                       measured |-> r # "not run"])
            /\ UNCHANGED <<doing, report>>
  /\ UNCHANGED <<setup, bench, danger, waf, said>>

Count(s, P(_)) == Cardinality({n \in DOMAIN results[s] : P(results[s][n])})

(* The summary; the averages are over the tests that were measured.        *)
RunRecord(s) ==
  [run  |-> id[s],
   pass |-> Count(s, LAMBDA r : r.outcome = "PASS"),
   warn |-> Count(s, LAMBDA r : r.outcome = "WARN"),
   fail |-> Count(s, LAMBDA r : r.outcome = "FAIL"),
   measured |-> Count(s, LAMBDA r : r.measured)]

(* The record is appended to what was read at the start, and everything is *)
(* written anew.                                                           *)
BeginSave(s) ==
  /\ doing[s] = "test" /\ Len(results[s]) = Len(Benchmarks)
  /\ loaded' = [loaded EXCEPT ![s] = Append(@, RunRecord(s))]
  /\ file' = [records |-> <<>>, whole |-> FALSE]
  /\ kept' = IF OtherWriting(s) THEN {} ELSE kept
  /\ Go(s, "write")
  /\ UNCHANGED <<setup, results, report, runs, id, overlapped, waf, said>>

(* Two that write at once may leave anything but valid JSON.               *)
EndSave(s) ==
  /\ doing[s] = "write"
  /\ \/ file' = [records |-> loaded[s], whole |-> TRUE]
     \/ /\ OtherWriting(s) \/ file.whole
        /\ file' = [records |-> <<>>, whole |-> FALSE]
  /\ kept' = IF s \in overlapped THEN kept ELSE kept \cup {id[s]}
  /\ Ends(s, Last(loaded[s]))
  /\ UNCHANGED <<setup, runs, id, loaded, overlapped, waf, said>>

Benchmark(s) ==
  LoadBenchmarks(s) \/ RunBenchmark(s) \/ BeginSave(s) \/ EndSave(s)
-----------------------------------------------------------------------------
(* e2e.py *)

E2eStart ==
  /\ "e2e" \in setup.tools /\ doing["e2e"] = "off"
  /\ Go("e2e", "test")
  /\ UNCHANGED <<setup, results, report, bench, danger, waf, said>>

(* run_test.  An address that is not the server's, or a server that is     *)
(* down, gives no status.                                                  *)
RunTest ==
  /\ doing["e2e"] = "test" /\ Len(results["e2e"]) < Len(Rules)
  /\ LET rule == Rules[Len(results["e2e"]) + 1]
     IN  IF Command(rule) = "unsupported"
         THEN Has("e2e", [success |-> FALSE, parsed |-> 0])
         ELSE \E code \in Statuses :
                /\ code # 0 => up /\ Command(rule) = "server"
                /\ Has("e2e", [success |-> ValidateResponse(rule, StatusCode(rule, code)),
                               parsed  |-> code])
  /\ UNCHANGED <<setup, doing, report, bench, danger, waf, said>>

E2eSummary ==
  /\ doing["e2e"] = "test" /\ Len(results["e2e"]) = Len(Rules)
  /\ Ends("e2e", [passed |-> Count("e2e", LAMBDA r : r.success),
                  failed |-> Count("e2e", LAMBDA r : ~r.success)])
  /\ UNCHANGED <<setup, bench, danger, waf, said>>

E2e == E2eStart \/ RunTest \/ E2eSummary
-----------------------------------------------------------------------------
(* Requests to the WAF.  A server that is down is an exception.            *)

Heard(c, status) == answers' = [answers EXCEPT ![c] = @ \cup {status}]

(* check_waf_config.py *)

CheckStart ==
  /\ "check" \in setup.tools /\ doing["check"] = "off"
  /\ IF up THEN Go("check", "load") /\ UNCHANGED <<results, report>>
     ELSE Ends("check", "unreachable")
  /\ UNCHANGED <<setup, bench, danger, waf, said>>

LoadRulesFromFile ==
  /\ doing["check"] = "load"
  /\ IF ruleFile = <<>> THEN Ends("check", "no rules") /\ UNCHANGED predicted
     ELSE /\ predicted' = CheckRuleCoverage(ruleFile)
          /\ IF Payload("block") \cap MissingTests(ruleFile) = {}
             THEN Go("check", "verify") /\ UNCHANGED <<results, report>>
             ELSE Ends("check", "complete")
  /\ UNCHANGED <<setup, bench, danger, waf, answers>>

CheckWafActive ==
  /\ doing["check"] = "verify"
  /\ IF up THEN LET status == Answer(rules, threshold, Payload("block"))
                IN  /\ Heard("block", status)
                    /\ Ends("check", IF status = 403 THEN "active" ELSE "inactive")
     ELSE Ends("check", "inactive") /\ UNCHANGED answers
  /\ UNCHANGED <<setup, bench, danger, waf, predicted>>

Check == CheckStart \/ LoadRulesFromFile \/ CheckWafActive
-----------------------------------------------------------------------------
(* debug_waf.py --test-rules, and debug_test_results.py *)

(* extract_waf_config: the waf handlers among the routes, and thresholds   *)
(* where they say one.                                                     *)
ExtractWafConfig(routes) ==
  LET handlers == SelectSeq(FlattenSeq(routes), LAMBDA h : h.handler = "waf")
  IN  [handlers   |-> handlers,
       thresholds |-> SelectSeq(handlers, LAMBDA h : h.threshold # None)]

(* The admin API may be off; without a waf handler nothing is tested.      *)
GetCaddyConfig ==
  /\ "debug" \in setup.tools /\ doing["debug"] = "off"
  /\ \/ Ends("debug", "no configuration")
     \/ \E routes \in Configs :
          IF ExtractWafConfig(routes).handlers = <<>>
          THEN Ends("debug", "no configuration")
          ELSE Go("debug", "ask") /\ UNCHANGED <<results, report>>
  /\ UNCHANGED <<setup, bench, danger, waf, said>>

ResultsStart ==
  /\ "results" \in setup.tools /\ doing["results"] = "off"
  /\ IF up THEN Go("results", "ask") /\ UNCHANGED <<results, report>>
     ELSE Ends("results", "unreachable")
  /\ UNCHANGED <<setup, bench, danger, waf, said>>

CasesOf(s) == IF s = "debug" THEN SubSeq(TestCases, 1, 4) ELSE TestCases

(* A response with an error status is false as a truth value: "response    *)
(* and ..." fails for every 403 that was expected.                         *)
Evaluated(c, status) ==
  [match     |-> status = ExpectedStatus(c),
   boolCheck |-> status < 400 /\ status = ExpectedStatus(c)]

AskCase(s) ==
  /\ doing[s] = "ask" /\ Len(results[s]) < Len(CasesOf(s))
  /\ LET c == TestCases[Len(results[s]) + 1]
         status == Answer(rules, threshold, Payload(c))
     IN  IF up
         THEN Has(s, Evaluated(c, status)) /\ Heard(c, status)
         ELSE /\ Has(s, [match |-> FALSE, boolCheck |-> FALSE])
              /\ UNCHANGED answers
  /\ UNCHANGED <<setup, doing, report, bench, danger, waf, predicted>>

(* debug_test_results.py looks for a test that matches but fails as a      *)
(* truth value.                                                            *)
Issues == {n \in {3, 4} : results["results"][n].match
                            /\ ~results["results"][n].boolCheck}

Summary(s) ==
  /\ doing[s] = "ask" /\ Len(results[s]) = Len(CasesOf(s))
  /\ Ends(s, [passes |-> Count(s, LAMBDA r : r.match),
              issues |-> IF s = "debug" THEN {} ELSE Issues])
  /\ UNCHANGED <<setup, bench, danger, waf, said>>

Debug == GetCaddyConfig \/ ResultsStart \/ \E s \in Caser : AskCase(s) \/ Summary(s)
-----------------------------------------------------------------------------
Kill(s) ==
  /\ Busy(s)
  /\ Ends(s, None)
  /\ kept' = IF doing[s] = "write" THEN {} ELSE kept
  /\ UNCHANGED <<setup, bench, overlapped, waf, said>>

(* The server goes down, or up again with the rules of the file.           *)
UpOrDown ==
  /\ setup.restarts /\ up' = ~up
  /\ rules' = IF up THEN rules ELSE ruleFile
  /\ answers' = IF up THEN answers ELSE NoAnswers
  /\ UNCHANGED <<setup, tool, bench, danger, threshold, ruleFile, edits, predicted>>

EditRules ==
  /\ edits < MaxEdits /\ edits' = edits + 1
  /\ ruleFile' \in setup.files \ {ruleFile}
  /\ predicted' = None
  /\ UNCHANGED <<setup, tool, bench, danger, up, rules, threshold, answers>>

(* The watcher of the WAF. *)
ReloadRules ==
  /\ up /\ rules # ruleFile
  /\ rules' = ruleFile
  /\ answers' = NoAnswers
  /\ UNCHANGED <<setup, tool, bench, danger, up, threshold, ruleFile, edits, predicted>>

Environment == UpOrDown \/ EditRules \/ ReloadRules \/ \E s \in Script : Kill(s)

SuitesNext == E2e \/ Check \/ Debug \/ Environment \/ \E s \in Bench : Benchmark(s)

SuitesSpec == SuitesInit /\ [][SuitesNext]_suiteVars
-----------------------------------------------------------------------------
(* benchmark.json keeps every run that was completed with no other run     *)
(* beside it, through failed, aborted and killed runs, until one is killed *)
(* in its write or starts or writes while another is writing.              *)
BenchmarksAreKept ==
  (\A s \in Bench : doing[s] # "write")
    => \A r \in kept : \E n \in DOMAIN file.records : file.records[n].run = r

(* One rule for each value that the tests send, which only scores, except  *)
(* for the one of "block".                                                 *)
OneRuleEach(rs) ==
  \A c \in {"below", "exceed", "block"} : \A arg \in Payload(c) :
    \E n \in DOMAIN rs : /\ Matching(rs, {arg}) = {n}
                         /\ c # "block" => rs[n].mode # "block"

(* What check_waf_config.py says of tests 2, 3 and 4 comes true: with one  *)
(* rule for each value, the threshold 5 it assumes and the file loaded,    *)
(* every such test that anybody sends is answered as predicted, however    *)
(* edits, reloads, restarts and tests follow each other.  ("block" needs a *)
(* score below 5 if the rule is not to block by mode.)                     *)
PredictionsComeTrue ==
  (predicted # None /\ rules = ruleFile /\ threshold = 5 /\ OneRuleEach(rules))
    => \A c \in {"below", "exceed", "block"} :
         /\ predicted[c] = "yes" => answers[c] \subseteq {403}
         /\ predicted[c] = "no" /\ (c = "block" => ScoreSum(rules, Matching(rules, Payload(c))) < 5)
              => answers[c] \subseteq {200}
=============================================================================
