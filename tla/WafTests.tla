------------------------------ MODULE WafTests ------------------------------
(***************************************************************************)
(* What the Python test tools ask of the WAF and make of its answers, and  *)
(* what the WAF answers to these requests.  A rule of the rules file is    *)
(* [param, values, score, mode]: it looks at one query parameter for one   *)
(* of several literal values.  Scores are always given.                    *)
(***************************************************************************)
EXTENDS Integers, Sequences, SequencesExt

CONSTANT None

Arg(param, value) == [param |-> param, value |-> value]

(* test_cases of debug_test_results.py, the first four also of             *)
(* debug_waf.py.                                                           *)
TestCases == <<"low", "below", "exceed", "block", "inc1", "inc2", "inc3">>

Payload(c) ==
  CASE c = "low"    -> {Arg("test", "low_score_test")}
    [] c = "below"  -> {Arg("param1", "score2"), Arg("param2", "score2")}
    [] c = "exceed" -> {Arg("param1", "score3"), Arg("param2", "score3")}
    [] c = "block"  -> {Arg("block", "true")}
    [] c = "inc1"   -> {Arg("increment", "score1")}
    [] c = "inc2"   -> {Arg("increment", "score2")}
    [] c = "inc3"   -> {Arg("increment", "score3")}

ExpectedStatus(c) == IF c \in {"exceed", "block"} THEN 403 ELSE 200
-----------------------------------------------------------------------------
(* The WAF: every rule that matches adds its score, a match blocks by its  *)
(* mode or by the sum so far (see WafPipeline).                            *)

Looks(rule, arg) == rule.param = arg.param /\ arg.value \in rule.values

(* The places of the rules that match. *)
Matching(rules, payload) ==
  {n \in DOMAIN rules : \E arg \in payload : Looks(rules[n], arg)}

ScoreSum(rules, hits) ==
  SumFunctionOnSet([n \in DOMAIN rules |-> rules[n].score], hits)

Answer(rules, threshold, payload) ==
  LET hits == Matching(rules, payload)
  IN  IF \E n \in hits : \/ rules[n].mode = "block"
                         \/ ScoreSum(rules, {m \in hits : m <= n}) >= threshold
      THEN 403 ELSE 200
-----------------------------------------------------------------------------
(* check_waf_config.py *)

RequiredTests == UNION {Payload(c) : c \in ToSet(TestCases)}

(* rule_scores: the last rule that is found counts.                        *)
RuleScore(rules, arg) ==
  LET found == Matching(rules, {arg})
  IN  IF found = {} THEN 0 ELSE rules[Max(found)].score

ScoresOf(rules, payload) ==
  SumFunctionOnSet([arg \in payload |-> RuleScore(rules, arg)], payload)

MissingTests(rules) == {a \in RequiredTests : Matching(rules, {a}) = {}}

(* Variant: the threshold must be exceeded. *)
ShouldBlockAbove(rules, c) ==
  IF Payload(c) \cap MissingTests(rules) # {} THEN None
  ELSE IF c = "block"
  THEN IF rules[Max(Matching(rules, Payload(c)))].mode = "block" THEN "yes" ELSE "no"
  ELSE IF ScoresOf(rules, Payload(c)) > 5 THEN "yes" ELSE "no"

(* "Should Block", None if a rule is missing; the threshold is always 5.   *)
ShouldBlock(rules, c) ==
  IF Payload(c) \cap MissingTests(rules) # {} THEN None
  ELSE IF c = "block"
  THEN IF rules[Max(Matching(rules, Payload(c)))].mode = "block" THEN "yes" ELSE "no"
  ELSE IF ScoresOf(rules, Payload(c)) >= 5 THEN "yes" ELSE "no"

CheckRuleCoverage(rules) ==
  [c \in {"below", "exceed", "block"} |-> ShouldBlock(rules, c)]
-----------------------------------------------------------------------------
(* benchmark.py.  ab cannot be run, or ends without a report (its output   *)
(* then has none of the numbers), or reports whether there were responses  *)
(* other than 2xx.                                                         *)
AbReport == {"not run", "no report", "clean", "non-2xx"}

BenchOutcome(expected, report) ==
  CASE report = "not run" -> "FAIL"
    [] report # "not run" /\ expected = 200 ->
         IF report = "non-2xx" THEN "WARN" ELSE "PASS"
    [] report # "not run" /\ expected = 403 ->
         IF report = "non-2xx" THEN "PASS" ELSE "FAIL"
    [] OTHER -> "WARN"
-----------------------------------------------------------------------------
(* e2e.py.  A rule is [phase, target, action].                             *)

(* Whom the curl command asks.  "URL" is also found in "URL_PARAM", and    *)
(* such a rule's pattern is asked for as if it were an address.            *)
Command(rule) ==
  CASE rule.phase = 1 /\ rule.target \in {"URL", "URL_PARAM"} -> "elsewhere"
    [] rule.phase = 1 /\ rule.target \in
         {"HEADERS", "URI", "COOKIES", "METHOD", "REMOTE_IP", "PROTOCOL",
          "HOST", "JSON_PATH", "CONTENT_TYPE"} -> "server"
    [] rule.phase = 2 /\ rule.target \in
         {"BODY", "ARGS", "FILE_NAME", "FILE_MIME_TYPE"} -> "server"
    [] rule.phase = 3 /\ rule.target \in {"HEADERS", "RESPONSE_HEADERS"} -> "server"
    [] rule.phase = 4 /\ rule.target = "BODY" -> "server"
    [] OTHER -> "unsupported"

(* Without a status in curl's output (0), the one that passes is assumed.  *)
StatusCode(rule, parsed) ==
  CASE parsed # 0 -> parsed
    [] parsed = 0 /\ rule.action = "block" -> 403
    [] parsed = 0 /\ rule.action = "log"   -> 200
    [] OTHER -> 0

(* A block rule "matched" if the answer is an error; that it did not is as *)
(* good, with 200.                                                         *)
ValidateResponse(rule, status) ==
  \/ rule.action = "log" /\ status = 200
  \/ rule.action = "block" /\ status \in (400 .. 599) \cup {200}
=============================================================================
