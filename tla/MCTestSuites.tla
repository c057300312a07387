---------------------------- MODULE MCTestSuites ----------------------------
(* Rules, configurations and the tools that meet, for TLC. *)
EXTENDS TestSuites

Rule(param, values, score, mode) ==
  [param |-> param, values |-> values, score |-> score, mode |-> mode]

(* As in sample_rules.json. *)
Sample == <<Rule("test", {"low_score_test"}, 1, "log"),
            Rule("param1", {"score2"}, 2, "log"),
            Rule("param2", {"score2"}, 2, "log"),
            Rule("param1", {"score3"}, 3, "log"),
            Rule("param2", {"score3"}, 3, "log"),
            Rule("block", {"true"}, 0, "block"),
            Rule("increment", {"score1"}, 1, "log"),
            Rule("increment", {"score2"}, 2, "log"),
            Rule("increment", {"score3"}, 3, "log")>>

(* Too high for test 2, too low for test 3; the block rule does not block. *)
Skewed == <<Rule("param1", {"score2"}, 4, "log"), Rule("param2", {"score2"}, 1, "log"),
            Rule("param1", {"score3"}, 4, "log"), Rule("param2", {"score3"}, 0, "log"),
            Rule("block", {"true"}, 1, "log")>>

(* Two rules for one value, and one that is missing.                       *)
Doubled == <<Rule("param1", {"score2", "score3"}, 3, "log"),
             Rule("param1", {"score2"}, 1, "log"),
             Rule("param2", {"score2"}, 2, "log")>>

SomeFiles == {Sample, Skewed, Doubled, <<>>}

E2eRule(phase, target, action) ==
  [phase |-> phase, target |-> target, action |-> action]

SomeRules == <<E2eRule(1, "URL_PARAM", "block"), E2eRule(1, "HEADERS", "block"),
               E2eRule(2, "ARGS", "log"), E2eRule(3, "BODY", "block"),
               E2eRule(4, "BODY", "log"), E2eRule(1, "URI", "pass")>>

Handler(handler, limit) == [handler |-> handler, threshold |-> limit]
SomeConfigs == {<<<<Handler("waf", None)>>, <<Handler("waf", 7), Handler("reverse_proxy", None)>>>>,
                <<<<Handler("reverse_proxy", None)>>>>}

Expectations == <<200, 403>>

Together(tools, files, thresholds, restarts) ==
  [tools |-> tools, files |-> files, thresholds |-> thresholds, restarts |-> restarts]

Meetings == {Together({"bench1", "bench2"}, {<<>>}, {5}, FALSE),
             Together({"e2e"}, {<<>>}, {5}, TRUE),
             Together({"check", "debug"}, SomeFiles, {5, 7}, TRUE),
             Together({"check", "results"}, SomeFiles, {5}, TRUE)}
=============================================================================
