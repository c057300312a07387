---------------------------- MODULE RuleLoading ----------------------------
(***************************************************************************)
(* loadRulesFromFile (rules.go) as operators: what one rule file adds to a *)
(* load in progress.  A load is a record of the rules accepted so far, the *)
(* IDs seen in this load, and the regexes compiled since Provision by ID   *)
(* (m.ruleCache), which outlive it.  A rule of a file has an ID, a         *)
(* priority, a pattern, and is valid or not (validateRule).                *)
(***************************************************************************)
EXTENDS Integers, Sequences, SequencesExt, TLC

CONSTANT BadPattern  (* a pattern that regexp.Compile rejects *)

NewLoad(cache) == [rules |-> <<>>, ids |-> {}, cache |-> cache]

Accept(load, rule, regex) ==
  [rules |-> Append(load.rules, [id |-> rule.id, regex |-> regex]),
   ids   |-> load.ids \cup {rule.id},
   cache |-> [id \in DOMAIN load.cache \cup {rule.id} |->
                IF id = rule.id THEN regex ELSE load.cache[id]]]

(* A rule is dropped when it is invalid, its ID has been seen, or neither  *)
(* the cache has a regex for its ID nor its pattern compiles; in the last  *)
(* case its ID counts as seen.                                             *)
LoadRule(load, rule) ==
  CASE ~rule.valid \/ rule.id \in load.ids -> load
    [] rule.valid /\ rule.id \notin load.ids /\ rule.id \in DOMAIN load.cache ->
         Accept(load, rule, load.cache[rule.id])
    [] rule.valid /\ rule.id \notin load.ids /\ rule.id \notin DOMAIN load.cache
         /\ rule.pattern # BadPattern ->
         Accept(load, rule, rule.pattern)
    [] OTHER -> [load EXCEPT !.ids = @ \cup {rule.id}]

(* The rules of one file in descending priority, written place by place    *)
(* so that a proof sees there are as many as in the file.                  *)
ByPriority(file) ==
  [i \in DOMAIN file |-> SortSeq(file, LAMBDA r, s : r.priority > s.priority)[i]]

LoadFile(load, file) == FoldLeft(LoadRule, load, ByPriority(file))
=============================================================================
