------------------------------ MODULE MCReload ------------------------------
(* Two rule files and the three lists for TLC. *)
EXTENDS Reload

Rule(id, priority, pattern) ==
  [id |-> id, priority |-> priority, pattern |-> pattern, valid |-> TRUE]

TwoFiles == <<"first", "second">>

OldRules  == <<Rule("r", 1, "p"), Rule("s", 2, "p")>>
NewRules  == <<Rule("s", 1, "q"), Rule("r", 2, BadPattern),
               [Rule("t", 3, "p") EXCEPT !.valid = FALSE]>>
LateRules == <<Rule("t", 2, BadPattern), Rule("r", 1, "q")>>

RuleContents == {OldRules, NewRules, LateRules}
ListContents == {{"a"}, {"b"}}

Disk(second, ip) ==
  [p \in {"first", "second", "ip", "dns", "white"} |->
     CASE p = "first" -> OldRules
       [] p = "second" -> second
       [] p = "ip" -> ip
       [] OTHER -> {"a"}]

(* All files are there; or a rule file and the IP blacklist are not.       *)
Disks == {Disk(LateRules, {"a"}), Disk(Missing, Missing)}
=============================================================================
