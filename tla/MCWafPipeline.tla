--------------------------- MODULE MCWafPipeline ---------------------------
(* One request for TLC: rules that score, rules that block, in all phases, *)
(* and a rule set without body rules.                                      *)
EXTENDS WafPipeline

RuleOf(id, score, mode) == [id |-> id, score |-> score, mode |-> mode]

WithBodyRules ==
  [p \in Phase |->
     CASE p = 1 -> <<RuleOf("score1", 2, "log")>>
       [] p = 2 -> <<RuleOf("score2", 2, ""), RuleOf("block2", 0, "block")>>
       [] p = 3 -> <<RuleOf("score3", 1, "log")>>
       [] p = 4 -> <<RuleOf("log4", 1, "log"), RuleOf("block4", 1, "block")>>]
WithoutBodyRules == [WithBodyRules EXCEPT ![4] = <<>>]
FewRules == [p \in Phase |-> IF p = 4 THEN <<RuleOf("block4", 1, "block")>> ELSE <<>>]
NoRules == [p \in Phase |-> <<>>]

Both     == {WithBodyRules, WithoutBodyRules}
BodyOnly == {WithBodyRules}
Few      == {FewRules, NoRules}

Chunks   == {<<"a">>, <<"a", "b">>, <<"b", "a", "b">>}
NoCustom == {[c \in {} |-> <<>>]}
AnyCustom == NoCustom \cup {[c \in {403} |-> <<"custom">>]}
Short == <<"blocked">>
Error == <<"error">>
=============================================================================
