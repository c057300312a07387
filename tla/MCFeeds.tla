------------------------------ MODULE MCFeeds ------------------------------
(* Small pages for TLC, and which scripts meet. *)
EXTENDS Feeds

Line(kind, ip) == [kind |-> kind, ip |-> ip]
Name(kind, name) == [kind |-> kind, name |-> name]
Directive(id, phase, action, severity, targets, pattern) ==
  [id |-> id, phase |-> phase, action |-> action, severity |-> severity,
   targets |-> targets, pattern |-> pattern]

OneList  == <<"ssh">>
TwoConfs == <<"sqli.conf", "scan.conf">>

Pages ==
  [source \in {"ssh", "exits", "hosts", "phish",
               "sqli.conf", "scan.conf"} |->
     CASE source = "ssh"   -> {Line("address", "own"), Line("network", "own"),
                               Line("comment", "a"), Line("other", "b")}
       [] source = "exits" -> {Line("exit", "t"), Line("other", "t")}
       [] source = "hosts" -> {Name("domain", "x"), Name("comment", "y")}
       [] source = "phish" -> {Name("domain", "y"), Name("other", "z")}
       [] source = "sqli.conf" ->
            {Directive("1", 2, "block", "CRITICAL", {"ARGS"}, "ok"),
             Directive("", 1, "pass", "", {"ARGS"}, "ok")}
       [] source = "scan.conf" ->
            {Directive("2", NoPhase, "", "HIGH", {"BODY"}, "ok"),
             Directive("3", 2, "pass", "", {}, "ok"),
             Directive("4", 2, "", "MEDIUM", {"BODY"}, "bad"),
             Directive("5", 1, "block", "", {"HEADERS"}, "python")}]

ByHand == {Row("own", "bare")}
Exits  == {Row("t", "bare")}

Files == [f \in File |->
            CASE f = "ip"  -> ByHand
              [] f = "dns" -> {"x"}
              [] f = "rules" -> SpiderlabsRules(Pages["sqli.conf"])
              [] OTHER -> {}]
Release == [f \in {"ip", "dns", "rules"} |->
              CASE f = "ip"  -> {Row("a", "net")}
                [] f = "dns" -> {"z"}
                [] f = "rules" -> OwaspRules(Pages["scan.conf"])]

Meeting(scripts, tor, interval, restarts) ==
  [scripts |-> scripts, tor |-> tor, interval |-> interval,
   restarts |-> restarts]

Meetings == {Meeting({"ip"}, TRUE, TRUE, {"reload"}),
             Meeting({"ip"}, TRUE, TRUE, {"crash"}),
             Meeting({}, TRUE, TRUE, {"reload", "crash"}),
             Meeting({}, TRUE, FALSE, {"reload", "crash"}),
             Meeting({"feeds", "owasp"}, FALSE, TRUE, {}),
             Meeting({"owasp"}, FALSE, TRUE, {"reload", "crash"}),
             Meeting({"owasp"}, TRUE, TRUE, {"crash"}),
             Meeting({"dns1", "dns2"}, FALSE, TRUE, {}),
             Meeting({"spiderlabs", "vulnerability"}, FALSE, TRUE, {"reload"})}
=============================================================================
