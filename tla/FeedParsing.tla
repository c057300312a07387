---------------------------- MODULE FeedParsing ----------------------------
(***************************************************************************)
(* What the feed scripts make of a page they downloaded.  A page is a set  *)
(* of lines, and a line is what the parser finds in it:                    *)
(*   an address list: [kind, ip], kind "comment", "network", "address",    *)
(*     "exit" (an ExitAddress line of the Tor project) or "other"          *)
(*   a domain list: [kind, name], kind "comment", "domain" or "other"      *)
(*   a ModSecurity file: the directives, with "" or NoPhase for what they  *)
(*     do not say; a pattern is "ok", "bad" if re.compile rejects it, or    *)
(*     "python" if only the regular expressions of Go do                   *)
(* The rows of a written address list are [ip, form]; the form is "net"    *)
(* with a prefix length and "bare" without one, which are different text   *)
(* for the same address.                                                   *)
(***************************************************************************)
EXTENDS Integers, Sequences, SequencesExt

CONSTANT NoPhase

Row(ip, form) == [ip |-> ip, form |-> form]

(* extract_ips: networks as they are, addresses with /32 or /128.          *)
ExtractIps(page) ==
  {Row(line.ip, "net") : line \in
     {l \in page : l.kind \in {"network", "address"}}}

(* extract_tor_exit_nodes *)
ExtractTorExitNodes(page) ==
  {Row(line.ip, "net") : line \in {l \in page : l.kind = "exit"}}

(* process_domain_list: the last word of a line, in lower case, if it is a *)
(* domain name.                                                            *)
ExtractDomains(page) == {line.name : line \in {l \in page : l.kind = "domain"}}

Score(action, severity) ==
  CASE action = "pass"                            -> 0
    [] action = "block"                           -> 5
    [] action \notin {"pass", "block"} /\ severity = "HIGH"   -> 4
    [] action \notin {"pass", "block"} /\ severity = "MEDIUM" -> 3
    [] OTHER                                      -> 1

(* extract_rules of get_owasp_rules.py.  The action is written under a key *)
(* that the WAF does not read (it reads "mode").                           *)
OwaspRule(d) ==
  LET action   == IF d.action = "" THEN "log" ELSE d.action
      severity == IF d.severity = "" THEN "LOW" ELSE d.severity
  IN  [id |-> d.id, phase |-> IF d.phase = NoPhase THEN 2 ELSE d.phase,
       pattern |-> d.pattern, targets |-> d.targets, action |-> action,
       score |-> Score(action, severity)]

OwaspRules(page) ==
  {OwaspRule(d) : d \in {e \in page : e.id # "" /\ e.pattern # "bad"}}

(* The same function in get_spiderlabs_rules.py. *)
SpiderlabsRules(page) == OwaspRules(page)

(* generate_vulnerability_rules: its table, and one counter through all    *)
(* categories for the IDs.                                                 *)
Payloads == <<[type |-> "xss",   patterns |-> 4, targets |-> {"ARGS", "BODY", "HEADERS"}],
              [type |-> "sqli",  patterns |-> 4, targets |-> {"ARGS", "BODY", "HEADERS"}],
              [type |-> "rce",   patterns |-> 4, targets |-> {"ARGS", "HEADERS"}],
              [type |-> "lfi",   patterns |-> 2, targets |-> {"URI"}],
              [type |-> "log4j", patterns |-> 3, targets |-> {"ARGS", "BODY", "HEADERS"}]>>

PatternsBefore(i) ==
  FoldLeft(LAMBDA n, p : n + p.patterns, 0, SubSeq(Payloads, 1, i - 1))

VulnerabilityRules ==
  UNION {{[id |-> Payloads[i].type \o "-" \o ToString(PatternsBefore(i) + k),
           phase |-> 2, pattern |-> "ok", targets |-> Payloads[i].targets,
           action |-> "block", score |-> 7] :
            k \in 0 .. Payloads[i].patterns - 1} : i \in DOMAIN Payloads}

(* validateRule of the WAF and the compilation of the pattern, for what    *)
(* the scripts can write.                                                  *)
Valid(rule) ==
  /\ rule.targets # {} /\ rule.phase \in 1 .. 4 /\ rule.score >= 0
  /\ rule.pattern = "ok"

(* LoadIPBlacklistFromFile: a row without a prefix length gets one.        *)
Addresses(rows) == {row.ip : row \in rows}
=============================================================================
