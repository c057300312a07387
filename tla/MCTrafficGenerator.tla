------------------------- MODULE MCTrafficGenerator -------------------------
(* Command lines for TLC. *)
EXTENDS TrafficGenerator

Line(behavior, legitPercent, composite, maxRetries, maxErrors) ==
  [behavior |-> behavior, legitPercent |-> legitPercent,
   composite |-> composite, maxRetries |-> maxRetries,
   maxErrors |-> maxErrors]

Lines == {Line("burst_calm", 100, FALSE, 1, 2),
          Line("stealth", 0, FALSE, 0, 1),
          Line("default", 50, TRUE, 2, 3)}

ExpectedStatus == [k \in Kind |-> IF k = "malicious" THEN 403 ELSE 200]
=============================================================================
