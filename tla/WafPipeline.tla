---------------------------- MODULE WafPipeline ----------------------------
(***************************************************************************)
(* Middleware.ServeHTTP (handler.go, rules.go, response.go): one request   *)
(* on its way through the policies of Phase 1, the rules of the four       *)
(* phases, the upstream handler and the recorder, while the rule files may *)
(* be reloaded between any two phases.  Requests share nothing but the     *)
(* rules and counters that only grow, so one request shows them all.       *)
(***************************************************************************)
EXTENDS ResponseRecorder, SequencesExt

CONSTANTS
  RuleSet,            (* the contents m.Rules may have: phase -> Seq(rule)  *)
  Targets,            (* on how many of its targets a rule may match        *)
  AnomalyThreshold,
  Customs,            (* what m.CustomResponses may be: status -> body      *)
  Message,            (* "Request blocked by WAF. Reason: ..."              *)
  ErrorBody,          (* "Internal Server Error"                            *)
  Chunk,              (* what one upstream Write may bring                  *)
  MaxProduced,        (* bound: the length of the upstream's body           *)
  MayReload,          (* whether m.Rules changes during the request         *)
  MayPanic            (* whether next.ServeHTTP may panic (ErrAbortHandler) *)

Forbidden           == 403
TooManyRequests     == 429
InternalServerError == 500
Phase               == 1 .. 4

RuleId == UNION {{r.id : r \in ToSet(rs[p])} : rs \in RuleSet, p \in Phase}

ASSUME WafPipelineAssumption ==
  /\ AnomalyThreshold \in Nat \ {0} /\ Targets \subseteq Nat
  /\ \A rs \in RuleSet, p \in Phase : rs[p] \in Seq(ToSet(rs[p]))
  /\ \A rs \in RuleSet, p \in Phase : \A r \in ToSet(rs[p]) :
       r.score \in Nat /\ r.mode \in {"block", "log", ""}
  /\ \A c \in Customs : DOMAIN c \subseteq {Forbidden, TooManyRequests}
  /\ \A text \in Chunk \cup {Message} \cup UNION {Range(c) : c \in Customs} :
       text \in Seq(ToSet(text))
  /\ MaxProduced \in Nat /\ MayReload \in BOOLEAN /\ MayPanic \in BOOLEAN

VARIABLES
  rules,    (* m.Rules                                                     *)
  custom,   (* m.CustomResponses, set by the configuration                 *)
  verdict,  (* what the policies of Phase 1 find of this request           *)
  matches,  (* on how many of its targets each rule matches                *)
  pc,       (* where ServeHTTP is                                          *)
  state,    (* WAFState                                                    *)
  out,      (* the recorder over w; before it exists, w as a pass-through  *)
  inspect,  (* what hasResponseBodyRules said when the recorder was made   *)
  counters, (* what the request has added to the request counters          *)
  produced, (* history: the body the upstream wrote                        *)
  applied,  (* history: the rules each phase has run, <<>> if none         *)
  vetted    (* history: Phase 4 has compared its rules with a body         *)

given == <<custom, verdict, matches>>
past  == <<produced, applied, vetted>>
vars  == <<rules, given, pc, state, out, inspect, counters, past>>

Init ==
  /\ rules \in RuleSet /\ custom \in Customs
  /\ verdict \in {"pass", "forbidden", "limited", "lookupFailed"}
  /\ matches \in [RuleId -> Targets]
  /\ pc = "phase1"
  /\ state = [score |-> 0, blocked |-> FALSE, statusCode |-> OK]
  /\ out = NewRecorder(FALSE) /\ inspect = FALSE
  /\ counters = [total |-> 1, allowed |-> 0, blocked |-> 0]
  /\ produced = <<>> /\ applied = [p \in Phase |-> <<>>] /\ vetted = FALSE

(* loadRules stores a new map; a phase reads it once.                      *)
Reload ==
  /\ MayReload /\ pc # "done"
  /\ rules' \in RuleSet \ {rules}
  /\ UNCHANGED <<given, pc, state, out, inspect, counters, past>>
-----------------------------------------------------------------------------
(* Answers. *)

WriteCustomResponse(o, code) ==
  IF code \in DOMAIN custom
  THEN Write(WriteHeader(SetHeader(o, "custom"), code), custom[code]) ELSE o

(* blockRequest. *)
BlockResponse(o, code) ==
  LET h == WriteHeader(SetHeader(o, "plain"), code)
  IN  IF DOMAIN custom = {} THEN Write(h, Message) ELSE WriteCustomResponse(h, code)

(* Its callers write the custom response again.                            *)
BlockResponseAgain(o, code) == WriteCustomResponse(BlockResponse(o, code), code)

(* blockRequest counts, isPhaseBlocked counts once more and ends the       *)
(* request.                                                                *)
Block(code, score, answer) ==
  /\ state' = [score |-> score, blocked |-> TRUE, statusCode |-> code]
  /\ out' = answer
  /\ counters' = [counters EXCEPT !.blocked = @ + 2]
  /\ pc' = "done"

(* allowRequest at the end of a phase. *)
Allow(score, next) ==
  /\ state' = [score |-> score, blocked |-> FALSE, statusCode |-> OK]
  /\ counters' = [counters EXCEPT !.allowed = @ + 1]
  /\ pc' = next
  /\ UNCHANGED out
-----------------------------------------------------------------------------
(* Rules. *)

(* The matches of a phase in the order they are processed. *)
Hits(rs) ==
  FlattenSeq([i \in DOMAIN rs |-> [t \in 1 .. matches[rs[i].id] |-> rs[i]]])

ScoreOf(hits, n) ==
  SumFunctionOnSet([k \in DOMAIN hits |-> hits[k].score], 1 .. n)

(* processRuleMatch blocks on the n-th match. *)
BlocksAt(hits, n, score) ==
  \/ hits[n].mode = "block"
  \/ score + ScoreOf(hits, n) >= AnomalyThreshold

(* Variant: the threshold must be exceeded. *)
BlocksAtExceeded(hits, n, score) ==
  \/ hits[n].mode = "block"
  \/ score + ScoreOf(hits, n) > AnomalyThreshold

(* Variant: every phase counts from nothing. *)
RunRulesFromZero(p, next) ==
  LET hits == Hits(rules[p])
      blocking == {n \in DOMAIN hits : BlocksAt(hits, n, 0)}
  IN  /\ applied' = [applied EXCEPT ![p] = rules[p]]
      /\ \/ /\ blocking # {}
            /\ Block(Forbidden, ScoreOf(hits, Min(blocking)), BlockResponseAgain(out, Forbidden))
         \/ /\ blocking = {}
            /\ Allow(ScoreOf(hits, Len(hits)), next)

(* The rule loop of handlePhase, which ends the phase at its first block.  *)
RunRules(p, next) ==
  LET hits == Hits(rules[p])
      blocking == {n \in DOMAIN hits : BlocksAt(hits, n, state.score)}
  IN  /\ applied' = [applied EXCEPT ![p] = rules[p]]
      /\ \/ /\ blocking # {}
            /\ Block(Forbidden, state.score + ScoreOf(hits, Min(blocking)),
                     BlockResponseAgain(out, Forbidden))
         \/ /\ blocking = {}
            /\ Allow(state.score + ScoreOf(hits, Len(hits)), next)
-----------------------------------------------------------------------------
(* The request. *)

(* The policies before the rules of Phase 1; a failed GeoIP lookup that    *)
(* fails closed answers once, the others write a custom response twice.    *)
PolicyBlocks ==
  /\ pc = "phase1" /\ verdict # "pass"
  /\ LET code == IF verdict = "limited" THEN TooManyRequests ELSE Forbidden
     IN  Block(code, state.score, IF verdict = "lookupFailed"
                                  THEN BlockResponse(out, code)
                                  ELSE BlockResponseAgain(out, code))
  /\ UNCHANGED <<rules, given, inspect, past>>

Phase1 ==
  /\ pc = "phase1" /\ verdict = "pass"
  /\ RunRules(1, "phase2")
  /\ UNCHANGED <<rules, given, inspect, produced, vetted>>

Phase2 ==
  /\ pc = "phase2"
  /\ RunRules(2, "record")
  /\ UNCHANGED <<rules, given, inspect, produced, vetted>>

(* The metrics endpoint is answered without an upstream. *)
ServeMetrics ==
  /\ pc = "record"
  /\ counters' = [counters EXCEPT !.allowed = @ + 1]
  /\ out' = Write(out, <<"metrics">>)
  /\ produced' = <<"metrics">>
  /\ pc' = "done"
  /\ UNCHANGED <<rules, given, state, inspect, applied, vetted>>

Record ==
  /\ pc = "record"
  /\ inspect' = (rules[4] # <<>>)
  /\ out' = NewRecorder(inspect')
  /\ pc' = "upstream"
  /\ UNCHANGED <<rules, given, state, counters, past>>

UpstreamWrites ==
  /\ pc = "upstream"
  /\ \E bytes \in Chunk :
       /\ Len(produced) + Len(bytes) <= MaxProduced
       /\ out' = Write(SetHeader(out, "upstream"), bytes)
       /\ produced' = produced \o bytes
  /\ UNCHANGED <<rules, given, pc, state, inspect, counters, applied, vetted>>

UpstreamFlushes ==
  /\ pc = "upstream"
  /\ out' = Flush(out)
  /\ UNCHANGED <<rules, given, pc, state, inspect, counters, past>>

UpstreamReturns ==
  /\ pc = "upstream"
  /\ pc' = "phase3"
  /\ UNCHANGED <<rules, given, state, out, inspect, counters, past>>

(* The recovery of ServeHTTP answers on w. *)
UpstreamPanics ==
  /\ MayPanic /\ pc = "upstream"
  /\ out' = ClientWrite(ClientHeader(out, InternalServerError), ErrorBody)
  /\ pc' = "panicked"
  /\ UNCHANGED <<rules, given, state, inspect, counters, past>>

Phase3 ==
  /\ pc = "phase3"
  /\ RunRules(3, "phase4")
  /\ UNCHANGED <<rules, given, inspect, produced, vetted>>
-----------------------------------------------------------------------------
(* Phase 4. *)

(* The body rules that match what the recorder holds.  Each is made to     *)
(* match this upstream's whole body or not; of another text it may say     *)
(* anything.                                                               *)
MatchingBodyRules(rs) ==
  {SelectSeq(rs, LAMBDA r : m[r.id] > 0) :
     m \in IF out.body = produced THEN {matches} ELSE [RuleId -> {0, 1}]}

(* handleResponseBodyPhase, which has nothing to inspect. *)
Phase4Skips ==
  /\ pc = "phase4"
  /\ rules[4] = <<>> \/ out.partial
  /\ pc' = "answer"
  /\ UNCHANGED <<rules, given, state, out, inspect, counters, past>>

(* Its loop ends after the first match that does not block; after one that *)
(* does it goes on to the next match, which then only adds its score.      *)
InspectBody(rs) ==
  \E hits \in MatchingBodyRules(rs) :
    \/ /\ hits = <<>>
       /\ UNCHANGED <<state, out, counters>>
    \/ /\ hits # <<>> /\ ~BlocksAt(hits, 1, state.score)
       /\ state' = [state EXCEPT !.score = @ + ScoreOf(hits, 1)]
       /\ UNCHANGED <<out, counters>>
    \/ /\ hits # <<>> /\ BlocksAt(hits, 1, state.score)
       /\ state' = [score |-> state.score + ScoreOf(hits, IF Len(hits) = 1 THEN 1 ELSE 2),
                    blocked |-> TRUE, statusCode |-> Forbidden]
       /\ out' = BlockResponse(out, Forbidden)
       /\ counters' = [counters EXCEPT !.blocked = @ + 1]

(* Variant: a response that was released is inspected all the same. *)
Phase4IgnoresPartial ==
  /\ pc = "phase4" /\ rules[4] # <<>>
  /\ vetted' = TRUE
  /\ applied' = [applied EXCEPT ![4] = rules[4]]
  /\ InspectBody(rules[4])
  /\ pc' = "answer"
  /\ UNCHANGED <<rules, given, inspect, produced>>

Phase4 ==
  /\ pc = "phase4" /\ rules[4] # <<>> /\ ~out.partial
  /\ vetted' = TRUE
  /\ applied' = [applied EXCEPT ![4] = rules[4]]
  /\ InspectBody(rules[4])
  /\ pc' = "answer"
  /\ UNCHANGED <<rules, given, inspect, produced>>

(* Variant: a block copies what the recorder holds, too. *)
AnswerBlockedCopies ==
  /\ pc = "answer" /\ state.blocked
  /\ counters' = [counters EXCEPT !.blocked = @ + 1]
  /\ out' = CopyResponse(out)
  /\ pc' = "done"
  /\ UNCHANGED <<rules, given, state, inspect, past>>

(* The end of ServeHTTP: a custom response goes to w, not to the recorder. *)
AnswerBlocked ==
  /\ pc = "answer" /\ state.blocked
  /\ counters' = [counters EXCEPT !.blocked = @ + 1]
  /\ out' = IF state.statusCode \in DOMAIN custom
            THEN ClientWrite(ClientHeader(SetHeader(out, "custom"), state.statusCode),
                             custom[state.statusCode])
            ELSE out
  /\ pc' = "done"
  /\ UNCHANGED <<rules, given, state, inspect, past>>

(* Variant: what was passed on is copied again. *)
AnswerAllowedCopies ==
  /\ pc = "answer" /\ ~state.blocked
  /\ counters' = [counters EXCEPT !.allowed = @ + 1]
  /\ out' = ClientWrite(out, out.body)
  /\ pc' = "done"
  /\ UNCHANGED <<rules, given, state, inspect, past>>

AnswerAllowed ==
  /\ pc = "answer" /\ ~state.blocked
  /\ counters' = [counters EXCEPT !.allowed = @ + 1]
  /\ out' = CopyResponse(out)
  /\ pc' = "done"
  /\ UNCHANGED <<rules, given, state, inspect, past>>

Next ==
  \/ Reload
  \/ PolicyBlocks \/ Phase1 \/ Phase2 \/ ServeMetrics
  \/ Record \/ UpstreamWrites \/ UpstreamFlushes \/ UpstreamReturns \/ UpstreamPanics
  \/ Phase3 \/ Phase4Skips \/ Phase4 \/ AnswerBlocked \/ AnswerAllowed

Spec == Init /\ [][Next]_vars
-----------------------------------------------------------------------------
Passed   == Hits(applied[1]) \o Hits(applied[2]) \o Hits(applied[3])
BodyHits == SelectSeq(applied[4], LAMBDA r : matches[r.id] > 0)
Harmless(hits) == /\ \A r \in ToSet(hits) : r.mode # "block"
                  /\ ScoreOf(hits, Len(hits)) < AnomalyThreshold

UpstreamBytes == UNION {ToSet(c) : c \in Chunk}
BlockText     == IF DOMAIN custom = {} THEN Message
                 ELSE IF state.statusCode \in DOMAIN custom
                      THEN custom[state.statusCode] ELSE <<>>
Refused       == state.blocked /\ applied[3] = <<>> /\ produced = <<>>

(* Every variable stays in its range; the counters can grow by no more     *)
(* than one for each phase that passes and the answer.                     *)
TypeOK ==
  /\ rules \in RuleSet
  /\ pc \in {"phase1", "phase2", "record", "upstream", "phase3", "phase4",
             "answer", "done", "panicked"}
  /\ state.score \in Nat /\ state.blocked \in BOOLEAN
  /\ state.statusCode \in {OK, Forbidden, TooManyRequests}
  /\ inspect \in BOOLEAN /\ vetted \in BOOLEAN
  /\ counters \in [total : {1}, allowed : 0 .. 4, blocked : 0 .. 2]

(* A request, and then its response, goes on only while no rule it matched *)
(* in the phases so far has mode "block" and their scores, added over all  *)
(* those phases, stay below the threshold; and only if no policy objected. *)
(* The rules are those each phase read, whatever a reload did in between.  *)
GoesOnUnderThreshold ==
  (~state.blocked /\ pc # "phase1") => verdict = "pass" /\ Harmless(Passed)

(* Whether the recorder held the response, released it half way or let it  *)
(* through, and whether or not rules were reloaded meanwhile: a response   *)
(* that is not blocked reaches the client whole, in order and once.        *)
AllowedBodyIsWhole ==
  (pc = "done" /\ ~state.blocked) => out.wire = produced

(* Phase 4 vouches for a response only after comparing the whole body,     *)
(* unless a reload brought the first body rule when nothing was held.      *)
ResponseVetted ==
  (pc = "done" /\ ~state.blocked /\ vetted /\ inspect) => out.body = produced

(* No byte of a body that Phase 4 blocks reaches the client, unless the    *)
(* text of the block does not fit beside it in the recorder.               *)
BlockedBodyNotDelivered ==
  /\ state.blocked /\ vetted /\ inspect
  /\ Len(produced) + Len(BlockText) <= limit
  => ToSet(out.wire) \cap UpstreamBytes = {}

(* The documented rule of blocking, for Phase 4: a response is blocked if  *)
(* a body rule with mode "block" matches or the total reaches the          *)
(* threshold.                                                              *)
BodyRulesBlock ==
  (pc = "done" /\ ~state.blocked /\ vetted) => Harmless(Passed \o BodyHits)
=============================================================================
