-------------------------- MODULE TrafficGenerator --------------------------
(***************************************************************************)
(* caddytest.py: a pool of threads takes numbered requests from a queue,   *)
(* sends each with retries, and counts the answers in one Stats object;    *)
(* when too many errors have been counted a thread sets stop_event, and    *)
(* the others give up.  At the end the main thread judges the run.         *)
(*                                                                         *)
(* A request is its number and its kind.  Payloads, headers, methods and   *)
(* paths are left out, as are the times: pauses between requests and       *)
(* retries, latencies and sizes.  The server is whatever it answers.       *)
(***************************************************************************)
EXTENDS Integers, FiniteSets

CONSTANTS
  Thread,      (* the workers of the pool; with one, main runs them itself *)
  N,           (* --num-requests                                           *)
  Options,     (* the command lines, see TrafficAssumption                 *)
  Status,      (* status codes of answers                                  *)
  Expected,    (* kind -> --expected-status-*                              *)
  NoKind

Request == 1 .. N
Kind    == {"legit", "malicious", "composite"}

(* What becomes of a request.  Only those of Counted are in stats.total.   *)
Counted == {"expected", "unexpected", "failed"}
Outcome == Counted \cup {"waiting", "skipped", "abandoned"}

ASSUME TrafficAssumption ==
  /\ N \in Nat /\ IsFiniteSet(Thread) /\ Thread # {}
  /\ Expected \in [Kind -> Status]
  /\ \A o \in Options :
       /\ o.behavior \in {"default", "burst_calm", "stealth"}
       /\ o.composite \in BOOLEAN /\ o.legitPercent \in 0 .. 100
       /\ o.maxRetries \in Nat /\ o.maxErrors \in Nat \ {0}

VARIABLES
  options,   (* the command line                                           *)
  next,      (* the request at the head of the queue                       *)
  pc,        (* where a thread is                                          *)
  request,   (* the request it works on                                    *)
  kind,      (* and its kind                                               *)
  attempt,   (* how many attempts of it have failed                        *)
  stop,      (* stop_event                                                 *)
  total, passes, errors,   (* Stats                                        *)
  verdict,   (* of --score: "none" until the end                           *)
  outcome,   (* history: what became of each request                       *)
  late       (* history: sends of a thread that began after the stop       *)

stats  == <<total, passes, errors>>
thread == <<next, pc, request, kind, attempt>>
vars   == <<options, thread, stop, stats, verdict, outcome, late>>

Init ==
  /\ options \in Options
  /\ next = 1
  /\ pc = [t \in Thread |-> "idle"] /\ request = [t \in Thread |-> 0]
  /\ kind = [t \in Thread |-> NoKind] /\ attempt = [t \in Thread |-> 0]
  /\ stop = FALSE
  /\ total = 0 /\ passes = 0 /\ errors = 0
  /\ verdict = "none"
  /\ outcome = [i \in Request |-> "waiting"]
  /\ late = [t \in Thread |-> 0]
-----------------------------------------------------------------------------
(* The behaviour profile: how many per cent of the requests at i in the    *)
(* run are legitimate.                                                     *)
LegitPercent(i) ==
  CASE options.behavior = "burst_calm" /\ 10 * i < 3 * N -> 0
    [] options.behavior = "stealth" /\ options.legitPercent < 80 -> 80
    [] OTHER -> options.legitPercent

(* The kinds that request i may turn out to be.                            *)
Kinds(i) ==
  IF options.composite THEN {"composite"}
  ELSE {k \in {"legit", "malicious"} :
          IF k = "legit" THEN LegitPercent(i) > 0 ELSE LegitPercent(i) < 100}

(* A thread takes the next request; main, without a pool, looks at         *)
(* stop_event first.                                                       *)
Take(t) ==
  /\ pc[t] = "idle" /\ next <= N
  /\ Cardinality(Thread) = 1 => ~stop
  /\ next' = next + 1
  /\ request' = [request EXCEPT ![t] = next]
  /\ pc' = [pc EXCEPT ![t] = "entered"]
  /\ UNCHANGED <<options, kind, attempt, stop, stats, verdict, outcome, late>>

(* worker returns at once if the run is being stopped.                     *)
Skip(t) ==
  /\ pc[t] = "entered" /\ stop
  /\ pc' = [pc EXCEPT ![t] = "idle"]
  /\ outcome' = [outcome EXCEPT ![request[t]] = "skipped"]
  /\ UNCHANGED <<options, next, request, kind, attempt, stop, stats, verdict,
                 late>>

(* The payload, and with it the expected status, is chosen.                *)
Choose(t) ==
  /\ pc[t] = "entered" /\ ~stop
  /\ \E k \in Kinds(request[t]) : kind' = [kind EXCEPT ![t] = k]
  /\ attempt' = [attempt EXCEPT ![t] = 0]
  /\ pc' = [pc EXCEPT ![t] = "loop"]
  /\ UNCHANGED <<options, next, request, stop, stats, verdict, outcome, late>>

(* Variant: the loop only counts attempts. *)
TryAgainStopped(t) ==
  /\ pc[t] = "loop"
  /\ pc' = [pc EXCEPT ![t] = "send"]
  /\ UNCHANGED <<options, next, request, kind, attempt, stop, stats, verdict,
                 outcome, late>>

(* The condition of the retry loop.  The send follows a moment later.      *)
TryAgain(t) ==
  /\ pc[t] = "loop" /\ ~stop
  /\ pc' = [pc EXCEPT ![t] = "send"]
  /\ UNCHANGED <<options, next, request, kind, attempt, stop, stats, verdict,
                 outcome, late>>

(* The loop is left without a record: nothing counts this request.         *)
Abandon(t) ==
  /\ pc[t] = "loop" /\ stop
  /\ pc' = [pc EXCEPT ![t] = "idle"]
  /\ outcome' = [outcome EXCEPT ![request[t]] = "abandoned"]
  /\ UNCHANGED <<options, next, request, kind, attempt, stop, stats, verdict,
                 late>>

Send(t) ==
  /\ pc[t] = "send"
  /\ late' = IF stop THEN [late EXCEPT ![t] = @ + 1] ELSE late
  /\ pc' = [pc EXCEPT ![t] = "sent"]
  /\ UNCHANGED <<options, next, request, kind, attempt, stop, stats, verdict,
                 outcome>>

(* Stats.record, under its lock. *)
Record(passed) ==
  /\ total' = total + 1
  /\ passes' = passes + (IF passed THEN 1 ELSE 0)

Answered(t, code) ==
  /\ pc[t] = "sent"
  /\ Record(code = Expected[kind[t]])
  /\ outcome' = [outcome EXCEPT ![request[t]] =
       IF code = Expected[kind[t]] THEN "expected" ELSE "unexpected"]
  /\ pc' = [pc EXCEPT ![t] = "idle"]
  /\ UNCHANGED <<options, next, request, kind, attempt, stop, errors, verdict,
                 late>>

(* Variant: the failed attempt is not counted towards the retries.         *)
FailedForgotten(t) ==
  /\ pc[t] = "sent"
  /\ errors' = errors + (IF errors < options.maxErrors THEN 1 ELSE 0)
  /\ pc' = [pc EXCEPT ![t] =
       IF attempt[t] + 1 <= options.maxRetries THEN "loop" ELSE "exhausted"]
  /\ UNCHANGED <<options, next, request, kind, attempt, stop, total, passes,
                 verdict, outcome, late>>

(* A timeout or a refused connection: Stats.record_error, and after the    *)
(* retry delay the loop again.                                             *)
Failed(t) ==
  /\ pc[t] = "sent"
  /\ errors' = errors + 1
  /\ attempt' = [attempt EXCEPT ![t] = @ + 1]
  /\ pc' = [pc EXCEPT ![t] =
       IF attempt[t] + 1 <= options.maxRetries THEN "loop" ELSE "exhausted"]
  /\ UNCHANGED <<options, next, request, kind, stop, total, passes, verdict,
                 outcome, late>>

(* Variant: a request that failed for good is not recorded.                *)
GiveUpUnrecorded(t) ==
  /\ pc[t] = "exhausted"
  /\ outcome' = [outcome EXCEPT ![request[t]] = "failed"]
  /\ pc' = [pc EXCEPT ![t] = "compare"]
  /\ UNCHANGED <<options, next, request, kind, attempt, stop, stats, verdict,
                 late>>

(* No retry is left: the request is recorded as one that did not pass.     *)
GiveUp(t) ==
  /\ pc[t] = "exhausted"
  /\ Record(FALSE)
  /\ outcome' = [outcome EXCEPT ![request[t]] = "failed"]
  /\ pc' = [pc EXCEPT ![t] = "compare"]
  /\ UNCHANGED <<options, next, request, kind, attempt, stop, errors, verdict,
                 late>>

(* Variant: only more errors than the limit stop the run. *)
CompareAbove(t) ==
  /\ pc[t] = "compare"
  /\ stop' = (stop \/ errors > options.maxErrors)
  /\ pc' = [pc EXCEPT ![t] = "idle"]
  /\ UNCHANGED <<options, next, request, kind, attempt, stats, verdict,
                 outcome, late>>

(* stats.errors, the errors of all threads and attempts, is read without   *)
(* the lock, and only by a thread whose own request has failed for good.   *)
Compare(t) ==
  /\ pc[t] = "compare"
  /\ stop' = (stop \/ errors >= options.maxErrors)
  /\ pc' = [pc EXCEPT ![t] = "idle"]
  /\ UNCHANGED <<options, next, request, kind, attempt, stats, verdict,
                 outcome, late>>

(* The pool, or the loop of main, has ended.                               *)
AllDone ==
  /\ \A t \in Thread : pc[t] = "idle"
  /\ next > N \/ (Cardinality(Thread) = 1 /\ stop)

(* The summary, and "Overall Test" of --score. *)
Judge ==
  /\ AllDone
  /\ verdict = "none"
  /\ verdict' = IF passes < total THEN "FAILED" ELSE "PASSED"
  /\ UNCHANGED <<options, thread, stop, stats, outcome, late>>

Attempt(t) == Send(t) \/ Failed(t) \/ \E code \in Status : Answered(t, code)
Step(t)    == Take(t) \/ Skip(t) \/ Choose(t) \/ TryAgain(t) \/ Abandon(t)
                \/ Attempt(t) \/ GiveUp(t) \/ Compare(t)

Next == Judge \/ \E t \in Thread : Step(t)

Spec == Init /\ [][Next]_vars

(* Threads run, and every send is answered or times out.                   *)
FairSpec == Spec /\ WF_vars(Judge) /\ \A t \in Thread : WF_vars(Step(t))
-----------------------------------------------------------------------------
TypeOK ==
  /\ options \in Options
  /\ next \in 1 .. N + 1
  /\ pc \in [Thread -> {"idle", "entered", "loop", "send", "sent",
                        "exhausted", "compare"}]
  /\ request \in [Thread -> 0 .. N]
  /\ kind \in [Thread -> Kind \cup {NoKind}]
  /\ attempt \in [Thread -> Nat]
  /\ stop \in BOOLEAN
  /\ total \in Nat /\ passes \in Nat /\ errors \in Nat
  /\ verdict \in {"none", "PASSED", "FAILED"}
  /\ outcome \in [Request -> Outcome]

Having(o) == {i \in Request : outcome[i] \in o}

(* "PASSED (all responses matched expected status codes)": the verdict     *)
(* compares two counters, and is right although requests that were skipped *)
(* or abandoned in a stopped run are in neither of them.                   *)
VerdictIsRight ==
  /\ verdict = "PASSED" => \A i \in Request : outcome[i] = "expected"
  /\ verdict = "FAILED" => \E i \in Request : outcome[i] # "expected"

(* "Max errors before exiting": once as many requests have failed for good *)
(* the run is being stopped, although each thread compares only after its  *)
(* own failure, and reads the counter while others change it.  (Errors of  *)
(* requests that a retry then saves stop nothing by themselves.)           *)
FailuresStopTheRun ==
  Cardinality({i \in Having({"failed"}) :
                 \A t \in Thread : pc[t] = "compare" => request[t] # i})
    >= options.maxErrors => stop

(* A stop reaches every thread at its next look at stop_event: each sends  *)
(* at most once after it, and whoever set it does not send again.          *)
StopIsPrompt ==
  /\ \A t \in Thread : late[t] <= 1
  /\ Cardinality({t \in Thread : late[t] > 0}) < Cardinality(Thread)

(* However the server answers, fails or hangs, a run comes to its verdict. *)
RunEnds == <>(verdict # "none")
=============================================================================
