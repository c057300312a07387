---------------------------- MODULE ToolsProofs ----------------------------
(***************************************************************************)
(* What TrafficGenerator.cfg and TestSuites.cfg show of small instances,   *)
(* for any number of threads and requests, any rules, any answers and any  *)
(* order of runs, edits, restarts and kills.                               *)
(*                                                                         *)
(* TrafficGenerator: the invariants follow each request.  It waits until   *)
(* it is taken, then a thread has it, and then one thing has become of it, *)
(* which the counters count.                                               *)
(*                                                                         *)
(* TestSuites: each of the two properties has an invariant of its own,     *)
(* PredictionInv of what is foretold and heard, and BenchInv of the file   *)
(* and of who is going to write it.                                        *)
(***************************************************************************)
EXTENDS TrafficGenerator, TestSuites, DataLemmas

-----------------------------------------------------------------------------
(* caddytest.py *)

(* The thread has a request of which nothing has become yet.               *)
AtWork     == {"entered", "loop", "send", "sent", "exhausted"}
Working(t) == pc[t] \in AtWork

Tracked ==
  /\ \A t \in Thread : pc[t] # "idle" => request[t] \in 1 .. next - 1
  /\ \A t \in Thread : Working(t) => outcome[request[t]] = "waiting"
  /\ \A t \in Thread : pc[t] = "compare" => outcome[request[t]] = "failed"
  /\ \A t, u \in Thread : Working(t) /\ Working(u) /\ t # u
                            => request[t] # request[u]
  /\ \A i \in Request : i >= next => outcome[i] = "waiting"
  /\ \A i \in Request : outcome[i] = "waiting" /\ i < next
                          => \E t \in Thread : Working(t) /\ request[t] = i

(* A run is stopped because a request has failed, and only a stopped run   *)
(* leaves requests out.                                                    *)
Stopping ==
  /\ stop => \E i \in Request : outcome[i] = "failed"
  /\ \A i \in Request : outcome[i] \in {"skipped", "abandoned"} => stop

Counts ==
  /\ total = Cardinality(Having(Counted))
  /\ passes = Cardinality(Having({"expected"}))

Judged ==
  /\ verdict # "none" => AllDone
  /\ verdict = "PASSED" => ~(passes < total)
  /\ verdict = "FAILED" => passes < total
-----------------------------------------------------------------------------
LEMMA TypeStep == TypeOK /\ [Next]_vars => TypeOK'
<1> SUFFICES ASSUME TypeOK, [Next]_vars PROVE TypeOK'
  OBVIOUS
<1> USE TrafficAssumption DEF TypeOK, Request, Outcome, Counted, thread, stats
<1>1. CASE UNCHANGED vars
  BY <1>1 DEF vars
<1>2. CASE Judge
  BY <1>2 DEF Judge
<1>3. ASSUME NEW t \in Thread, Step(t) PROVE TypeOK'
  <2>1. CASE Take(t)
    BY <2>1 DEF Take
  <2>2. CASE Skip(t)
    BY <2>2 DEF Skip
  <2>3. CASE Choose(t)
    BY <2>3 DEF Choose, Kinds, Kind
  <2>4. CASE TryAgain(t)
    BY <2>4 DEF TryAgain
  <2>5. CASE Abandon(t)
    BY <2>5 DEF Abandon
  <2>6. CASE Send(t)
    BY <2>6 DEF Send
  <2>7. CASE Failed(t)
    BY <2>7 DEF Failed
  <2>8. ASSUME NEW code \in Status, Answered(t, code) PROVE TypeOK'
    <3>1. /\ passes' \in Nat /\ total' \in Nat
      BY <2>8 DEF Answered, Record
    <3>2. \E v \in Outcome : outcome' = [outcome EXCEPT ![request[t]] = v]
      BY <2>8 DEF Answered
    <3> QED BY <2>8, <3>1, <3>2 DEF Answered
  <2>9. CASE GiveUp(t)
    <3>1. passes' \in Nat /\ total' \in Nat
      BY <2>9 DEF GiveUp, Record
    <3>2. outcome' \in [Request -> Outcome]
      BY <2>9 DEF GiveUp
    <3>3. pc' \in [Thread -> {"idle", "entered", "loop", "send", "sent",
                             "exhausted", "compare"}]
      BY <2>9 DEF GiveUp
    <3>4. UNCHANGED <<options, next, request, kind, attempt, stop, errors,
                      verdict, late>>
      BY <2>9 DEF GiveUp
    <3> QED BY <3>1, <3>2, <3>3, <3>4
  <2>10. CASE Compare(t)
    BY <2>10 DEF Compare
  <2> QED
    BY <1>3, <2>1, <2>2, <2>3, <2>4, <2>5, <2>6, <2>7, <2>8, <2>9, <2>10
    DEF Step, Attempt
<1> QED BY <1>1, <1>2, <1>3 DEF Next

(* What steps do to a request: the thread goes on with it, or v becomes of *)
(* it, after which the thread is idle or, if it failed, compares.          *)
GoesOn(t) ==
  /\ Working(t)
  /\ \E p \in AtWork : pc' = [pc EXCEPT ![t] = p]
  /\ UNCHANGED <<next, request, outcome, stop, total, passes, verdict>>

Becomes(t, v) ==
  /\ Working(t)
  /\ outcome' = [outcome EXCEPT ![request[t]] = v]
  /\ \E p \in {"idle", "compare"} :
       pc' = [pc EXCEPT ![t] = p] /\ (p = "compare" <=> v = "failed")
  /\ v \in {"skipped", "abandoned"} => stop
  /\ total' = total + (IF v \in Counted THEN 1 ELSE 0)
  /\ passes' = passes + (IF v = "expected" THEN 1 ELSE 0)
  /\ UNCHANGED <<next, request, stop, verdict>>

LEMMA Shape ==
  ASSUME TypeOK, NEW t \in Thread, Step(t)
  PROVE  \/ Take(t) \/ Compare(t) \/ GoesOn(t)
         \/ \E v \in Outcome \ {"waiting"} : Becomes(t, v)
<1> USE DEF Working, AtWork
<1>1. CASE Choose(t)
  BY <1>1 DEF Choose, GoesOn, stats
<1>2. CASE TryAgain(t)
  BY <1>2 DEF TryAgain, GoesOn, stats
<1>3. CASE Send(t)
  BY <1>3 DEF Send, GoesOn, stats
<1>4. CASE Failed(t)
  BY <1>4 DEF Failed, GoesOn
<1>5. CASE Skip(t)
  <2>1. Becomes(t, "skipped")
    BY <1>5 DEF Skip, Becomes, stats, Counted, TypeOK
  <2> QED BY <2>1 DEF Outcome
<1>6. CASE Abandon(t)
  <2>1. Becomes(t, "abandoned")
    BY <1>6 DEF Abandon, Becomes, stats, Counted, TypeOK
  <2> QED BY <2>1 DEF Outcome
<1>7. CASE GiveUp(t)
  <2>1. total' = total + 1 /\ passes' = passes
    BY <1>7 DEF GiveUp, Record, TypeOK
  <2>2. /\ outcome' = [outcome EXCEPT ![request[t]] = "failed"]
        /\ pc' = [pc EXCEPT ![t] = "compare"] /\ Working(t)
        /\ UNCHANGED <<next, request, stop, verdict>>
    BY <1>7 DEF GiveUp
  <2>3. Becomes(t, "failed")
    BY <2>1, <2>2 DEF Becomes, Counted, TypeOK
  <2> QED BY <2>3 DEF Outcome, Counted
<1>8. ASSUME NEW code \in Status, Answered(t, code)
      PROVE  \E v \in Outcome \ {"waiting"} : Becomes(t, v)
  <2> DEFINE right == code = Expected[kind[t]]
             v     == IF right THEN "expected" ELSE "unexpected"
  <2>1. /\ outcome' = [outcome EXCEPT ![request[t]] = v]
        /\ pc' = [pc EXCEPT ![t] = "idle"] /\ Working(t)
        /\ UNCHANGED <<next, request, stop, verdict>>
    BY <1>8 DEF Answered
  <2>2. total' = total + 1 /\ passes' = passes + (IF v = "expected" THEN 1 ELSE 0)
    BY <1>8 DEF Answered, Record
  <2>3. v \in {"expected", "unexpected"}
    OBVIOUS
  <2> HIDE DEF v
  <2>4. Becomes(t, v)
    BY <2>1, <2>2, <2>3 DEF Becomes, Counted
  <2> QED BY <2>3, <2>4 DEF Outcome, Counted
<1> QED BY <1>1, <1>2, <1>3, <1>4, <1>5, <1>6, <1>7, <1>8 DEF Step, Attempt

LEMMA TrackedStep ==
  ASSUME TypeOK, TypeOK', Tracked, [Next]_vars
  PROVE  Tracked'
<1>1. CASE UNCHANGED vars
  BY <1>1 DEF vars, thread, Tracked, Working
<1>2. CASE Judge
  BY <1>2 DEF Judge, thread, Tracked, Working
<1>3. ASSUME NEW t \in Thread, Step(t) PROVE Tracked'
  <2> USE DEF Tracked, Working, AtWork
  <2>1. CASE Take(t)
    <3>1. next \in Request /\ next' = next + 1 /\ outcome' = outcome
      BY <2>1, TrafficAssumption DEF Take, TypeOK, Request
    <3>2. /\ request'[t] = next /\ pc'[t] = "entered" /\ pc[t] = "idle"
          /\ \A u \in Thread \ {t} : request'[u] = request[u] /\ pc'[u] = pc[u]
      BY <2>1 DEF Take, TypeOK
    <3>3. \A j \in Request : j \in Nat
      BY DEF Request
    <3>4. \A u \in Thread : pc'[u] # "idle" => request'[u] \in 1 .. next' - 1
      BY <3>1, <3>2, <3>3 DEF Request
    <3>5. \A u \in Thread : Working(u)' => outcome'[request'[u]] = "waiting"
      BY <3>1, <3>2, <3>3
    <3>6. \A u \in Thread : pc'[u] = "compare" => outcome'[request'[u]] = "failed"
      BY <3>1, <3>2
    <3>7. \A u \in Thread \ {t} : Working(u) => request[u] # next
      BY <3>1, <3>3
    <3>8. \A t1, u1 \in Thread : Working(t1)' /\ Working(u1)' /\ t1 # u1
                                   => request'[t1] # request'[u1]
      BY <3>2, <3>7
    <3>9. \A j \in Request : j >= next' => outcome'[j] = "waiting"
      BY <3>1, <3>3
    <3>10. \A j \in Request : outcome'[j] = "waiting" /\ j < next'
                            => \E u \in Thread : Working(u)' /\ request'[u] = j
      <4> SUFFICES ASSUME NEW j \in Request, outcome'[j] = "waiting", j < next'
                   PROVE  \E u \in Thread : Working(u)' /\ request'[u] = j
        OBVIOUS
      <4>1. CASE j = next
        BY <3>2, <4>1
      <4>2. CASE j # next
        <5>1. j < next
          BY <3>1, <3>3, <4>2
        <5>2. PICK u \in Thread : Working(u) /\ request[u] = j
          BY <3>1, <5>1
        <5> QED BY <3>2, <5>2
      <4> QED BY <4>1, <4>2
    <3> QED BY <3>4, <3>5, <3>6, <3>8, <3>9, <3>10
  <2>2. CASE Compare(t)
    BY <2>2 DEF Compare, TypeOK
  <2>3. CASE GoesOn(t)
    BY <2>3 DEF GoesOn, TypeOK
  <2>4. ASSUME NEW v \in Outcome \ {"waiting"}, Becomes(t, v) PROVE Tracked'
    <3> DEFINE i == request[t]
    <3>1. i \in Request /\ i < next /\ Working(t)
      <4>1. Working(t) /\ request[t] \in 1 .. next - 1
        BY <2>4 DEF Becomes
      <4>2. next \in 1 .. N + 1 /\ N \in Nat
        BY TrafficAssumption DEF TypeOK
      <4> QED BY <4>1, <4>2 DEF Request
    <3>2. outcome'[i] = v /\ \A j \in Request \ {i} : outcome'[j] = outcome[j]
      BY <2>4, <3>1 DEF Becomes, TypeOK
    <3>14. /\ next \in Nat /\ \A j \in Request : j \in Nat
           /\ \A j \in 1 .. next - 1 : j \in Request
      BY TrafficAssumption DEF TypeOK, Request
    <3>3. PICK p \in {"idle", "compare"} :
            pc' = [pc EXCEPT ![t] = p] /\ (p = "compare" <=> v = "failed")
      BY <2>4 DEF Becomes
    <3>4. pc'[t] = p /\ \A u \in Thread \ {t} : pc'[u] = pc[u]
      BY <3>3 DEF TypeOK
    <3>5. UNCHANGED <<next, request>>
      BY <2>4 DEF Becomes
    <3>6. \A u \in Thread \ {t} :
            Working(u) \/ pc[u] = "compare" => request[u] # i
      <4>1. outcome[i] = "waiting"
        BY <3>1
      <4> QED BY <3>1, <4>1
    <3>7. \A u \in Thread : pc'[u] # "idle" => request[u] \in 1 .. next - 1
      BY <3>1, <3>4, TrafficAssumption DEF TypeOK, Request
    <3>8. \A u \in Thread : pc'[u] # "idle" => request[u] \in Request
      BY <3>7, <3>14
    <3> HIDE DEF i
    <3>9. \A u \in Thread : Working(u)' => outcome'[request[u]] = "waiting"
      <4> SUFFICES ASSUME NEW u \in Thread, Working(u)'
                   PROVE  outcome'[request[u]] = "waiting"
        OBVIOUS
      <4>1. u # t
        BY <3>3, <3>4
      <4>2. Working(u)
        BY <3>4, <4>1
      <4>3. request[u] # i
        BY <3>6, <4>1, <4>2
      <4>4. outcome[request[u]] = "waiting"
        BY <4>2
      <4>5. request[u] \in Request
        BY <3>8, <4>1, <4>2, <3>4
      <4> QED BY <3>2, <4>3, <4>4, <4>5
    <3>10. \A u \in Thread : pc'[u] = "compare" => outcome'[request[u]] = "failed"
      <4>1. p = "compare" => outcome'[request[t]] = "failed"
        BY <3>2, <3>3 DEF i
      <4> QED BY <4>1, <3>2, <3>3, <3>4, <3>6, <3>8
    <3>11. \A t1, u1 \in Thread : Working(t1)' /\ Working(u1)' /\ t1 # u1
                                   => request[t1] # request[u1]
      BY <3>3, <3>4
    <3>12. \A j \in Request : j >= next => outcome'[j] = "waiting"
      BY <3>1, <3>2, <3>14
    <3>13. \A j \in Request : outcome'[j] = "waiting" /\ j < next
                               => \E u \in Thread : Working(u)' /\ request[u] = j
      <4> SUFFICES ASSUME NEW j \in Request, outcome'[j] = "waiting", j < next
                   PROVE  \E u \in Thread : Working(u)' /\ request[u] = j
        OBVIOUS
      <4>1. j # i
        BY <3>2
      <4>2. PICK u \in Thread : Working(u) /\ request[u] = j
        BY <3>2, <4>1
      <4>3. u # t
        BY <4>1, <4>2 DEF i
      <4> QED BY <3>4, <4>2, <4>3
    <3> QED BY <3>5, <3>7, <3>9, <3>10, <3>11, <3>12, <3>13
  <2> QED BY <1>3, <2>1, <2>2, <2>3, <2>4, Shape
<1> QED BY <1>1, <1>2, <1>3 DEF Next

LEMMA StoppingStep ==
  ASSUME TypeOK, Tracked, Stopping, [Next]_vars
  PROVE  Stopping'
<1> USE DEF Stopping
<1>1. CASE UNCHANGED vars
  BY <1>1 DEF vars
<1>2. CASE Judge
  BY <1>2 DEF Judge
<1>3. ASSUME NEW t \in Thread, Step(t) PROVE Stopping'
  <2>1. CASE Take(t)
    BY <2>1 DEF Take
  <2>2. CASE Compare(t)
    <3>1. request[t] \in Request /\ outcome[request[t]] = "failed"
      BY <2>2, TrafficAssumption DEF Compare, Tracked, TypeOK, Request
    <3> QED BY <2>2, <3>1 DEF Compare
  <2>3. CASE GoesOn(t)
    BY <2>3 DEF GoesOn
  <2>4. ASSUME NEW v \in Outcome \ {"waiting"}, Becomes(t, v) PROVE Stopping'
    <3>1. outcome[request[t]] = "waiting"
      BY <2>4 DEF Becomes, Tracked
    <3>2. \A j \in Request \ {request[t]} : outcome'[j] = outcome[j]
      BY <2>4 DEF Becomes, TypeOK
    <3>3. stop' = stop /\ (v \in {"skipped", "abandoned"} => stop)
      BY <2>4 DEF Becomes
    <3>4. stop => \E i \in Request : outcome'[i] = "failed"
      BY <3>1, <3>2
    <3>5. \A i \in Request : outcome'[i] \in {"skipped", "abandoned"} => stop
      <4>1. request[t] \in Request => outcome'[request[t]] = v
        BY <2>4 DEF Becomes, TypeOK
      <4> QED BY <3>2, <3>3, <4>1
    <3> QED BY <3>3, <3>4, <3>5
  <2> QED BY <1>3, <2>1, <2>2, <2>3, <2>4, Shape
<1> QED BY <1>1, <1>2, <1>3 DEF Next
-----------------------------------------------------------------------------
LEMMA RequestsFinite == IsFiniteSet(Request)
  BY FS_Interval, TrafficAssumption DEF Request

LEMMA HavingFinite ==
  ASSUME NEW S
  PROVE  IsFiniteSet(Having(S)) /\ Cardinality(Having(S)) \in Nat
<1>1. Having(S) \in SUBSET Request
  BY DEF Having
<1> QED BY <1>1, RequestsFinite, FS_Subset, FS_CardinalityType

(* A request that was waiting comes to S, or does not.                     *)
LEMMA HavingGrows ==
  ASSUME TypeOK, NEW i \in Request, outcome[i] = "waiting", NEW v,
         outcome' = [outcome EXCEPT ![i] = v], NEW S, "waiting" \notin S
  PROVE  Cardinality(Having(S))'
           = Cardinality(Having(S)) + (IF v \in S THEN 1 ELSE 0)
<1>1. i \notin Having(S)
  BY DEF Having
<1>2. outcome'[i] = v /\ \A j \in Request \ {i} : outcome'[j] = outcome[j]
  BY DEF TypeOK
<1>3. CASE v \in S
  <2>1. Having(S)' = Having(S) \cup {i}
    BY <1>2, <1>3 DEF Having
  <2> QED BY <1>1, <1>3, <2>1, HavingFinite, FS_AddElement
<1>4. CASE v \notin S
  <2>1. Having(S)' = Having(S)
    BY <1>1, <1>2, <1>4 DEF Having
  <2> QED BY <1>4, <2>1, HavingFinite
<1> QED BY <1>3, <1>4

LEMMA CountsStep ==
  ASSUME TypeOK, Tracked, Counts, [Next]_vars
  PROVE  Counts'
<1> USE DEF Counts
<1>1. CASE UNCHANGED vars
  BY <1>1 DEF vars, stats, Having
<1>2. CASE Judge
  BY <1>2 DEF Judge, stats, Having
<1>3. ASSUME NEW t \in Thread, Step(t) PROVE Counts'
  <2>1. CASE Take(t)
    BY <2>1 DEF Take, stats, Having
  <2>2. CASE Compare(t)
    BY <2>2 DEF Compare, stats, Having
  <2>3. CASE GoesOn(t)
    BY <2>3 DEF GoesOn, Having
  <2>4. ASSUME NEW v \in Outcome \ {"waiting"}, Becomes(t, v) PROVE Counts'
    <3>1. outcome[request[t]] = "waiting"
      BY <2>4 DEF Becomes, Tracked
    <3>2. request[t] \in Request
      <4>1. Working(t) => pc[t] # "idle"
        BY DEF Working, AtWork
      <4>2. request[t] \in 1 .. next - 1
        BY <2>4, <4>1 DEF Becomes, Tracked
      <4> QED BY <4>2, TrafficAssumption DEF TypeOK, Request
    <3>3. /\ outcome' = [outcome EXCEPT ![request[t]] = v]
          /\ total' = total + (IF v \in Counted THEN 1 ELSE 0)
          /\ passes' = passes + (IF v = "expected" THEN 1 ELSE 0)
      BY <2>4 DEF Becomes
    <3>4. "waiting" \notin Counted /\ "waiting" \notin {"expected"}
      BY DEF Counted
    <3>5. total' = Cardinality(Having(Counted))'
      BY <3>1, <3>2, <3>3, <3>4, HavingGrows
    <3>6. passes' = Cardinality(Having({"expected"}))'
      BY <3>1, <3>2, <3>3, <3>4, HavingGrows
    <3> QED BY <3>5, <3>6
  <2> QED BY <1>3, <2>1, <2>2, <2>3, <2>4, Shape
<1> QED BY <1>1, <1>2, <1>3 DEF Next

LEMMA JudgedStep ==
  ASSUME TypeOK, Judged, [Next]_vars
  PROVE  Judged'
<1>1. CASE UNCHANGED vars
  BY <1>1 DEF vars, thread, stats, Judged, AllDone
<1>2. CASE Judge
  <2>1. AllDone'
    BY <1>2 DEF Judge, AllDone, thread
  <2> QED BY <1>2, <2>1 DEF Judge, Judged, stats
<1>3. ASSUME NEW t \in Thread, Step(t) PROVE Judged'
  <2>1. verdict = "none"
    <3>1. ~AllDone
      <4>1. CASE Take(t)
        BY <4>1, TrafficAssumption DEF Take, AllDone, TypeOK
      <4>2. CASE ~Take(t)
        BY <1>3, <4>2 DEF AllDone, Step, Attempt, Skip, Choose, TryAgain, Abandon,
                          Send, Failed, Answered, GiveUp, Compare
      <4> QED BY <4>1, <4>2
    <3> QED BY <3>1 DEF Judged
  <2>2. verdict' = verdict
    <3>1. Take(t) \/ Compare(t) => verdict' = verdict
      BY DEF Take, Compare
    <3>2. GoesOn(t) => verdict' = verdict
      BY DEF GoesOn
    <3>3. \A v \in Outcome \ {"waiting"} : Becomes(t, v) => verdict' = verdict
      BY DEF Becomes
    <3> QED BY <1>3, <3>1, <3>2, <3>3, Shape
  <2> QED BY <2>1, <2>2 DEF Judged
<1> QED BY <1>1, <1>2, <1>3 DEF Next
-----------------------------------------------------------------------------
(* Each request that has failed for good, or that no retry is left for,    *)
(* has been counted as an error.                                           *)
Lost == {i \in Request : \/ outcome[i] = "failed"
                         \/ \E t \in Thread : pc[t] = "exhausted" /\ request[t] = i}

(* Failed requests whose thread has compared since.                        *)
Compared == {i \in Having({"failed"}) :
               \A t \in Thread : pc[t] = "compare" => request[t] # i}

Errors == Cardinality(Lost) <= errors

LEMMA LostFinite == /\ IsFiniteSet(Lost) /\ Cardinality(Lost) \in Nat
                    /\ IsFiniteSet(Compared) /\ Cardinality(Compared) \in Nat
<1>1. Lost \in SUBSET Request /\ Compared \in SUBSET Request
  BY DEF Lost, Compared, Having
<1> QED BY <1>1, RequestsFinite, FS_Subset, FS_CardinalityType

LEMMA LostStep ==
  ASSUME TypeOK, TypeOK', Tracked, NEW t \in Thread, Step(t)
  PROVE  \/ errors' = errors /\ Lost' \subseteq Lost
         \/ errors' = errors + 1 /\ Lost' \subseteq Lost \cup {request[t]}
<1> USE DEF Lost
<1>1. CASE Take(t)
  BY <1>1 DEF Take, stats, TypeOK
<1>2. CASE Skip(t)
  BY <1>2 DEF Skip, stats, TypeOK
<1>3. CASE Choose(t)
  BY <1>3 DEF Choose, stats, TypeOK
<1>4. CASE TryAgain(t)
  BY <1>4 DEF TryAgain, stats, TypeOK
<1>5. CASE Abandon(t)
  BY <1>5 DEF Abandon, stats, TypeOK
<1>6. CASE Send(t)
  BY <1>6 DEF Send, stats, TypeOK
<1>7. CASE Failed(t)
  BY <1>7 DEF Failed, TypeOK
<1>8. ASSUME NEW code \in Status, Answered(t, code)
      PROVE  errors' = errors /\ Lost' \subseteq Lost
  <2>1. errors' = errors /\ request' = request /\ pc' = [pc EXCEPT ![t] = "idle"]
    BY <1>8 DEF Answered
  <2>2. \E v \in {"expected", "unexpected"} : outcome' = [outcome EXCEPT ![request[t]] = v]
    BY <1>8 DEF Answered
  <2> QED BY <2>1, <2>2 DEF TypeOK
<1>9. CASE GiveUp(t)
  <2>1. /\ errors' = errors /\ request' = request
        /\ pc[t] = "exhausted" /\ pc' = [pc EXCEPT ![t] = "compare"]
        /\ outcome' = [outcome EXCEPT ![request[t]] = "failed"]
    BY <1>9 DEF GiveUp
  <2> QED BY <2>1 DEF TypeOK
<1>10. CASE Compare(t)
  BY <1>10 DEF Compare, stats, TypeOK
<1> QED
  BY <1>1, <1>2, <1>3, <1>4, <1>5, <1>6, <1>7, <1>8, <1>9, <1>10 DEF Step, Attempt

LEMMA ErrorsStep ==
  ASSUME TypeOK, TypeOK', Tracked, Errors, [Next]_vars
  PROVE  Errors'
<1>1. CASE UNCHANGED vars
  BY <1>1 DEF vars, stats, thread, Errors, Lost
<1>2. CASE Judge
  BY <1>2 DEF Judge, stats, thread, Errors, Lost
<1>3. ASSUME NEW t \in Thread, Step(t) PROVE Errors'
  <2>1. IsFiniteSet(Lost) /\ Cardinality(Lost) \in Nat /\ errors \in Nat
    BY LostFinite DEF TypeOK
  <2>2. CASE errors' = errors /\ Lost' \subseteq Lost
    <3>1. Cardinality(Lost') <= Cardinality(Lost) /\ Cardinality(Lost') \in Nat
      BY <2>1, <2>2, FS_Subset, FS_CardinalityType
    <3> QED BY <2>1, <2>2, <3>1 DEF Errors
  <2>3. CASE errors' = errors + 1 /\ Lost' \subseteq Lost \cup {request[t]}
    <3> DEFINE more == Lost \cup {request[t]}
    <3>1. /\ IsFiniteSet(more) /\ Cardinality(more) \in Nat
          /\ Cardinality(more) <= Cardinality(Lost) + 1
      <4>1. /\ IsFiniteSet(more)
            /\ Cardinality(more) = IF request[t] \in Lost THEN Cardinality(Lost)
                                   ELSE Cardinality(Lost) + 1
        BY <2>1, FS_AddElement
      <4>2. Cardinality(more) \in Nat
        BY <4>1, FS_CardinalityType
      <4> HIDE DEF more
      <4> QED BY <2>1, <4>1, <4>2
    <3>2. Cardinality(Lost') <= Cardinality(more) /\ Cardinality(Lost') \in Nat
      BY <2>3, <3>1, FS_Subset, FS_CardinalityType
    <3> HIDE DEF more
    <3> QED BY <2>1, <2>3, <3>1, <3>2 DEF Errors
  <2> QED BY <1>3, <2>2, <2>3, LostStep
<1> QED BY <1>1, <1>2, <1>3 DEF Next

(* A thread that compares sees the errors of all failed requests.          *)
LEMMA FailuresStep ==
  ASSUME TypeOK, TypeOK', Tracked, Errors, FailuresStopTheRun, [Next]_vars
  PROVE  FailuresStopTheRun'
<1>1. FailuresStopTheRun <=> (Cardinality(Compared) >= options.maxErrors => stop)
  BY DEF FailuresStopTheRun, Compared
<1>2. FailuresStopTheRun' <=> (Cardinality(Compared') >= options'.maxErrors => stop')
  BY DEF FailuresStopTheRun, Compared
<1>3. options.maxErrors \in Nat
  BY TrafficAssumption DEF TypeOK
<1>4. CASE UNCHANGED vars
  BY <1>1, <1>2, <1>4 DEF vars, thread, Compared, Having
<1>5. CASE Judge
  BY <1>1, <1>2, <1>5 DEF Judge, thread, Compared, Having
<1>6. ASSUME NEW t \in Thread, Step(t) PROVE FailuresStopTheRun'
  <2>1. options' = options
    BY <1>6 DEF Step, Attempt, Take, Skip, Choose, TryAgain, Abandon, Send, Failed,
                Answered, GiveUp, Compare
  <2>2. CASE Compare(t)
    <3>1. outcome' = outcome /\ stop' = (stop \/ errors >= options.maxErrors)
      BY <2>2 DEF Compare
    <3>2. Compared' \subseteq Lost
      BY <3>1 DEF Compared, Having, Lost
    <3>3. Cardinality(Compared') <= Cardinality(Lost) /\ Cardinality(Compared') \in Nat
      BY <3>2, LostFinite, FS_Subset, FS_CardinalityType
    <3>4. Cardinality(Lost) \in Nat /\ Cardinality(Lost) <= errors /\ errors \in Nat
      BY LostFinite DEF Errors, TypeOK
    <3>5. Cardinality(Compared') >= options.maxErrors => errors >= options.maxErrors
      BY <1>3, <3>3, <3>4
    <3>6. errors >= options.maxErrors => stop'
      BY <3>1
    <3> QED BY <1>2, <2>1, <3>5, <3>6
  <2>3. ASSUME Compared' \subseteq Compared, stop' = stop
        PROVE  FailuresStopTheRun'
    <3>1. /\ Cardinality(Compared') <= Cardinality(Compared)
          /\ Cardinality(Compared') \in Nat /\ Cardinality(Compared) \in Nat
      BY <2>3, LostFinite, FS_Subset, FS_CardinalityType
    <3> QED BY <1>1, <1>2, <1>3, <2>1, <2>3, <3>1
  <2>4. CASE Take(t)
    <3>1. Compared' \subseteq Compared
      BY <2>4 DEF Take, Compared, Having, TypeOK
    <3> QED BY <2>3, <2>4, <3>1 DEF Take
  <2>5. CASE GoesOn(t)
    <3>1. Compared' \subseteq Compared
      BY <2>5 DEF GoesOn, Compared, Having, TypeOK, Working, AtWork
    <3> QED BY <2>3, <2>5, <3>1 DEF GoesOn
  <2>6. ASSUME NEW v \in Outcome \ {"waiting"}, Becomes(t, v)
        PROVE  FailuresStopTheRun'
    <3>1. PICK p \in {"idle", "compare"} :
            pc' = [pc EXCEPT ![t] = p] /\ (p = "compare" <=> v = "failed")
      BY <2>6 DEF Becomes
    <3>2. /\ outcome' = [outcome EXCEPT ![request[t]] = v]
          /\ request' = request /\ stop' = stop /\ pc[t] # "compare"
      BY <2>6 DEF Becomes, Working, AtWork
    <3>3. Compared' \subseteq Compared
      <4> SUFFICES ASSUME NEW j \in Compared' PROVE j \in Compared
        OBVIOUS
      <4>1. /\ j \in Request /\ outcome'[j] = "failed"
            /\ \A u \in Thread : pc'[u] = "compare" => request[u] # j
        BY <3>2 DEF Compared, Having
      <4>2. j # request[t]
        BY <3>1, <3>2, <4>1 DEF TypeOK
      <4>3. outcome[j] = "failed"
        BY <3>2, <4>1, <4>2 DEF TypeOK
      <4>4. \A u \in Thread : pc[u] = "compare" => request[u] # j
        BY <3>1, <3>2, <4>1 DEF TypeOK
      <4> QED BY <4>1, <4>3, <4>4 DEF Compared, Having
    <3> QED BY <2>3, <3>2, <3>3
  <2> QED BY <1>6, <2>2, <2>4, <2>5, <2>6, Shape
<1> QED BY <1>4, <1>5, <1>6 DEF Next
-----------------------------------------------------------------------------
(* After the stop nobody comes to a send any more, and the thread that set *)
(* it is at none.                                                          *)
Late ==
  /\ late \in [Thread -> 0 .. 1]
  /\ \A t \in Thread : late[t] > 0 => stop /\ pc[t] # "send"
  /\ stop => \E t \in Thread : late[t] = 0 /\ pc[t] # "send"

LEMMA LateStep ==
  ASSUME TypeOK, Late, [Next]_vars
  PROVE  Late'
<1> USE DEF Late
<1>1. CASE UNCHANGED vars
  BY <1>1 DEF vars, thread
<1>2. CASE Judge
  BY <1>2 DEF Judge, thread
<1>3. ASSUME NEW t \in Thread, Step(t) PROVE Late'
  <2>1. CASE Compare(t)
    BY <2>1 DEF Compare, TypeOK
  <2>2. CASE Send(t)
    <3>1. /\ pc[t] = "send" /\ pc' = [pc EXCEPT ![t] = "sent"] /\ stop' = stop
          /\ late' = IF stop THEN [late EXCEPT ![t] = @ + 1] ELSE late
      BY <2>2 DEF Send
    <3>2. late[t] = 0
      BY <3>1
    <3>3. late' \in [Thread -> 0 .. 1]
      BY <3>1, <3>2
    <3> QED BY <3>1, <3>2, <3>3 DEF TypeOK
  <2>3. ASSUME late' = late, stop' = stop,
               NEW p, pc' = [pc EXCEPT ![t] = p], p = "send" => ~stop
        PROVE  Late'
    BY <2>3 DEF TypeOK
  <2>4. CASE Take(t) \/ Skip(t) \/ Choose(t) \/ TryAgain(t) \/ Abandon(t) \/ GiveUp(t)
    BY <2>3, <2>4 DEF Take, Skip, Choose, TryAgain, Abandon, GiveUp
  <2>5. ASSUME NEW code \in Status, Answered(t, code) PROVE Late'
    BY <2>3, <2>5 DEF Answered
  <2>6. CASE Failed(t)
    <3>1. \E p \in {"loop", "exhausted"} : pc' = [pc EXCEPT ![t] = p]
      BY <2>6 DEF Failed
    <3> QED BY <2>3, <2>6, <3>1 DEF Failed
  <2> QED BY <1>3, <2>1, <2>2, <2>4, <2>5, <2>6 DEF Step, Attempt
<1> QED BY <1>1, <1>2, <1>3 DEF Next
-----------------------------------------------------------------------------
LEMMA InitOK ==
  Init => TypeOK /\ Tracked /\ Stopping /\ Counts /\ Judged /\ Errors
            /\ FailuresStopTheRun /\ Late
<1> SUFFICES ASSUME Init
             PROVE  TypeOK /\ Tracked /\ Stopping /\ Counts /\ Judged /\ Errors
                      /\ FailuresStopTheRun /\ Late
  OBVIOUS
<1>1. TypeOK
  <2>1. next \in 1 .. N + 1 /\ request \in [Thread -> 0 .. N]
    BY TrafficAssumption DEF Init
  <2>2. outcome \in [Request -> Outcome]
    BY DEF Init, Outcome
  <2> QED BY <2>1, <2>2 DEF Init, TypeOK
<1>2. Tracked
  <2>1. \A i \in Request : i >= next
    BY DEF Init, Request
  <2> QED BY <2>1 DEF Init, Tracked, Working, AtWork, Request
<1>3. Stopping
  BY DEF Init, Stopping
<1>4. Having(Counted) = {} /\ Having({"expected"}) = {} /\ Lost = {} /\ Compared = {}
  BY DEF Init, Having, Counted, Lost, Compared
<1>5. Counts /\ Errors
  BY <1>4, FS_EmptySet DEF Counts, Errors, Init
<1>6. FailuresStopTheRun
  <2>1. Cardinality(Compared) = 0
    BY <1>4, FS_EmptySet
  <2>2. options.maxErrors \in Nat \ {0}
    BY TrafficAssumption DEF Init
  <2> QED BY <2>1, <2>2 DEF FailuresStopTheRun, Compared
<1>7. Judged /\ Late
  BY DEF Init, Judged, Late
<1> QED BY <1>1, <1>2, <1>3, <1>5, <1>6, <1>7

(* Every counter and every thread stays in its range.                      *)
THEOREM TypeCorrect == Spec => []TypeOK
<1>1. Init => TypeOK
  BY InitOK
<1> QED BY <1>1, TypeStep, PTL DEF Spec

(* The verdict of --score: PASSED only if every request of the run was     *)
(* answered as expected, FAILED only if one was not, however many threads  *)
(* share the counters and whenever the run is stopped (worker, main).      *)
THEOREM VerdictsAreRight == Spec => []VerdictIsRight
<1> DEFINE IInv == Tracked /\ Stopping /\ Counts /\ Judged
<1>1. Init => IInv
  BY InitOK
<1>2. TypeOK /\ TypeOK' /\ IInv /\ [Next]_vars => IInv'
  BY TrackedStep, StoppingStep, CountsStep, JudgedStep
<1>3. ASSUME TypeOK, IInv PROVE VerdictIsRight
  <2> DEFINE right == Having({"expected"})
             all   == Having(Counted)
  <2>1. right \in SUBSET all /\ IsFiniteSet(all)
    BY HavingFinite DEF Having, Counted
  <2>2. Cardinality(right) = passes /\ Cardinality(all) = total
    BY <1>3 DEF Counts
  <2>3. ASSUME verdict = "PASSED", NEW i \in Request PROVE outcome[i] = "expected"
    <3>1. AllDone /\ ~(passes < total)
      BY <1>3, <2>3 DEF Judged
    <3>2. Cardinality(right) <= Cardinality(all)
      BY <2>1, FS_Subset
    <3>3. passes = total
      BY <1>3, <2>2, <3>1, <3>2 DEF TypeOK
    <3>4. right = all
      BY <2>1, <2>2, <3>3, FS_Subset
    <3>5. \A j \in Request : outcome[j] \in Counted => outcome[j] = "expected"
      BY <3>4 DEF Having
    <3>6. ~stop
      BY <1>3, <3>5 DEF Stopping, Counted
    <3>7. outcome[i] # "waiting"
      <4>1. i < next
        BY <1>3, <3>1, <3>6, TrafficAssumption DEF AllDone, Request, TypeOK
      <4>2. \A t \in Thread : ~Working(t)
        BY <3>1 DEF AllDone, Working, AtWork
      <4> QED BY <1>3, <4>1, <4>2 DEF Tracked
    <3>8. outcome[i] \notin {"skipped", "abandoned"}
      BY <1>3, <3>6 DEF Stopping
    <3> QED BY <1>3, <3>5, <3>7, <3>8 DEF TypeOK, Outcome
  <2>4. ASSUME verdict = "FAILED" PROVE \E i \in Request : outcome[i] # "expected"
    <3>1. passes < total /\ passes \in Nat
      BY <1>3, <2>4 DEF Judged, TypeOK
    <3>2. right # all
      BY <2>2, <3>1
    <3>3. PICK i \in all : i \notin right
      BY <2>1, <3>2
    <3> QED BY <3>3 DEF Having
  <2> QED BY <2>3, <2>4 DEF VerdictIsRight
<1> QED BY <1>1, <1>2, <1>3, TypeCorrect, PTL DEF Spec

(* As many requests failed for good as --max-errors says stop the run,     *)
(* although the threads compare one by one and without the lock (worker).  *)
THEOREM EnoughFailuresStop == Spec => []FailuresStopTheRun
<1> DEFINE IInv == Tracked /\ Errors /\ FailuresStopTheRun
<1>1. Init => IInv
  BY InitOK
<1>2. TypeOK /\ TypeOK' /\ IInv /\ [Next]_vars => IInv'
  BY TrackedStep, ErrorsStep, FailuresStep
<1> QED BY <1>1, <1>2, TypeCorrect, PTL DEF Spec

(* No thread sends twice after stop_event was set, and not every thread    *)
(* sends once (worker).                                                    *)
THEOREM StopsArePrompt == Spec => []StopIsPrompt
<1>1. Init => Late
  BY InitOK
<1>2. TypeOK /\ Late /\ [Next]_vars => Late'
  BY LateStep
<1>3. ASSUME Late PROVE StopIsPrompt
  <2> DEFINE after == {t \in Thread : late[t] > 0}
  <2>1. IsFiniteSet(Thread) /\ Thread # {} /\ after \in SUBSET Thread
    BY TrafficAssumption
  <2>2. after # Thread
    BY <1>3, <2>1 DEF Late
  <2>3. Cardinality(after) < Cardinality(Thread)
    <3>1. /\ Cardinality(after) <= Cardinality(Thread)
          /\ Cardinality(after) # Cardinality(Thread)
      BY <2>1, <2>2, FS_Subset
    <3>2. Cardinality(after) \in Nat /\ Cardinality(Thread) \in Nat
      BY <2>1, FS_Subset, FS_CardinalityType
    <3> HIDE DEF after
    <3> QED BY <3>1, <3>2
  <2>4. \A t \in Thread : late[t] <= 1
    BY <1>3 DEF Late
  <2> QED BY <2>3, <2>4 DEF StopIsPrompt
<1> QED BY <1>1, <1>2, <1>3, TypeCorrect, PTL DEF Spec
-----------------------------------------------------------------------------
(* What the suites have found so far. *)

Result == [outcome : {"PASS", "WARN", "FAIL"}, measured : BOOLEAN]
            \cup [success : BOOLEAN, parsed : Nat]
            \cup [match : BOOLEAN, boolCheck : BOOLEAN]

ResultsTypeOK == results \in [Script -> Seq(Result)] /\ DOMAIN doing = Script

LEMMA ResultsInitial == SuitesInit => ResultsTypeOK
<1>1. <<>> \in Seq(Result)
  OBVIOUS
<1> QED BY <1>1 DEF SuitesInit, ResultsTypeOK, Script

LEMMA ResultsSame ==
  ASSUME ResultsTypeOK, results' = results, DOMAIN doing' = Script
  PROVE  ResultsTypeOK'
BY DEF ResultsTypeOK

LEMMA ResultsEnd ==
  ASSUME ResultsTypeOK, NEW s \in Script, NEW what, Ends(s, what)
  PROVE  ResultsTypeOK'
<1>1. <<>> \in Seq(Result)
  OBVIOUS
<1> QED BY <1>1 DEF ResultsTypeOK, Ends, Go, Script

LEMMA ResultsHas ==
  ASSUME ResultsTypeOK, NEW s \in Script, NEW x \in Result, Has(s, x),
         UNCHANGED doing
  PROVE  ResultsTypeOK'
BY DEF ResultsTypeOK, Has

LEMMA BenchOutcomeIs == \A e, r : BenchOutcome(e, r) \in {"PASS", "WARN", "FAIL"}
BY DEF BenchOutcome

LEMMA ResultsStep == ResultsTypeOK /\ [SuitesNext]_suiteVars => ResultsTypeOK'
<1> SUFFICES ASSUME ResultsTypeOK, [SuitesNext]_suiteVars PROVE ResultsTypeOK'
  OBVIOUS
<1>0. \A s \in Script : \A where : Go(s, where) => DOMAIN doing' = Script
  BY DEF Go, ResultsTypeOK
<1>1. ASSUME NEW s \in Bench, Benchmark(s) PROVE ResultsTypeOK'
  <2>0. s \in Script /\ s # "e2e"
    BY DEF Script, Bench
  <2>1. CASE LoadBenchmarks(s) \/ BeginSave(s)
    BY <1>0, <2>0, <2>1, ResultsSame DEF LoadBenchmarks, BeginSave
  <2>2. CASE EndSave(s)
    BY <2>0, <2>2, ResultsEnd DEF EndSave
  <2>3. CASE RunBenchmark(s)
    <3>1. PICK r \in AbReport :
             IF r = "no report" THEN Ends(s, None)
             ELSE /\ Has(s, [outcome  |-> BenchOutcome(Benchmarks[Len(results[s]) + 1], r),
                             measured |-> r # "not run"])
                  /\ UNCHANGED <<doing, report>>
      BY <2>3 DEF RunBenchmark
    <3>2. [outcome  |-> BenchOutcome(Benchmarks[Len(results[s]) + 1], r),
           measured |-> r # "not run"] \in Result
      BY BenchOutcomeIs DEF Result
    <3> QED BY <2>0, <3>1, <3>2, ResultsEnd, ResultsHas
  <2> QED BY <1>1, <2>1, <2>2, <2>3 DEF Benchmark
<1>2. CASE E2e
  <2>1. CASE E2eStart
    BY <1>0, <2>1, ResultsSame DEF E2eStart, Script
  <2>2. CASE E2eSummary
    BY <2>2, ResultsEnd DEF E2eSummary, Script
  <2>3. CASE RunTest
    <3>1. ASSUME NEW rule, NEW code \in Statuses
          PROVE  [success |-> ValidateResponse(rule, StatusCode(rule, code)),
                  parsed  |-> code] \in Result
      <4>1. ValidateResponse(rule, StatusCode(rule, code)) \in BOOLEAN
        BY DEF ValidateResponse
      <4>2. code \in Nat
        BY TestSuitesAssumption
      <4> QED BY <4>1, <4>2 DEF Result
    <3>2. [success |-> FALSE, parsed |-> 0] \in Result
      BY DEF Result
    <3> QED BY <2>3, <3>1, <3>2, ResultsHas DEF RunTest, Script
  <2> QED BY <1>2, <2>1, <2>2, <2>3 DEF E2e
<1>3. CASE Check
  <2>0. "check" \in Script
    BY DEF Script
  <2>1. \/ results' = results /\ \E where : Go("check", where)
        \/ \E what : Ends("check", what)
    BY <1>3 DEF Check, CheckStart, LoadRulesFromFile, CheckWafActive
  <2> QED BY <1>0, <2>0, <2>1, ResultsSame, ResultsEnd
<1>4. CASE Debug
  <2>1. ASSUME NEW s \in {"debug", "results"},
               \/ results' = results /\ \E where : Go(s, where)
               \/ \E what : Ends(s, what)
        PROVE  ResultsTypeOK'
    BY <1>0, <2>1, ResultsSame, ResultsEnd DEF Script, Caser
  <2>2. CASE GetCaddyConfig
    BY <2>1, <2>2 DEF GetCaddyConfig
  <2>3. CASE ResultsStart
    BY <2>1, <2>3 DEF ResultsStart
  <2>4. ASSUME NEW s \in Caser, Summary(s) PROVE ResultsTypeOK'
    BY <2>4, ResultsEnd DEF Summary, Script
  <2>5. ASSUME NEW s \in Caser, AskCase(s) PROVE ResultsTypeOK'
    <3>1. \E x \in Result : Has(s, x)
      <4>1. \A c, status : Evaluated(c, status) \in Result
        BY DEF Evaluated, Result
      <4>2. [match |-> FALSE, boolCheck |-> FALSE] \in Result
        BY DEF Result
      <4> QED BY <2>5, <4>1, <4>2 DEF AskCase
    <3> QED BY <2>5, <3>1, ResultsHas DEF AskCase, Script, Caser
  <2> QED BY <1>4, <2>2, <2>3, <2>4, <2>5 DEF Debug
<1>5. CASE Environment
  <2>1. CASE UpOrDown \/ EditRules \/ ReloadRules
    BY <2>1 DEF UpOrDown, EditRules, ReloadRules, tool, ResultsTypeOK
  <2>2. ASSUME NEW s \in Script, Kill(s) PROVE ResultsTypeOK'
    BY <2>2, ResultsEnd DEF Kill
  <2> QED BY <1>5, <2>1, <2>2 DEF Environment
<1>6. CASE UNCHANGED suiteVars
  BY <1>6 DEF suiteVars, tool, ResultsTypeOK
<1> QED BY <1>1, <1>2, <1>3, <1>4, <1>5, <1>6 DEF SuitesNext
-----------------------------------------------------------------------------
(* What is predicted of one rule for each value, and what is answered.     *)
ProperRules(rs) == rs \in Seq(ToSet(rs)) /\ \A n \in DOMAIN rs : rs[n].score \in Nat

LEMMA PlacesAreNumbers == ASSUME NEW rs, ProperRules(rs) PROVE DOMAIN rs \subseteq Nat
BY DEF ProperRules

LEMMA ScoreOfOne ==
  ASSUME NEW rs, ProperRules(rs), NEW n \in DOMAIN rs
  PROVE  ScoreSum(rs, {n}) = rs[n].score
BY SumOne DEF ScoreSum, ProperRules

LEMMA ScoreOfTwo ==
  ASSUME NEW rs, ProperRules(rs), NEW n \in DOMAIN rs, NEW m \in DOMAIN rs, n # m
  PROVE  ScoreSum(rs, {n, m}) = rs[n].score + rs[m].score
<1> DEFINE fun == [k \in DOMAIN rs |-> rs[k].score]
<1>1. fun[n] = rs[n].score /\ fun[m] = rs[m].score /\ fun[n] \in Int /\ fun[m] \in Int
  BY DEF ProperRules
<1> HIDE DEF fun
<1>2. SumFunctionOnSet(fun, {n, m}) = fun[n] + fun[m]
  BY <1>1, SumTwo
<1> QED BY <1>1, <1>2 DEF fun, ScoreSum

LEMMA ScoreOfRule ==
  ASSUME NEW rs, ProperRules(rs), NEW arg, NEW n \in DOMAIN rs,
         Matching(rs, {arg}) = {n}
  PROVE  RuleScore(rs, arg) = rs[n].score
<1>1. n \in Nat
  BY PlacesAreNumbers
<1>2. Max({n}) = n
  BY <1>1 DEF Max
<1> QED BY <1>2 DEF RuleScore

(* Two arguments, a rule for each. *)
OnlyRule(rs, arg, n) == n \in DOMAIN rs /\ Matching(rs, {arg}) = {n}
Apart(a, b) == a.param # b.param
BothRules(rs, a, b, n, m) ==
  /\ n # m /\ Matching(rs, {a, b}) = {n, m}
  /\ ScoresOf(rs, {a, b}) = rs[n].score + rs[m].score

LEMMA TwoRules ==
  ASSUME NEW rs, ProperRules(rs), NEW a, NEW b, Apart(a, b),
         NEW n, OnlyRule(rs, a, n), NEW m, OnlyRule(rs, b, m)
  PROVE  BothRules(rs, a, b, n, m)
<1> USE DEF OnlyRule
<1>1. Matching(rs, {a, b}) = {n, m}
  BY DEF Matching
<1>2. n # m
  BY DEF Matching, Looks, Apart
<1>0. a # b
  BY DEF Apart
<1>3. RuleScore(rs, a) = rs[n].score /\ RuleScore(rs, b) = rs[m].score
  BY ScoreOfRule
<1>4. RuleScore(rs, a) \in Int /\ RuleScore(rs, b) \in Int
  BY <1>3 DEF ProperRules
<1> DEFINE fun == [arg \in {a, b} |-> RuleScore(rs, arg)]
<1>5. fun[a] = RuleScore(rs, a) /\ fun[b] = RuleScore(rs, b)
  OBVIOUS
<1> HIDE DEF fun
<1>6. SumFunctionOnSet(fun, {a, b}) = fun[a] + fun[b]
  BY <1>0, <1>4, <1>5, SumTwo
<1> QED BY <1>1, <1>2, <1>3, <1>5, <1>6 DEF fun, ScoresOf, BothRules

LEMMA TwoRulesAnswer ==
  ASSUME NEW rs, ProperRules(rs), NEW n \in DOMAIN rs, NEW m \in DOMAIN rs, n # m,
         NEW payload, Matching(rs, payload) = {n, m},
         rs[n].mode # "block", rs[m].mode # "block"
  PROVE  Answer(rs, 5, payload) =
           IF rs[n].score + rs[m].score >= 5 THEN 403 ELSE 200
<1>1. n \in Nat /\ m \in Nat /\ rs[n].score \in Nat /\ rs[m].score \in Nat
  BY PlacesAreNumbers DEF ProperRules
<1> DEFINE upTo(k) == ScoreSum(rs, {j \in {n, m} : j <= k})
<1>2. CASE n < m
  <2>1. {j \in {n, m} : j <= n} = {n} /\ {j \in {n, m} : j <= m} = {n, m}
    BY <1>1, <1>2
  <2>2. upTo(n) = rs[n].score /\ upTo(m) = rs[n].score + rs[m].score
    BY <2>1, ScoreOfOne, ScoreOfTwo
  <2>3. (\E k \in {n, m} : rs[k].mode = "block" \/ upTo(k) >= 5)
          <=> rs[n].score + rs[m].score >= 5
    BY <1>1, <2>2
  <2> QED BY <2>3 DEF Answer
<1>3. CASE m < n
  <2>1. {j \in {n, m} : j <= m} = {m} /\ {j \in {n, m} : j <= n} = {n, m}
    BY <1>1, <1>3
  <2>2. upTo(m) = rs[m].score /\ upTo(n) = rs[n].score + rs[m].score
    BY <2>1, ScoreOfOne, ScoreOfTwo
  <2>3. (\E k \in {n, m} : rs[k].mode = "block" \/ upTo(k) >= 5)
          <=> rs[n].score + rs[m].score >= 5
    BY <1>1, <2>2
  <2> QED BY <2>3 DEF Answer
<1> QED BY <1>1, <1>2, <1>3

LEMMA OneRuleAnswer ==
  ASSUME NEW rs, ProperRules(rs), NEW n \in DOMAIN rs, NEW payload,
         Matching(rs, payload) = {n}
  PROVE  Answer(rs, 5, payload) =
           IF rs[n].mode = "block" \/ rs[n].score >= 5 THEN 403 ELSE 200
<1>1. n \in Nat
  BY PlacesAreNumbers
<1>2. {m \in {n} : m <= n} = {n}
  BY <1>1
<1>3. ScoreSum(rs, {n}) = rs[n].score
  BY ScoreOfOne
<1> QED BY <1>2, <1>3 DEF Answer

(* The prediction is the answer, for any rules. *)
LEMMA ForetoldIsAnswered ==
  ASSUME NEW rs, ProperRules(rs), OneRuleEach(rs),
         NEW c \in {"below", "exceed", "block"}
  PROVE  /\ ShouldBlock(rs, c) = "yes" => Answer(rs, 5, Payload(c)) = 403
         /\ ShouldBlock(rs, c) = "no"
              /\ (c = "block" => ScoreSum(rs, Matching(rs, Payload(c))) < 5)
              => Answer(rs, 5, Payload(c)) = 200
<1>1. CASE c \in {"below", "exceed"}
  <2>1. PICK a, b : Payload(c) = {a, b} /\ a.param # b.param
    <3>1. CASE c = "below"
      <4>1. Payload(c) = {Arg("param1", "score2"), Arg("param2", "score2")}
        BY <3>1 DEF Payload
      <4>2. Arg("param1", "score2").param # Arg("param2", "score2").param
        BY DEF Arg
      <4> QED BY <4>1, <4>2, Zenon
    <3>2. CASE c = "exceed"
      <4>1. Payload(c) = {Arg("param1", "score3"), Arg("param2", "score3")}
        BY <3>2 DEF Payload
      <4>2. Arg("param1", "score3").param # Arg("param2", "score3").param
        BY DEF Arg
      <4> QED BY <4>1, <4>2, Zenon
    <3> QED BY <1>1, <3>1, <3>2
  <2>2. PICK n \in DOMAIN rs : Matching(rs, {a}) = {n} /\ rs[n].mode # "block"
    BY <1>1, <2>1 DEF OneRuleEach
  <2>3. PICK m \in DOMAIN rs : Matching(rs, {b}) = {m} /\ rs[m].mode # "block"
    BY <1>1, <2>1 DEF OneRuleEach
  <2>4. /\ n # m /\ Matching(rs, {a, b}) = {n, m}
        /\ ScoresOf(rs, {a, b}) = rs[n].score + rs[m].score
    <3>1. OnlyRule(rs, a, n) /\ OnlyRule(rs, b, m) /\ Apart(a, b)
      BY <2>1, <2>2, <2>3 DEF OnlyRule, Apart
    <3>2. BothRules(rs, a, b, n, m)
      BY <3>1, TwoRules
    <3> QED BY <3>2 DEF BothRules
  <2>5. Answer(rs, 5, {a, b}) = IF rs[n].score + rs[m].score >= 5 THEN 403 ELSE 200
    BY <2>2, <2>3, <2>4, TwoRulesAnswer
  <2>6. Payload(c) \cap MissingTests(rs) = {}
    BY <2>1, <2>2, <2>3 DEF MissingTests
  <2>7. ShouldBlock(rs, c) = IF rs[n].score + rs[m].score >= 5 THEN "yes" ELSE "no"
    BY <1>1, <2>1, <2>4, <2>6 DEF ShouldBlock
  <2> QED BY <1>1, <2>1, <2>5, <2>7
<1>2. CASE c = "block"
  <2>1. PICK a : Payload(c) = {a}
    BY <1>2 DEF Payload
  <2>2. PICK n \in DOMAIN rs : Matching(rs, {a}) = {n}
    BY <1>2, <2>1 DEF OneRuleEach
  <2>3. Answer(rs, 5, {a}) = IF rs[n].mode = "block" \/ rs[n].score >= 5 THEN 403 ELSE 200
    BY <2>2, OneRuleAnswer
  <2>4. n \in Nat /\ rs[n].score \in Nat
    BY PlacesAreNumbers DEF ProperRules
  <2>5. Max({n}) = n
    BY <2>4 DEF Max
  <2>6. Payload(c) \cap MissingTests(rs) = {}
    BY <2>1, <2>2 DEF MissingTests
  <2>7. ShouldBlock(rs, c) = IF rs[n].mode = "block" THEN "yes" ELSE "no"
    BY <1>2, <2>1, <2>2, <2>5, <2>6 DEF ShouldBlock
  <2>8. ScoreSum(rs, Matching(rs, Payload(c))) = rs[n].score
    BY <2>1, <2>2, ScoreOfOne
  <2> QED BY <1>2, <2>1, <2>3, <2>4, <2>7, <2>8
<1> QED BY <1>1, <1>2

(* A prediction is of the file as it is; an answer is that of the rules in *)
(* force.                                                                  *)
PredictionInv ==
  /\ setup \in Setup /\ ruleFile \in setup.files
  /\ predicted # None => predicted = CheckRuleCoverage(ruleFile)
  /\ \A c \in DOMAIN answers : answers[c] \subseteq {Answer(rules, threshold, Payload(c))}
  /\ DOMAIN answers = ToSet(TestCases)

LEMMA PredictionInitial == SuitesInit => PredictionInv
BY DEF SuitesInit, PredictionInv, NoAnswers

LEMMA AnswerSame ==
  UNCHANGED <<rules, threshold>> =>
    \A c : Answer(rules, threshold, Payload(c))' = Answer(rules, threshold, Payload(c))
OBVIOUS

LEMMA CoverageSame ==
  ruleFile' = ruleFile => CheckRuleCoverage(ruleFile)' = CheckRuleCoverage(ruleFile)
OBVIOUS

(* The parts of the invariant. *)
LEMMA PredictionParts ==
  ASSUME PredictionInv, setup' = setup, ruleFile' \in setup.files,
         predicted' # None => predicted' = CheckRuleCoverage(ruleFile)',
         \/ UNCHANGED <<rules, threshold, answers>>
         \/ answers' = NoAnswers
  PROVE  PredictionInv'
<1>1. CASE UNCHANGED <<rules, threshold, answers>>
  BY <1>1, AnswerSame DEF PredictionInv
<1>2. CASE answers' = NoAnswers
  BY <1>2 DEF PredictionInv, NoAnswers
<1> QED BY <1>1, <1>2

LEMMA PredictionSame ==
  ASSUME PredictionInv, UNCHANGED <<setup, waf, said>>
  PROVE  PredictionInv'
BY PredictionParts, CoverageSame DEF PredictionInv, waf, said

LEMMA HeardAnswer ==
  ASSUME PredictionInv, NEW c, Heard(c, Answer(rules, threshold, Payload(c))),
         UNCHANGED <<setup, waf, predicted>>
  PROVE  PredictionInv'
<1>1. /\ answers' = [answers EXCEPT ![c] = @ \cup {Answer(rules, threshold, Payload(c))}]
      /\ rules' = rules /\ threshold' = threshold /\ ruleFile' = ruleFile
      /\ setup' = setup /\ predicted' = predicted
  BY DEF Heard, waf
<1>2. \A d : Answer(rules, threshold, Payload(d))' = Answer(rules, threshold, Payload(d))
  BY <1>1, AnswerSame
<1>3. ASSUME NEW d \in DOMAIN answers'
      PROVE  answers'[d] \subseteq {Answer(rules, threshold, Payload(d))}
  <2>1. CASE d # c
    BY <1>1, <1>3, <2>1 DEF PredictionInv
  <2>2. CASE d = c
    BY <1>1, <1>3, <2>2 DEF PredictionInv
  <2> QED BY <2>1, <2>2
<1>4. DOMAIN answers' = DOMAIN answers
  BY <1>1
<1>5. \A d \in DOMAIN answers' :
         answers'[d] \subseteq {Answer(rules, threshold, Payload(d))'}
  BY <1>2, <1>3
<1> QED BY <1>1, <1>4, <1>5, CoverageSame DEF PredictionInv

LEMMA PredictionStep == PredictionInv /\ [SuitesNext]_suiteVars => PredictionInv'
<1> SUFFICES ASSUME PredictionInv, [SuitesNext]_suiteVars PROVE PredictionInv'
  OBVIOUS
<1> DEFINE Aside == UNCHANGED <<setup, waf, said>>
<1>0. Aside => PredictionInv'
  BY PredictionSame
<1>1. ASSUME NEW s \in Bench, Benchmark(s) PROVE Aside
  BY <1>1 DEF Benchmark, LoadBenchmarks, RunBenchmark, BeginSave, EndSave
<1>2. E2e => Aside
  BY DEF E2e, E2eStart, RunTest, E2eSummary
<1>3. CASE Check
  <2>1. CheckStart => Aside
    BY DEF CheckStart
  <2>2. CASE LoadRulesFromFile
    <3>1. /\ UNCHANGED <<setup, ruleFile, rules, threshold, answers>>
          /\ predicted' = predicted \/ predicted' = CheckRuleCoverage(ruleFile)
      BY <2>2 DEF LoadRulesFromFile, waf
    <3> QED BY <3>1, PredictionParts, CoverageSame DEF PredictionInv
  <2>3. CASE CheckWafActive
    <3>1. \/ Heard("block", Answer(rules, threshold, Payload("block")))
          \/ UNCHANGED answers
      BY <2>3 DEF CheckWafActive
    <3> QED BY <2>3, <3>1, HeardAnswer, PredictionSame DEF CheckWafActive, said
  <2> QED BY <1>0, <1>3, <2>1, <2>2, <2>3 DEF Check
<1>4. CASE Debug
  <2>1. ASSUME NEW s \in Caser, AskCase(s) PROVE PredictionInv'
    <3>1. \/ \E c : Heard(c, Answer(rules, threshold, Payload(c)))
          \/ UNCHANGED answers
      BY <2>1 DEF AskCase
    <3> QED BY <2>1, <3>1, HeardAnswer, PredictionSame DEF AskCase, said
  <2>2. ASSUME \/ GetCaddyConfig \/ ResultsStart
               \/ \E s \in Caser : Summary(s)
        PROVE  Aside
    BY <2>2 DEF GetCaddyConfig, ResultsStart, Summary
  <2> QED BY <1>0, <1>4, <2>1, <2>2 DEF Debug
<1>5. CASE Environment
  <2>1. ASSUME NEW s \in Script, Kill(s) PROVE Aside
    BY <2>1 DEF Kill
  <2>2. CASE EditRules
    BY <2>2, PredictionParts DEF EditRules
  <2>3. CASE ReloadRules
    BY <2>3, PredictionParts, CoverageSame DEF ReloadRules, PredictionInv
  <2>4. CASE UpOrDown
    BY <2>4, PredictionParts, CoverageSame DEF UpOrDown, PredictionInv
  <2> QED BY <1>0, <1>5, <2>1, <2>2, <2>3, <2>4 DEF Environment
<1>6. UNCHANGED suiteVars => Aside
  BY DEF suiteVars
<1> QED BY <1>0, <1>1, <1>2, <1>3, <1>4, <1>5, <1>6 DEF SuitesNext

(* What check_waf_config.py says of tests 2, 3 and 4 comes true, for any   *)
(* rule files, edits, reloads, restarts and order of the tests.            *)
THEOREM PredictionsAreTrue == SuitesSpec => []PredictionsComeTrue
<1>1. PredictionInv => PredictionsComeTrue
  <2> SUFFICES ASSUME PredictionInv, predicted # None, rules = ruleFile,
                      threshold = 5, OneRuleEach(rules),
                      NEW c \in {"below", "exceed", "block"}
               PROVE  /\ predicted[c] = "yes" => answers[c] \subseteq {403}
                      /\ predicted[c] = "no"
                           /\ (c = "block" => ScoreSum(rules, Matching(rules, Payload(c))) < 5)
                           => answers[c] \subseteq {200}
    BY DEF PredictionsComeTrue
  <2>1. predicted[c] = ShouldBlock(rules, c)
    BY DEF PredictionInv, CheckRuleCoverage
  <2>2. answers[c] \subseteq {Answer(rules, 5, Payload(c))}
    <3>1. c \in ToSet(TestCases)
      BY DEF ToSet, TestCases
    <3> QED BY <3>1 DEF PredictionInv
  <2>3. ProperRules(rules)
    BY TestSuitesAssumption DEF PredictionInv, ProperRules
  <2>4. PICK rs : rs = rules
    OBVIOUS
  <2>5. /\ ShouldBlock(rs, c) = "yes" => Answer(rs, 5, Payload(c)) = 403
        /\ ShouldBlock(rs, c) = "no"
             /\ (c = "block" => ScoreSum(rs, Matching(rs, Payload(c))) < 5)
             => Answer(rs, 5, Payload(c)) = 200
    BY <2>3, <2>4, ForetoldIsAnswered
  <2> QED BY <2>1, <2>2, <2>4, <2>5
<1> QED BY <1>1, PredictionInitial, PredictionStep, PTL DEF SuitesSpec
-----------------------------------------------------------------------------
(* The file of benchmark results. *)
RunsIn(records) == {records[n].run : n \in DOMAIN records}
RecordType == [run : Nat, pass : Nat, warn : Nat, fail : Nat, measured : Nat]

BenchTypeOK ==
  /\ doing \in [Script -> {"off", "done", "test", "write", "load", "verify", "ask"}]
  /\ runs \in Nat /\ id \in [Bench -> Nat]
  /\ loaded \in [Bench -> Seq(RecordType)]
  /\ file.records \in Seq(RecordType) /\ (~file.whole => file.records = <<>>)

(* A run that has met no other has none beside it now, and what is kept is *)
(* in the file or with everybody who is going to write it.                 *)
BenchInv ==
  /\ BenchTypeOK
  /\ \A s \in Bench : Busy(s) /\ s \notin overlapped => ~OtherBusy(s)
  /\ \A s \in Bench : Busy(s) => kept \subseteq RunsIn(loaded[s])
  /\ \A s \in Bench : doing[s] = "write" => id[s] \in RunsIn(loaded[s])
  /\ \A s \in Bench : doing[s] = "write" /\ (OtherWriting(s) \/ file.whole)
                        => kept = {} /\ s \in overlapped
  /\ (\A s \in Bench : doing[s] # "write") => kept \subseteq RunsIn(file.records)

LEMMA BenchInitial == SuitesInit => BenchInv
<1> SUFFICES ASSUME SuitesInit PROVE BenchInv
  OBVIOUS
<1>1. <<>> \in Seq(RecordType)
  OBVIOUS
<1>2. BenchTypeOK
  BY <1>1 DEF SuitesInit, BenchTypeOK
<1>3. \A s \in Bench : doing[s] = "off"
  BY DEF SuitesInit, Bench, Script
<1> QED BY <1>2, <1>3 DEF SuitesInit, BenchInv, Busy

(* Nobody at the benchmarks moves. *)
LEMMA BenchSame ==
  ASSUME BenchInv, UNCHANGED <<bench, overlapped>>, kept' \in {kept, {}},
         doing' \in [Script -> {"off", "done", "test", "write", "load", "verify", "ask"}],
         \A s \in Bench : doing'[s] = doing[s]
  PROVE  BenchInv'
<1>1. BenchTypeOK'
  BY DEF BenchInv, BenchTypeOK, bench
<1>2. /\ loaded' = loaded /\ file' = file /\ id' = id /\ kept' \subseteq kept
      /\ overlapped' = overlapped
  BY DEF bench
<1>3. \A s \in Bench : /\ Busy(s)' <=> Busy(s)
                       /\ OtherBusy(s)' <=> OtherBusy(s)
                       /\ OtherWriting(s)' <=> OtherWriting(s)
  BY DEF Busy, OtherBusy, OtherWriting
<1>4. \A s \in Bench : RunsIn(loaded[s])' = RunsIn(loaded[s])
  BY <1>2 DEF RunsIn
<1>5. RunsIn(file.records)' = RunsIn(file.records)
  BY <1>2 DEF RunsIn
<1> QED BY <1>1, <1>2, <1>3, <1>4, <1>5 DEF BenchInv

(* The other tools and the environment leave the terminals where they are. *)
LEMMA BenchAside ==
  ASSUME BenchInv, UNCHANGED <<bench, overlapped>>, kept' \in {kept, {}},
         NEW s \in Script \ Bench,
         NEW where \in {"off", "done", "test", "write", "load", "verify", "ask"},
         Go(s, where)
  PROVE  BenchInv'
<1>1. /\ doing' \in [Script -> {"off", "done", "test", "write", "load", "verify", "ask"}]
      /\ \A t \in Bench : doing'[t] = doing[t]
  BY DEF BenchInv, BenchTypeOK, Go, Script
<1> QED BY <1>1, BenchSame

LEMMA BenchStays ==
  ASSUME BenchInv, UNCHANGED <<bench, overlapped, kept, doing>>
  PROVE  BenchInv'
BY BenchSame DEF BenchInv, BenchTypeOK

LEMMA RunRecordType ==
  ASSUME ResultsTypeOK, BenchTypeOK, NEW s \in Bench
  PROVE  RunRecord(s) \in RecordType
<1>1. IsFiniteSet(DOMAIN results[s])
  <2>1. results[s] \in Seq(Result)
    BY DEF ResultsTypeOK, Script
  <2>2. DOMAIN results[s] = 1 .. Len(results[s]) /\ Len(results[s]) \in Nat
    BY <2>1
  <2> QED BY <2>2, FS_Interval
<1>2. \A S \in SUBSET DOMAIN results[s] : Cardinality(S) \in Nat
  BY <1>1, FS_Subset, FS_CardinalityType
<1>3. /\ Count(s, LAMBDA r : r.outcome = "PASS") \in Nat
      /\ Count(s, LAMBDA r : r.outcome = "WARN") \in Nat
      /\ Count(s, LAMBDA r : r.outcome = "FAIL") \in Nat
      /\ Count(s, LAMBDA r : r.measured) \in Nat
  BY <1>2 DEF Count
<1>4. id[s] \in Nat
  BY DEF BenchTypeOK
<1> QED BY <1>3, <1>4 DEF RunRecord, RecordType

LEMMA BenchLoads ==
  ASSUME BenchInv, NEW s \in Bench, LoadBenchmarks(s)
  PROVE  BenchInv'
<1>0. s \in Script
  BY DEF Script
<1>1. /\ runs' = runs + 1 /\ id' = [id EXCEPT ![s] = runs + 1]
      /\ loaded' = [loaded EXCEPT ![s] = IF file.whole THEN file.records ELSE <<>>]
      /\ overlapped' = IF OtherBusy(s) THEN Bench ELSE overlapped \ {s}
      /\ kept' = IF OtherWriting(s) THEN {} ELSE kept
      /\ doing' = [doing EXCEPT ![s] = "test"] /\ file' = file /\ ~Busy(s)
  BY DEF LoadBenchmarks, Go
<1>2. BenchTypeOK'
  <2>1. <<>> \in Seq(RecordType)
    OBVIOUS
  <2> QED BY <1>0, <1>1, <2>1 DEF BenchInv, BenchTypeOK
<1>3. /\ \A t \in Bench \ {s} : doing'[t] = doing[t] /\ id'[t] = id[t] /\ loaded'[t] = loaded[t]
      /\ doing'[s] = "test"
      /\ loaded'[s] = IF file.whole THEN file.records ELSE <<>>
  BY <1>0, <1>1 DEF BenchInv, BenchTypeOK, Script
<1>4. \A t \in Bench \ {s} : RunsIn(loaded[t])' = RunsIn(loaded[t])
  BY <1>3 DEF RunsIn
<1>5. file.records = loaded'[s]
  BY <1>3 DEF BenchInv, BenchTypeOK
<1>6. kept' \subseteq RunsIn(loaded[s])'
  <2>1. CASE OtherWriting(s)
    BY <1>1, <2>1
  <2>2. CASE ~OtherWriting(s)
    <3>1. \A t \in Bench : doing[t] # "write"
      BY <1>1, <2>2 DEF OtherWriting, Busy
    <3>2. kept \subseteq RunsIn(file.records)
      BY <3>1 DEF BenchInv
    <3> QED BY <1>1, <1>5, <2>2, <3>2 DEF RunsIn
  <2> QED BY <2>1, <2>2
<1>7. \A t \in Bench : Busy(t)' /\ t \notin overlapped' => ~OtherBusy(t)'
  <2>1. CASE OtherBusy(s)
    BY <1>1, <2>1
  <2>2. CASE ~OtherBusy(s)
    BY <1>1, <1>3, <2>2 DEF OtherBusy, Busy
  <2> QED BY <2>1, <2>2
<1>8. \A t \in Bench : Busy(t)' => kept' \subseteq RunsIn(loaded[t])'
  <2>1. kept' \subseteq kept
    BY <1>1
  <2> QED BY <1>3, <1>4, <1>6, <2>1 DEF BenchInv, Busy
<1>9. \A t \in Bench : doing'[t] = "write" => id'[t] \in RunsIn(loaded[t])'
  BY <1>3, <1>4 DEF BenchInv
<1>10. ASSUME NEW t \in Bench, doing'[t] = "write", OtherWriting(t)' \/ file'.whole
       PROVE  kept' = {} /\ t \in overlapped'
  <2>1. t # s /\ doing[t] = "write"
    BY <1>3, <1>10
  <2>2. OtherWriting(s) /\ OtherBusy(s)
    BY <2>1 DEF OtherWriting, OtherBusy, Busy
  <2> QED BY <1>1, <2>2
<1>11. (\A t \in Bench : doing'[t] # "write") => kept' \subseteq RunsIn(file.records)'
  <2>1. RunsIn(file.records)' = RunsIn(loaded[s])'
    BY <1>1, <1>5 DEF RunsIn
  <2> QED BY <1>6, <2>1
<1> QED BY <1>2, <1>7, <1>8, <1>9, <1>10, <1>11 DEF BenchInv

LEMMA AppendedRuns ==
  ASSUME NEW records \in Seq(RecordType), NEW r \in RecordType
  PROVE  RunsIn(Append(records, r)) = RunsIn(records) \cup {r.run}
<1>1. DOMAIN Append(records, r) = 1 .. Len(records) + 1 /\ DOMAIN records = 1 .. Len(records)
      /\ Len(records) \in Nat
  OBVIOUS
<1>2. \A n \in DOMAIN records : Append(records, r)[n] = records[n]
  OBVIOUS
<1>3. Append(records, r)[Len(records) + 1] = r
  OBVIOUS
<1>4. DOMAIN Append(records, r) = DOMAIN records \cup {Len(records) + 1}
  BY <1>1
<1> QED BY <1>2, <1>3, <1>4 DEF RunsIn

(* A terminal leaves; if it was writing, nothing is kept. *)
LEMMA BenchStops ==
  ASSUME BenchInv, NEW s \in Bench, doing' = [doing EXCEPT ![s] = "done"],
         UNCHANGED <<bench, overlapped>>,
         kept' = IF doing[s] = "write" THEN {} ELSE kept
  PROVE  BenchInv'
<1>0. s \in Script
  BY DEF Script
<1>1. /\ runs' = runs /\ id' = id /\ loaded' = loaded /\ file' = file
      /\ overlapped' = overlapped /\ kept' \subseteq kept
  BY DEF bench
<1>2. BenchTypeOK'
  BY <1>0, <1>1 DEF BenchInv, BenchTypeOK
<1>3. /\ \A t \in Bench \ {s} : doing'[t] = doing[t]
      /\ doing'[s] = "done"
  BY <1>0 DEF BenchInv, BenchTypeOK, Script
<1>4. \A t \in Bench : RunsIn(loaded[t])' = RunsIn(loaded[t])
  BY <1>1 DEF RunsIn
<1>5. RunsIn(file.records)' = RunsIn(file.records)
  BY <1>1 DEF RunsIn
<1>6. \A t \in Bench : /\ Busy(t)' => Busy(t)
                       /\ OtherBusy(t)' => OtherBusy(t)
                       /\ OtherWriting(t)' => OtherWriting(t)
  BY <1>3 DEF Busy, OtherBusy, OtherWriting
<1>7. (\A t \in Bench : doing'[t] # "write") => kept' \subseteq RunsIn(file.records)'
  <2>1. CASE doing[s] = "write"
    BY <2>1
  <2>2. CASE doing[s] # "write"
    BY <1>1, <1>3, <1>5, <2>2 DEF BenchInv
  <2> QED BY <2>1, <2>2
<1>8. \A t \in Bench : doing'[t] = "write" => t # s /\ doing[t] = "write"
  BY <1>3
<1> QED BY <1>1, <1>2, <1>4, <1>6, <1>7, <1>8 DEF BenchInv

LEMMA BenchRuns ==
  ASSUME BenchInv, NEW s \in Bench, RunBenchmark(s)
  PROVE  BenchInv'
<1>1. CASE UNCHANGED doing
  <2>1. doing' = doing /\ UNCHANGED <<bench, overlapped, kept>>
    BY <1>1 DEF RunBenchmark, danger
  <2> QED BY <2>1, BenchStays
<1>2. CASE Ends(s, None)
  <2>1. doing' = [doing EXCEPT ![s] = "done"] /\ UNCHANGED <<bench, overlapped, kept>>
        /\ doing[s] = "test"
    BY <1>2 DEF RunBenchmark, Ends, Go, danger
  <2> QED BY <2>1, BenchStops
<1> QED BY <1>1, <1>2 DEF RunBenchmark

LEMMA BenchBeginsToSave ==
  ASSUME ResultsTypeOK, BenchInv, NEW s \in Bench, BeginSave(s)
  PROVE  BenchInv'
<1>0. s \in Script
  BY DEF Script
<1>1. /\ runs' = runs /\ id' = id /\ overlapped' = overlapped
      /\ loaded' = [loaded EXCEPT ![s] = Append(loaded[s], RunRecord(s))]
      /\ file' = [records |-> <<>>, whole |-> FALSE]
      /\ kept' = IF OtherWriting(s) THEN {} ELSE kept
      /\ doing' = [doing EXCEPT ![s] = "write"] /\ doing[s] = "test"
  BY DEF BeginSave, Go
<1>2. RunRecord(s) \in RecordType /\ RunRecord(s).run = id[s]
  BY RunRecordType DEF BenchInv, RunRecord
<1>3. BenchTypeOK'
  <2>1. <<>> \in Seq(RecordType)
    OBVIOUS
  <2>2. Append(loaded[s], RunRecord(s)) \in Seq(RecordType)
    BY <1>2 DEF BenchInv, BenchTypeOK
  <2>3. loaded' \in [Bench -> Seq(RecordType)]
    BY <1>1, <2>2 DEF BenchInv, BenchTypeOK
  <2>4. doing' \in [Script -> {"off", "done", "test", "write", "load", "verify", "ask"}]
    BY <1>1 DEF BenchInv, BenchTypeOK
  <2> QED BY <1>1, <2>1, <2>3, <2>4 DEF BenchInv, BenchTypeOK
<1>4. /\ \A t \in Bench \ {s} : doing'[t] = doing[t] /\ loaded'[t] = loaded[t]
      /\ doing'[s] = "write"
      /\ loaded'[s] = Append(loaded[s], RunRecord(s))
  BY <1>0, <1>1 DEF BenchInv, BenchTypeOK, Script
<1>5. \A t \in Bench \ {s} : RunsIn(loaded[t])' = RunsIn(loaded[t])
  BY <1>4 DEF RunsIn
<1>6. RunsIn(loaded[s])' = RunsIn(loaded[s]) \cup {id[s]}
  <2>1. RunsIn(loaded'[s]) = RunsIn(loaded[s]) \cup {id[s]}
    BY <1>2, <1>4, AppendedRuns DEF BenchInv, BenchTypeOK
  <2>2. RunsIn(loaded[s])' = RunsIn(loaded'[s])
    BY DEF RunsIn
  <2> QED BY <2>1, <2>2
<1>7. \A t \in Bench : /\ Busy(t)' <=> Busy(t)
                       /\ OtherBusy(t)' <=> OtherBusy(t)
  BY <1>1, <1>4 DEF Busy, OtherBusy
<1>8. kept' \subseteq kept
  BY <1>1
<1>9. \A t \in Bench : Busy(t)' => kept' \subseteq RunsIn(loaded[t])'
  BY <1>5, <1>6, <1>7, <1>8 DEF BenchInv
<1>10. \A t \in Bench : doing'[t] = "write" => id'[t] \in RunsIn(loaded[t])'
  BY <1>1, <1>4, <1>5, <1>6 DEF BenchInv
<1>11. ASSUME NEW t \in Bench, doing'[t] = "write", OtherWriting(t)' \/ file'.whole
       PROVE  kept' = {} /\ t \in overlapped'
  <2>1. OtherWriting(t)'
    BY <1>1, <1>11
  <2>2. OtherWriting(s) /\ Busy(t) /\ OtherBusy(t)
    <3>1. CASE t = s
      BY <1>1, <1>4, <2>1, <3>1 DEF OtherWriting, OtherBusy, Busy
    <3>2. CASE t # s
      BY <1>1, <1>4, <1>11, <3>2 DEF OtherWriting, OtherBusy, Busy
    <3> QED BY <3>1, <3>2
  <2> QED BY <1>1, <2>2 DEF BenchInv
<1> QED BY <1>1, <1>3, <1>4, <1>7, <1>9, <1>10, <1>11 DEF BenchInv

LEMMA BenchEndsToSave ==
  ASSUME BenchInv, NEW s \in Bench, EndSave(s)
  PROVE  BenchInv'
<1>0. s \in Script
  BY DEF Script
<1>1. /\ runs' = runs /\ id' = id /\ overlapped' = overlapped /\ loaded' = loaded
      /\ kept' = IF s \in overlapped THEN kept ELSE kept \cup {id[s]}
      /\ doing' = [doing EXCEPT ![s] = "done"] /\ doing[s] = "write"
  BY DEF EndSave, Ends, Go
<1>2. \/ file' = [records |-> loaded[s], whole |-> TRUE]
      \/ /\ OtherWriting(s) \/ file.whole
         /\ file' = [records |-> <<>>, whole |-> FALSE]
  BY DEF EndSave
<1>3. BenchTypeOK'
  <2>1. <<>> \in Seq(RecordType)
    OBVIOUS
  <2>2. loaded[s] \in Seq(RecordType)
    BY DEF BenchInv, BenchTypeOK
  <2>3. file'.records \in Seq(RecordType) /\ (~file'.whole => file'.records = <<>>)
    <3>1. CASE file' = [records |-> loaded[s], whole |-> TRUE]
      BY <2>2, <3>1
    <3>2. CASE file' = [records |-> <<>>, whole |-> FALSE]
      BY <2>1, <3>2
    <3> QED BY <1>2, <3>1, <3>2
  <2>4. doing' \in [Script -> {"off", "done", "test", "write", "load", "verify", "ask"}]
    BY <1>1 DEF BenchInv, BenchTypeOK
  <2> QED BY <1>1, <2>3, <2>4 DEF BenchInv, BenchTypeOK
<1>4. /\ \A t \in Bench \ {s} : doing'[t] = doing[t]
      /\ doing'[s] = "done"
  BY <1>0, <1>1 DEF BenchInv, BenchTypeOK, Script
<1>5. \A t \in Bench : RunsIn(loaded[t])' = RunsIn(loaded[t])
  BY <1>1 DEF RunsIn
<1>6. \A t \in Bench : /\ Busy(t)' => Busy(t) /\ OtherBusy(s)
                       /\ OtherBusy(t)' => OtherBusy(t)
                       /\ doing'[t] = "write" => /\ doing[t] = "write"
                                                 /\ OtherWriting(s) /\ OtherWriting(t)
  BY <1>1, <1>4 DEF Busy, OtherBusy, OtherWriting
<1>7. Busy(s)
  BY <1>1 DEF Busy
<1>8. OtherBusy(s) => kept' = kept
  BY <1>1, <1>7 DEF BenchInv
<1>9. OtherWriting(s) \/ file.whole => kept' = {}
  BY <1>1 DEF BenchInv
<1>10. \A t \in Bench : Busy(t)' => kept' \subseteq RunsIn(loaded[t])'
  BY <1>5, <1>6, <1>8 DEF BenchInv
<1>11. \A t \in Bench : doing'[t] = "write" => id'[t] \in RunsIn(loaded[t])'
  BY <1>1, <1>5, <1>6 DEF BenchInv
<1>12. \A t \in Bench : doing'[t] = "write" => kept' = {} /\ t \in overlapped'
  BY <1>1, <1>6, <1>9 DEF BenchInv
<1>13. kept' \subseteq RunsIn(file.records)'
  <2>1. CASE OtherWriting(s) \/ file.whole
    BY <1>9, <2>1
  <2>2. CASE file'.records = loaded[s]
    <3>1. RunsIn(file.records)' = RunsIn(loaded[s])
      BY <2>2 DEF RunsIn
    <3>2. kept \cup {id[s]} \subseteq RunsIn(loaded[s])
      BY <1>1, <1>7 DEF BenchInv
    <3> QED BY <1>1, <3>1, <3>2
  <2> QED BY <1>2, <2>1, <2>2
<1> QED BY <1>1, <1>3, <1>6, <1>10, <1>11, <1>12, <1>13 DEF BenchInv

LEMMA BenchStep == ResultsTypeOK /\ BenchInv /\ [SuitesNext]_suiteVars => BenchInv'
<1> SUFFICES ASSUME ResultsTypeOK, BenchInv, [SuitesNext]_suiteVars PROVE BenchInv'
  OBVIOUS
<1>0. {"e2e", "check", "debug", "results"} \subseteq Script \ Bench
  BY DEF Script, Bench, Caser
<1>1. ASSUME NEW s \in Bench, Benchmark(s) PROVE BenchInv'
  BY <1>1, BenchLoads, BenchRuns, BenchBeginsToSave, BenchEndsToSave DEF Benchmark
<1>2. CASE E2e
  <2>1. UNCHANGED <<bench, overlapped, kept>>
        /\ (Go("e2e", "test") \/ Go("e2e", "done") \/ UNCHANGED doing)
    BY <1>2 DEF E2e, E2eStart, RunTest, E2eSummary, Ends, danger
  <2> QED BY <1>0, <2>1, BenchAside, BenchStays
<1>3. CASE Check
  <2>1. UNCHANGED <<bench, overlapped, kept>>
        /\ (Go("check", "load") \/ Go("check", "verify") \/ Go("check", "done"))
    BY <1>3 DEF Check, CheckStart, LoadRulesFromFile, CheckWafActive, Ends, danger
  <2> QED BY <1>0, <2>1, BenchAside
<1>4. CASE GetCaddyConfig \/ ResultsStart
  <2>1. UNCHANGED <<bench, overlapped, kept>>
        /\ \E s \in {"debug", "results"} : Go(s, "ask") \/ Go(s, "done")
    BY <1>4 DEF GetCaddyConfig, ResultsStart, Ends, danger
  <2> QED BY <1>0, <2>1, BenchAside
<1>5. ASSUME NEW s \in Caser, AskCase(s) \/ Summary(s) PROVE BenchInv'
  <2>1. UNCHANGED <<bench, overlapped, kept>> /\ (Go(s, "done") \/ UNCHANGED doing)
    BY <1>5 DEF AskCase, Summary, Ends, danger
  <2>2. s \in Script \ Bench
    BY <1>0 DEF Caser
  <2> QED BY <2>1, <2>2, BenchAside, BenchStays
<1>6. ASSUME NEW s \in Script, Kill(s) PROVE BenchInv'
  <2>1. /\ doing' = [doing EXCEPT ![s] = "done"] /\ UNCHANGED <<bench, overlapped>>
        /\ kept' = IF doing[s] = "write" THEN {} ELSE kept
    BY <1>6 DEF Kill, Ends, Go
  <2>2. CASE s \in Bench
    BY <2>1, <2>2, BenchStops
  <2>3. CASE s \notin Bench
    BY <2>1, <2>3, BenchAside DEF Go
  <2> QED BY <2>2, <2>3
<1>7. CASE UpOrDown \/ EditRules \/ ReloadRules
  BY <1>7, BenchStays DEF UpOrDown, EditRules, ReloadRules, tool, danger
<1>8. CASE UNCHANGED suiteVars
  BY <1>8, BenchStays DEF suiteVars, tool, danger
<1> QED
  BY <1>1, <1>2, <1>3, <1>4, <1>5, <1>6, <1>7, <1>8
  DEF SuitesNext, Environment, Debug

(* benchmark.json keeps every run that was completed with no other beside  *)
(* it (BenchmarksAreKept), whatever else runs, fails or is killed.         *)
THEOREM BenchmarksKept == SuitesSpec => []BenchmarksAreKept
<1>1. BenchInv => BenchmarksAreKept
  BY DEF BenchInv, BenchmarksAreKept, RunsIn
<1> QED
  BY <1>1, ResultsInitial, ResultsStep, BenchInitial, BenchStep, PTL DEF SuitesSpec
=============================================================================
