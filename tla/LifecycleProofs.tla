-------------------------- MODULE LifecycleProofs --------------------------
(***************************************************************************)
(* What Lifecycle.cfg shows of two requests, for any number of requests    *)
(* and addresses and any configuration: nobody gets past the country and   *)
(* ASN policies who should not, Shutdown writes the whole log buffer, and  *)
(* every entry reaches the log once.                                       *)
(***************************************************************************)
EXTENDS Lifecycle, FiniteSetTheorems, TLAPS

-----------------------------------------------------------------------------
(* Shutdown and the log. *)

(* The worker has nothing in hand when it waits, and is gone only when the *)
(* channel is closed and empty; Shutdown waits for that.                   *)
DrainInv ==
  /\ stage \in {"new", "bare", "serving", "failed", "stopping", "panicked",
                "draining", "closing", "down"}
  /\ stage = "new" => worker = "none"
  /\ worker # "writes" => hand = NoEntry
  /\ worker = "done" => channel = "closed" /\ queue = <<>>
  /\ stage \in {"closing", "down"} => worker = "done"

(* logRequest adds to an open channel only. *)
LEMMA LogRequestKeepsDrain ==
  ASSUME DrainInv, NEW r, NEW next, LogRequest(r, next), UNCHANGED stage
  PROVE  DrainInv'
<1>1. channel' = channel /\ worker' = worker /\ hand' = hand
  BY DEF LogRequest, logging
<1>2. channel = "open" \/ queue' = queue
  BY DEF LogRequest, logging
<1> QED BY <1>1, <1>2 DEF DrainInv

LEMMA DrainInitial == Init => DrainInv
BY DEF Init, DrainInv

LEMMA DrainStep == DrainInv /\ [Next]_vars => DrainInv'
<1> SUFFICES ASSUME DrainInv, [Next]_vars PROVE DrainInv'
  OBVIOUS
<1> USE DEF DrainInv
<1>1. CASE ProvisionBare
  BY <1>1 DEF ProvisionBare, logging
<1>2. CASE Provision
  BY <1>2 DEF Provision
<1>3. CASE Shutdown
  BY <1>3 DEF Shutdown, logging
<1>4. CASE WorkerReceives
  BY <1>4 DEF WorkerReceives, life
<1>5. CASE WorkerWrites
  BY <1>5 DEF WorkerWrites, life
<1>6. CASE WorkerEnds
  BY <1>6 DEF WorkerEnds, life
<1>7. CASE CloseLog
  BY <1>7 DEF CloseLog
<1>8. CASE LogDrained
  BY <1>8 DEF LogDrained, logging
<1>9. CASE ShutdownReturns
  BY <1>9 DEF ShutdownReturns, logging
<1>10. ASSUME NEW p \in Policy, CloseDatabase(p) PROVE DrainInv'
  BY <1>10 DEF CloseDatabase, logging
<1>11. ASSUME NEW r \in Request, Serve(r) PROVE DrainInv'
  <2>1. CASE Report(r) \/ ApplyRules(r)
    <3>1. UNCHANGED stage
      BY <2>1 DEF Report, ApplyRules, life
    <3>2. \/ UNCHANGED logging
          \/ \E next \in {"decided", "blocked", "passed"} : LogRequest(r, next)
      BY <2>1 DEF Report, ApplyRules
    <3> QED BY <3>1, <3>2, LogRequestKeepsDrain DEF logging
  <2>2. CASE ~(Report(r) \/ ApplyRules(r))
    <3>1. UNCHANGED <<life, logging>>
      BY <1>11, <2>2 DEF Serve, Arrive, Check, LookupFinds, FindsASN,
         LookupFails, Store, FailOpen
    <3> QED BY <3>1 DEF life, logging
  <2> QED BY <2>1, <2>2
<1>12. ASSUME NEW a \in Address, Expire(a) PROVE DrainInv'
  BY <1>12 DEF Expire, life, logging
<1>13. CASE UNCHANGED vars
  BY <1>13 DEF vars, life, logging
<1> QED BY <1>1, <1>2, <1>3, <1>4, <1>5, <1>6, <1>7, <1>8, <1>9, <1>10, <1>11,
           <1>12, <1>13 DEF Next, Worker, Stopping

(* Shutdown goes on to close the databases, and returns, only when every   *)
(* entry of the log buffer has been written (caddywaf.go, StopLogWorker).  *)
THEOREM BufferIsDrained == Spec => []ShutdownDrainsLog
<1>1. DrainInv => ShutdownDrainsLog
  BY DEF DrainInv, ShutdownDrainsLog
<1> QED BY <1>1, DrainInitial, DrainStep, PTL DEF Spec

-----------------------------------------------------------------------------
(* The policies of Phase 1. *)

Agrees(r, p) ==
  \/ Verdict(p, Value(p, address[r]))
  \/ /\ p \in failed[r]
     /\ \/ config.failOpen
        \/ p # "asn" /\ config.fallback \notin {"", "none"}
             /\ Verdict(p, config.fallback)

(* The policies before its own, or all, have let the request pass.        *)
AgreedBefore(r) ==
  \A j \in 1 .. 3 : j < policy[r] /\ Policies[j] \in config.enabled =>
                      Agrees(r, Policies[j])

AgreedAll(r) ==
  \A j \in 1 .. 3 : Policies[j] \in config.enabled => Agrees(r, Policies[j])

Judged == {"policy", "lookup", "store", "error", "decided"}

(* Where a request is, and what has been found out about it by then.       *)
RequestInv(r) ==
  /\ policy[r] \in 0 .. 3
  /\ pc[r] = "new" => policy[r] = 0
  /\ pc[r] \in Judged => policy[r] # 0 /\ AgreedBefore(r)
  /\ pc[r] = "store" => At(r) # "asn"
  /\ pc[r] \in {"error", "decided"} => At(r) \in failed[r]
  /\ pc[r] = "decided" => config.failOpen
  /\ pc[r] \in {"rules", "passed"} => AgreedAll(r)

Place == {"new", "policy", "lookup", "store", "error", "decided", "blocked",
          "rules", "passed", "panicked"}

GeoTypeOK ==
  /\ pc \in [Request -> Place]
  /\ policy \in [Request -> 0 .. 3]
  /\ failed \in [Request -> SUBSET Policy]
  /\ address \in [Request -> Address]
  /\ DOMAIN cache = Address
  /\ config \in Config

(* The cache holds what the database says, or nothing.                     *)
CacheInv == \A a \in Address : cache[a] \in {NotCached, a.country}

GeoInv == GeoTypeOK /\ CacheInv /\ \A r \in Request : RequestInv(r)

LEMMA ThePolicies ==
  /\ Len(Policies) = 3 /\ DOMAIN Policies = 1 .. 3
  /\ Policies[1] = "white" /\ Policies[2] = "asn" /\ Policies[3] = "black"
  /\ Policy = {"white", "asn", "black"}
<1>1. Len(Policies) = 3 /\ DOMAIN Policies = 1 .. 3
      /\ Policies[1] = "white" /\ Policies[2] = "asn" /\ Policies[3] = "black"
  BY DEF Policies
<1> QED BY <1>1 DEF Policy

(* The next enabled policy leaves out none that is enabled.                *)
LEMMA NextPolicy ==
  ASSUME NEW i \in 0 .. 3, Later(i) # {},
         NEW n, n = CHOOSE j \in Later(i) : \A k \in Later(i) : j <= k
  PROVE  /\ n \in 1 .. 3 /\ i < n
         /\ \A j \in 1 .. 3 : i < j /\ j < n => Policies[j] \notin config.enabled
<1>1. Later(i) \subseteq 1 .. 3
  BY ThePolicies DEF Later
<1>2. \E j \in Later(i) : \A k \in Later(i) : j <= k
  <2>1. CASE 1 \in Later(i)
    BY <2>1, <1>1
  <2>2. CASE 1 \notin Later(i) /\ 2 \in Later(i)
    BY <2>2, <1>1
  <2>3. CASE 1 \notin Later(i) /\ 2 \notin Later(i)
    BY <2>3, <1>1
  <2> QED BY <2>1, <2>2, <2>3
<1>3. n \in Later(i) /\ \A k \in Later(i) : n <= k
  BY <1>2
<1> QED BY <1>3, ThePolicies DEF Later

(* A step of r that keeps its part of the invariant.                       *)
Moved(r) ==
  /\ RequestInv(r)'
  /\ pc' \in [Request -> Place] /\ policy' \in [Request -> 0 .. 3]
  /\ \A q \in Request \ {r} : pc'[q] = pc[q] /\ policy'[q] = policy[q]

(* A request that every policy up to its own has let pass may go on.       *)
LEMMA GoesOn ==
  ASSUME GeoTypeOK, NEW r \in Request, GoOn(r),
         UNCHANGED <<config, address>>, failed[r] \subseteq failed'[r],
         \A j \in 1 .. 3 : j <= policy[r] /\ Policies[j] \in config.enabled
                             => Agrees(r, Policies[j])'
  PROVE  Moved(r)
<1>1. policy[r] \in 0 .. 3
  BY DEF GeoTypeOK
<1>2. CASE Later(policy[r]) = {}
  <2>1. pc' = [pc EXCEPT ![r] = "rules"] /\ policy' = policy
    BY <1>2 DEF GoOn
  <2>2. \A j \in 1 .. 3 : Policies[j] \in config.enabled => j <= policy[r]
    BY <1>1, <1>2, ThePolicies DEF Later
  <2>3. AgreedAll(r)'
    BY <2>2 DEF AgreedAll
  <2>4. pc'[r] = "rules" /\ policy'[r] \in 0 .. 3
    BY <1>1, <2>1 DEF GeoTypeOK
  <2>5. RequestInv(r)'
    BY <2>3, <2>4 DEF RequestInv, Judged
  <2>6. pc' \in [Request -> Place] /\ policy' \in [Request -> 0 .. 3]
    <3>1. pc' \in [Request -> Place]
      BY <2>1 DEF GeoTypeOK, Place
    <3>2. policy' \in [Request -> 0 .. 3]
      BY <2>1 DEF GeoTypeOK
    <3> QED BY <3>1, <3>2
  <2>7. \A q \in Request \ {r} : pc'[q] = pc[q] /\ policy'[q] = policy[q]
    BY <2>1 DEF GeoTypeOK
  <2> QED BY <2>5, <2>6, <2>7 DEF Moved
<1>3. CASE Later(policy[r]) # {}
  <2> DEFINE n == CHOOSE j \in Later(policy[r]) :
                    \A k \in Later(policy[r]) : j <= k
  <2>1. pc' = [pc EXCEPT ![r] = "policy"] /\ policy' = [policy EXCEPT ![r] = n]
    BY <1>3 DEF GoOn
  <2>2. /\ n \in 1 .. 3
        /\ \A j \in 1 .. 3 :
             policy[r] < j /\ j < n => Policies[j] \notin config.enabled
    BY <1>1, <1>3, NextPolicy
  <2> HIDE DEF n
  <2>3. pc'[r] = "policy" /\ policy'[r] = n
    BY <2>1 DEF GeoTypeOK
  <2>4. \A j \in 1 .. 3 :
          j < n /\ Policies[j] \in config.enabled => j <= policy[r]
    BY <1>1, <2>2
  <2>5. AgreedBefore(r)'
    BY <2>3, <2>4 DEF AgreedBefore
  <2>6. RequestInv(r)'
    BY <2>2, <2>3, <2>5 DEF RequestInv, Judged
  <2>7. pc' \in [Request -> Place] /\ policy' \in [Request -> 0 .. 3]
    <3>1. pc' \in [Request -> Place]
      BY <2>1 DEF GeoTypeOK, Place
    <3>2. policy' \in [Request -> 0 .. 3]
      BY <2>1, <2>2 DEF GeoTypeOK
    <3> QED BY <3>1, <3>2
  <2>8. \A q \in Request \ {r} : pc'[q] = pc[q] /\ policy'[q] = policy[q]
    BY <2>1 DEF GeoTypeOK
  <2> QED BY <2>6, <2>7, <2>8 DEF Moved
<1> QED BY <1>2, <1>3

(* What a policy has agreed to stays agreed to.                            *)
LEMMA StillAgrees ==
  ASSUME NEW r, NEW p, Agrees(r, p),
         UNCHANGED config, address'[r] = address[r],
         failed[r] \subseteq failed'[r]
  PROVE  Agrees(r, p)'
BY DEF Agrees, Verdict, Value

(* A request that nobody serves keeps its part of the invariant.           *)
LEMMA NotServed ==
  ASSUME NEW r, RequestInv(r), UNCHANGED <<config, address>>,
         pc'[r] = pc[r], policy'[r] = policy[r], failed[r] \subseteq failed'[r]
  PROVE  RequestInv(r)'
<1>0. \A p : Agrees(r, p) => Agrees(r, p)'
  BY StillAgrees
<1>1. AgreedAll(r) => AgreedAll(r)'
  BY <1>0 DEF AgreedAll
<1>2. AgreedBefore(r) => AgreedBefore(r)'
  BY <1>0 DEF AgreedBefore
<1>3. At(r)' = At(r)
  BY DEF At
<1> QED BY <1>1, <1>2, <1>3 DEF RequestInv

(* A step that changes nothing of a request but where it is.               *)
LEMMA Jumps ==
  ASSUME GeoTypeOK, NEW r \in Request, NEW next \in Place,
         pc' = [pc EXCEPT ![r] = next], UNCHANGED policy, RequestInv(r)'
  PROVE  Moved(r)
<1>1. pc' \in [Request -> Place] /\ policy' \in [Request -> 0 .. 3]
  BY DEF GeoTypeOK
<1>2. \A q \in Request \ {r} : pc'[q] = pc[q] /\ policy'[q] = policy[q]
  BY DEF GeoTypeOK
<1> QED BY <1>1, <1>2 DEF Moved

(* A request is blocked, or its policy agrees and it goes on.              *)
LEMMA JudgeMoves ==
  ASSUME GeoTypeOK, NEW r \in Request, RequestInv(r), pc[r] \in Judged,
         NEW value, Judge(r, value),
         UNCHANGED <<config, address>>, failed[r] \subseteq failed'[r],
         \A p : p = At(r) /\ Verdict(p, value) => Agrees(r, p)'
  PROVE  Moved(r)
<1>1. CASE (value \in InList[At(r)]) = (At(r) = "white")
  <2>1. GoOn(r)
    BY <1>1 DEF Judge
  <2>2. \A p : p = Policies[policy[r]] => Agrees(r, p)'
    BY <1>1 DEF Verdict, At
  <2>3. \A p : Agrees(r, p) => Agrees(r, p)'
    BY StillAgrees
  <2>4. policy[r] \in 0 .. 3
    BY DEF GeoTypeOK
  <2>5. AgreedBefore(r)
    BY DEF RequestInv
  <2>6. \A j \in 1 .. 3 : j <= policy[r] /\ Policies[j] \in config.enabled
                             => Agrees(r, Policies[j])'
    <3> SUFFICES ASSUME NEW j \in 1 .. 3, j <= policy[r],
                        Policies[j] \in config.enabled
                 PROVE  Agrees(r, Policies[j])'
      OBVIOUS
    <3>1. CASE j = policy[r]
      BY <3>1, <2>2
    <3>2. CASE j < policy[r]
      BY <3>2, <2>3, <2>5 DEF AgreedBefore
    <3> QED BY <3>1, <3>2, <2>4
  <2> QED BY <2>1, <2>6, GoesOn
<1>2. CASE (value \in InList[At(r)]) # (At(r) = "white")
  <2>1. pc' = [pc EXCEPT ![r] = "blocked"] /\ policy' = policy
    BY <1>2 DEF Judge
  <2>2. pc'[r] = "blocked" /\ policy'[r] \in 0 .. 3
    BY <2>1 DEF GeoTypeOK
  <2>3. RequestInv(r)'
    BY <2>2 DEF RequestInv, Judged
  <2> QED BY <2>1, <2>3, Jumps DEF Place
<1> QED BY <1>1, <1>2

LEMMA AtPolicy ==
  ASSUME NEW r, RequestInv(r), pc[r] \in Judged
  PROVE  At(r) \in Policy
<1>1. policy[r] \in 1 .. 3
  BY DEF RequestInv
<1> QED BY <1>1, ThePolicies DEF At

(* What a step of a request does to the rest.                              *)
Around ==
  /\ UNCHANGED <<config, address>>
  /\ failed' \in [Request -> SUBSET Policy]
  /\ \A q \in Request : failed[q] \subseteq failed'[q]
  /\ DOMAIN cache' = Address /\ CacheInv'

LEMMA ServesAround ==
  ASSUME GeoTypeOK, CacheInv, NEW r \in Request, RequestInv(r), Serve(r)
  PROVE  Around
<1>1. UNCHANGED <<config, address>>
  BY DEF Serve, Arrive, Check, LookupFinds, FindsASN, LookupFails, Store, Report,
     FailOpen, ApplyRules, life
<1>2. CASE Check(r) \/ LookupFails(r)
  <2>1. At(r) \in Policy
    BY <1>2, AtPolicy DEF Check, LookupFails, Judged
  <2>2. \/ failed' = [failed EXCEPT ![r] = @ \cup {At(r)}]
        \/ failed' = failed
    BY <1>2 DEF Check, LookupFails
  <2>3. failed' \in [Request -> SUBSET Policy]
    BY <2>1, <2>2 DEF GeoTypeOK
  <2>4. \A q \in Request : failed[q] \subseteq failed'[q]
    BY <2>2 DEF GeoTypeOK
  <2>5. cache' = cache
    BY <1>2 DEF Check, LookupFails, geo
  <2> QED BY <1>1, <2>3, <2>4, <2>5 DEF Around, GeoTypeOK, CacheInv
<1>3. CASE Store(r)
  <2>1. cache' = [cache EXCEPT ![address[r]] = address[r].country]
    BY <1>3 DEF Store
  <2>2. failed' = failed
    BY <1>3 DEF Store
  <2>3. DOMAIN cache' = Address /\ CacheInv'
    BY <2>1 DEF CacheInv, GeoTypeOK
  <2> QED BY <1>1, <2>2, <2>3 DEF Around, GeoTypeOK
<1>4. CASE ~(Check(r) \/ LookupFails(r) \/ Store(r))
  <2>1. UNCHANGED <<failed, cache>>
    BY <1>4 DEF Serve, Arrive, LookupFinds, FindsASN, Report, FailOpen,
       ApplyRules, geo
  <2> QED BY <1>1, <2>1 DEF Around, GeoTypeOK, CacheInv
<1> QED BY <1>2, <1>3, <1>4

(* A step of a request keeps its part of the invariant. *)
LEMMA ServeMoves ==
  ASSUME GeoTypeOK, CacheInv, NEW r \in Request, RequestInv(r), Serve(r)
  PROVE  Moved(r)
<1>1. Around
  BY ServesAround
<1>2. /\ UNCHANGED <<config, address>> /\ failed[r] \subseteq failed'[r]
      /\ policy[r] \in 0 .. 3
  BY <1>1 DEF Around, GeoTypeOK
<1>3. \A p : Agrees(r, p) => Agrees(r, p)'
  BY <1>2, StillAgrees
<1>4. CASE Arrive(r)
  <2>1. GoOn(r) /\ policy[r] = 0
    BY <1>4 DEF Arrive, RequestInv
  <2> QED BY <1>2, <2>1, GoesOn
<1>5. CASE FailOpen(r)
  <2>1. GoOn(r) /\ pc[r] = "decided"
    BY <1>5 DEF FailOpen
  <2>2. AgreedBefore(r) /\ At(r) \in failed[r] /\ config.failOpen
    BY <2>1 DEF RequestInv, Judged
  <2>3. \A j \in 1 .. 3 : j <= policy[r] /\ Policies[j] \in config.enabled
                             => Agrees(r, Policies[j])
    <3>1. Agrees(r, Policies[policy[r]])
      BY <2>2 DEF Agrees, At
    <3>2. \A j \in 1 .. 3 : j <= policy[r] => j = policy[r] \/ j < policy[r]
      BY <1>2
    <3> QED BY <2>2, <3>1, <3>2 DEF AgreedBefore
  <2> QED BY <1>2, <1>3, <2>1, <2>3, GoesOn
<1>6. CASE FindsASN(r)
  <2>1. Judge(r, address[r].asn) /\ At(r) = "asn" /\ pc[r] \in Judged
    BY <1>6 DEF FindsASN, Judged
  <2>2. \A p : p = At(r) /\ Verdict(p, address[r].asn) => Agrees(r, p)'
    BY <1>2, <2>1 DEF Agrees, Value, Verdict
  <2> QED BY <1>2, <2>1, <2>2, JudgeMoves
<1>7. CASE Store(r)
  <2>1. Judge(r, address[r].country) /\ At(r) # "asn" /\ pc[r] \in Judged
    BY <1>7 DEF Store, Judged, RequestInv
  <2>2. \A p : p = At(r) /\ Verdict(p, address[r].country) => Agrees(r, p)'
    BY <1>2, <2>1 DEF Agrees, Value, Verdict
  <2> QED BY <1>2, <2>1, <2>2, JudgeMoves
<1>8. ASSUME UNCHANGED policy
      PROVE  (AgreedBefore(r) => AgreedBefore(r)') /\ At(r)' = At(r)
  <2>1. At(r)' = At(r)
    BY <1>8 DEF At
  <2>2. AgreedBefore(r) => AgreedBefore(r)'
    BY <1>2, <1>3, <1>8 DEF AgreedBefore
  <2> QED BY <2>1, <2>2
<1>9. \A next \in Place :
        pc' = [pc EXCEPT ![r] = next] /\ UNCHANGED policy =>
          pc'[r] = next /\ policy'[r] = policy[r]
  BY DEF GeoTypeOK
<1>10. CASE Check(r)
  <2>1. pc[r] \in Judged /\ policy[r] # 0 /\ AgreedBefore(r)
    BY <1>10 DEF Check, Judged, RequestInv
  <2>2. CASE pc' = [pc EXCEPT ![r] = "error"] /\ UNCHANGED policy
             /\ failed' = [failed EXCEPT ![r] = @ \cup {At(r)}]
    <3>1. At(r) \in failed'[r]
      BY <2>2 DEF GeoTypeOK
    <3>2. pc'[r] = "error" /\ policy'[r] = policy[r]
      BY <1>9, <2>2 DEF Place
    <3>3. RequestInv(r)'
      BY <1>2, <1>8, <2>1, <2>2, <3>1, <3>2 DEF RequestInv
    <3> QED BY <2>2, <3>3, Jumps DEF Place
  <2>3. CASE pc' = [pc EXCEPT ![r] = "lookup"] /\ UNCHANGED policy
    <3>1. pc'[r] = "lookup" /\ policy'[r] = policy[r]
      BY <1>9, <2>3 DEF Place
    <3>2. RequestInv(r)'
      BY <1>2, <1>8, <2>1, <2>3, <3>1 DEF RequestInv
    <3> QED BY <2>3, <3>2, Jumps DEF Place
  <2>4. CASE At(r) # "asn" /\ cache[address[r]] # NotCached
             /\ Judge(r, cache[address[r]])
    <3>1. cache[address[r]] = address[r].country
      BY <2>4 DEF CacheInv, GeoTypeOK
    <3>2. \A p : p = At(r) /\ Verdict(p, address[r].country) => Agrees(r, p)'
      BY <1>2, <2>4 DEF Agrees, Value, Verdict
    <3> QED BY <1>2, <2>1, <2>4, <3>1, <3>2, JudgeMoves
  <2> QED BY <1>10, <2>2, <2>3, <2>4 DEF Check
<1>11. CASE LookupFinds(r)
  <2>1. /\ pc' = [pc EXCEPT ![r] = "store"] /\ UNCHANGED policy
        /\ pc[r] = "lookup" /\ At(r) # "asn"
    BY <1>11 DEF LookupFinds
  <2>2. pc'[r] = "store" /\ policy'[r] = policy[r]
    BY <1>9, <2>1 DEF Place
  <2>3. policy[r] # 0 /\ AgreedBefore(r)
    BY <2>1 DEF RequestInv, Judged
  <2>4. RequestInv(r)'
    BY <1>2, <1>8, <2>1, <2>2, <2>3 DEF RequestInv
  <2> QED BY <2>1, <2>4, Jumps DEF Place
<1>12. CASE LookupFails(r)
  <2>1. pc[r] = "lookup" /\ failed' = [failed EXCEPT ![r] = @ \cup {At(r)}]
    BY <1>12 DEF LookupFails
  <2>2. policy[r] # 0 /\ AgreedBefore(r) /\ pc[r] \in Judged
    BY <2>1 DEF RequestInv, Judged
  <2>3. At(r) \in failed'[r]
    BY <2>1 DEF GeoTypeOK
  <2>4. CASE At(r) # "asn" /\ config.fallback \notin {"", "none"}
             /\ Judge(r, config.fallback)
    <3>1. \A p : p = At(r) /\ Verdict(p, config.fallback) => Agrees(r, p)'
      BY <1>2, <2>3, <2>4 DEF Agrees, Verdict
    <3> QED BY <1>2, <2>2, <2>4, <3>1, JudgeMoves
  <2>5. CASE pc' = [pc EXCEPT ![r] = "error"] /\ UNCHANGED policy
    <3>1. pc'[r] = "error" /\ policy'[r] = policy[r]
      BY <1>9, <2>5 DEF Place
    <3>2. RequestInv(r)'
      BY <1>2, <1>8, <2>2, <2>3, <2>5, <3>1 DEF RequestInv
    <3> QED BY <2>5, <3>2, Jumps DEF Place
  <2> QED BY <1>12, <2>4, <2>5 DEF LookupFails
<1>13. CASE Report(r)
  <2>1. UNCHANGED policy /\ pc[r] = "error" /\ UNCHANGED failed
    BY <1>13 DEF Report
  <2>2. \E next \in {"decided", "blocked", "panicked"} :
          pc' = [pc EXCEPT ![r] = next] /\ (next = "decided" => config.failOpen)
    BY <1>13 DEF Report, LogRequest
  <2>3. policy[r] # 0 /\ AgreedBefore(r) /\ At(r) \in failed[r]
    BY <2>1 DEF RequestInv, Judged
  <2>4. PICK next \in {"decided", "blocked", "panicked"} :
          pc' = [pc EXCEPT ![r] = next] /\ (next = "decided" => config.failOpen)
    BY <2>2
  <2>5. pc'[r] = next /\ policy'[r] = policy[r]
    BY <1>9, <2>1, <2>4 DEF Place
  <2>6. RequestInv(r)'
    BY <1>2, <1>8, <2>1, <2>3, <2>4, <2>5 DEF RequestInv, Judged
  <2> QED BY <2>1, <2>4, <2>6, Jumps DEF Place
<1>14. CASE ApplyRules(r)
  <2>1. UNCHANGED policy /\ pc[r] = "rules"
    BY <1>14 DEF ApplyRules
  <2>2. PICK next \in {"passed", "panicked"} : pc' = [pc EXCEPT ![r] = next]
    BY <1>14 DEF ApplyRules, LogRequest
  <2>3. AgreedAll(r)'
    <3>1. AgreedAll(r)
      BY <2>1 DEF RequestInv
    <3> QED BY <1>2, <1>3, <3>1 DEF AgreedAll
  <2>4. pc'[r] = next /\ policy'[r] = policy[r]
    BY <1>9, <2>1, <2>2 DEF Place
  <2>5. RequestInv(r)'
    BY <1>2, <2>2, <2>3, <2>4 DEF RequestInv, Judged
  <2> QED BY <2>1, <2>2, <2>5, Jumps DEF Place
<1> QED BY <1>4, <1>5, <1>6, <1>7, <1>10, <1>11, <1>12, <1>13, <1>14 DEF Serve

-----------------------------------------------------------------------------
LEMMA GeoInitial == Init => GeoInv
<1> SUFFICES ASSUME Init PROVE GeoInv
  OBVIOUS
<1>1. GeoTypeOK /\ CacheInv
  BY DEF Init, GeoTypeOK, CacheInv, Place
<1>2. \A r \in Request : policy[r] = 0 /\ pc[r] = "new"
  BY DEF Init
<1>3. \A r \in Request : RequestInv(r)
  BY <1>2 DEF RequestInv, Judged
<1> QED BY <1>1, <1>3 DEF GeoInv

LEMMA GeoStep == GeoInv /\ [Next]_vars => GeoInv'
<1> SUFFICES ASSUME GeoInv, [Next]_vars PROVE GeoInv'
  OBVIOUS
<1>1. ASSUME NEW r \in Request, Serve(r) PROVE GeoInv'
  <2>1. Around /\ Moved(r)
    BY <1>1, ServesAround, ServeMoves DEF GeoInv
  <2>2. GeoTypeOK' /\ CacheInv'
    BY <2>1 DEF Around, Moved, GeoTypeOK, GeoInv
  <2>3. \A q \in Request \ {r} : RequestInv(q)'
    BY <2>1, NotServed DEF Around, Moved, GeoInv
  <2> QED BY <2>1, <2>2, <2>3 DEF Moved, GeoInv
<1>2. ASSUME UNCHANGED <<config, pc, policy, failed, address>>,
             DOMAIN cache' = Address, CacheInv'
      PROVE  GeoInv'
  <2>1. GeoTypeOK'
    BY <1>2 DEF GeoTypeOK, GeoInv
  <2>2. \A r \in Request : RequestInv(r)'
    BY <1>2, NotServed DEF GeoInv
  <2> QED BY <1>2, <2>1, <2>2 DEF GeoInv
<1>3. CASE ProvisionBare \/ Provision \/ Shutdown \/ Worker \/ Stopping
           \/ UNCHANGED vars
  <2>1. UNCHANGED <<config, pc, policy, failed, address, cache>>
    BY <1>3 DEF ProvisionBare, Provision, Shutdown, Worker, WorkerReceives,
       WorkerWrites, WorkerEnds, Stopping, CloseLog, LogDrained,
       ShutdownReturns, CloseDatabase, vars, life, geo, request
  <2> QED BY <1>2, <2>1 DEF CacheInv, GeoTypeOK, GeoInv
<1>4. ASSUME NEW a \in Address, Expire(a) PROVE GeoInv'
  <2>1. UNCHANGED <<config, pc, policy, failed, address>>
    BY <1>4 DEF Expire, life, request
  <2>2. DOMAIN cache' = Address /\ CacheInv'
    BY <1>4 DEF Expire, CacheInv, GeoTypeOK, GeoInv
  <2> QED BY <1>2, <2>1, <2>2
<1> QED BY <1>1, <1>3, <1>4 DEF Next

(* A request gets past a country or ASN policy of Phase 1 whose database   *)
(* was opened only if it agrees with the database, or found no record and  *)
(* was configured to fail open or to a fallback that agrees (handler.go,   *)
(* handlePhase; geoip.go), whatever other requests cache and Shutdown      *)
(* closes.                                                                 *)
THEOREM PoliciesHold == Spec => []GeoPolicyHolds
<1>1. GeoInv => GeoPolicyHolds
  <2> SUFFICES ASSUME GeoInv, NEW r \in Request, pc[r] \in {"rules", "passed"},
                      NEW p \in config.enabled
               PROVE  Agrees(r, p)
    BY DEF GeoPolicyHolds, Agrees
  <2>1. AgreedAll(r)
    BY DEF GeoInv, RequestInv
  <2>2. p \in Policy
    BY LifecycleAssumption DEF GeoInv, GeoTypeOK
  <2>3. \E j \in 1 .. 3 : p = Policies[j]
    BY <2>2, ThePolicies
  <2> QED BY <2>1, <2>3 DEF AgreedAll
<1> QED BY <1>1, GeoInitial, GeoStep, PTL DEF Spec
-----------------------------------------------------------------------------
(* The entries of the log. *)

InQueue(e) == \E i \in DOMAIN queue : queue[i] = e

LogTypeOK ==
  /\ queue \in Seq(Entry) /\ logged \in [Entry -> Nat]
  /\ entries \in [Request -> 0 .. 4] /\ hand \in Entry \cup {NoEntry}
  /\ worker = "writes" => hand \in Entry

Distinct == \A i, j \in DOMAIN queue : queue[i] = queue[j] => i = j

(* An entry is nowhere, or it is in one of three places.                   *)
EntryInv(e) ==
  /\ e[2] > entries[e[1]] => logged[e] = 0 /\ hand # e /\ ~InQueue(e)
  /\ e[2] <= entries[e[1]] =>
       \/ logged[e] = 0 /\ hand # e /\ InQueue(e)
       \/ logged[e] = 0 /\ hand = e /\ ~InQueue(e)
       \/ logged[e] = 1 /\ hand # e /\ ~InQueue(e)

LogInv == LogTypeOK /\ Distinct /\ \A e \in Entry : EntryInv(e)

(* A request logs at most once at each policy, and once at the rules.      *)
CountInv(r) ==
  /\ pc[r] \in {"new", "decided", "rules"} => entries[r] <= policy[r]
  /\ pc[r] \in {"policy", "lookup", "store", "error"} => entries[r] < policy[r]

EntriesInv == LogInv /\ \A r \in Request : CountInv(r)

LEMMA Appended ==
  ASSUME NEW S, NEW q \in Seq(S), NEW x \in S
  PROVE  /\ Append(q, x) \in Seq(S)
         /\ DOMAIN q = 1 .. Len(q) /\ Len(q) \in Nat
         /\ DOMAIN Append(q, x) = 1 .. Len(q) + 1
         /\ \A i \in 1 .. Len(q) : Append(q, x)[i] = q[i]
         /\ Append(q, x)[Len(q) + 1] = x
  OBVIOUS

LEMMA HeadTail ==
  ASSUME NEW S, NEW q \in Seq(S), q # <<>>
  PROVE  /\ Head(q) \in S /\ Head(q) = q[1] /\ Tail(q) \in Seq(S)
         /\ Len(q) \in Nat \ {0} /\ DOMAIN q = 1 .. Len(q)
         /\ DOMAIN Tail(q) = 1 .. Len(q) - 1
         /\ \A i \in 1 .. Len(q) - 1 : Tail(q)[i] = q[i + 1]
  OBVIOUS

(* An entry that is logged appears in one place.                           *)
LEMMA LogRequestKeeps ==
  ASSUME LogInv, NEW r \in Request, NEW next, entries[r] < 4,
         LogRequest(r, next)
  PROVE  LogInv'
<1>0. entries[r] \in 0 .. 4 /\ <<r, entries[r] + 1>> \in Entry
  BY DEF Entry, LogInv, LogTypeOK
<1> PICK entry \in Entry : entry = <<r, entries[r] + 1>>
  BY <1>0
<1>1. entry \in Entry /\ entry[1] = r /\ entry[2] = entries[r] + 1
  OBVIOUS
<1>2. logged[entry] = 0 /\ hand # entry /\ ~InQueue(entry)
  <2>1. entry[2] > entries[entry[1]]
    BY <1>0, <1>1
  <2> QED BY <1>1, <2>1 DEF LogInv, EntryInv
<1>3. \A e \in Entry : e[1] \in Request /\ e[2] \in 1 .. 4 /\ e = <<e[1], e[2]>>
  BY DEF Entry
<1>4. CASE channel = "closed"
  BY <1>4 DEF LogRequest, logging, LogInv, LogTypeOK, Distinct, EntryInv,
     InQueue
<1>5. ASSUME entries' = [entries EXCEPT ![r] = @ + 1]
      PROVE  /\ entries' \in [Request -> 0 .. 4]
             /\ entry[2] <= entries'[entry[1]]
             /\ \A e \in Entry \ {entry} :
                  /\ e[2] <= entries'[e[1]] <=> e[2] <= entries[e[1]]
                  /\ e[2] > entries'[e[1]] <=> e[2] > entries[e[1]]
  <2>1. entries' \in [Request -> 0 .. 4] /\ entries'[r] = entries[r] + 1
    BY <1>0, <1>5 DEF LogInv, LogTypeOK
  <2>2. ASSUME NEW e \in Entry \ {entry}
        PROVE  /\ e[2] <= entries'[e[1]] <=> e[2] <= entries[e[1]]
               /\ e[2] > entries'[e[1]] <=> e[2] > entries[e[1]]
    <3>1. CASE e[1] = r
      <4>1. e[2] # entries[r] + 1 /\ e[2] \in 1 .. 4
        BY <1>3, <3>1
      <4> QED BY <1>0, <2>1, <3>1, <4>1
    <3>2. CASE e[1] # r
      BY <1>3, <1>5, <3>2 DEF LogInv, LogTypeOK
    <3> QED BY <3>1, <3>2
  <2>3. entry[2] <= entries'[entry[1]]
    BY <1>0, <1>1, <2>1
  <2> QED BY <2>1, <2>2, <2>3
<1>6. CASE /\ queue' = Append(queue, entry)
           /\ entries' = [entries EXCEPT ![r] = @ + 1]
           /\ UNCHANGED <<worker, hand, logged>>
  <2>1. /\ queue' \in Seq(Entry)
        /\ DOMAIN queue = 1 .. Len(queue) /\ Len(queue) \in Nat
        /\ DOMAIN queue' = 1 .. Len(queue) + 1
        /\ \A i \in 1 .. Len(queue) : queue'[i] = queue[i]
        /\ queue'[Len(queue) + 1] = entry
    <3>1. queue \in Seq(Entry)
      BY DEF LogInv, LogTypeOK
    <3> QED BY <1>1, <1>6, <3>1, Appended
  <2>2. InQueue(entry)' /\ \A e \in Entry \ {entry} : InQueue(e)' <=> InQueue(e)
    BY <2>1 DEF InQueue
  <2>3. Distinct'
    BY <1>2, <2>1 DEF Distinct, InQueue, LogInv
  <2>4. LogTypeOK'
    BY <1>5, <1>6, <2>1 DEF LogTypeOK, LogInv
  <2>5. EntryInv(entry)'
    BY <1>1, <1>2, <1>3, <1>5, <1>6, <2>2, <2>4 DEF EntryInv, LogTypeOK
  <2>6. \A e \in Entry \ {entry} : EntryInv(e)'
    <3> SUFFICES ASSUME NEW e \in Entry \ {entry} PROVE EntryInv(e)'
      OBVIOUS
    <3>1. EntryInv(e)
      BY DEF LogInv
    <3>2. /\ e[2] <= entries'[e[1]] <=> e[2] <= entries[e[1]]
          /\ e[2] > entries'[e[1]] <=> e[2] > entries[e[1]]
      BY <1>5, <1>6
    <3>3. logged'[e] = logged[e] /\ hand' = hand /\ (InQueue(e)' <=> InQueue(e))
      BY <1>6, <2>2
    <3> QED BY <3>1, <3>2, <3>3 DEF EntryInv
  <2> QED BY <2>3, <2>4, <2>5, <2>6 DEF LogInv
<1>7. CASE /\ logged' = [logged EXCEPT ![entry] = @ + 1]
           /\ entries' = [entries EXCEPT ![r] = @ + 1]
           /\ UNCHANGED <<queue, worker, hand>>
  <2>1. /\ logged' \in [Entry -> Nat] /\ logged'[entry] = 1
        /\ \A e \in Entry \ {entry} : logged'[e] = logged[e]
    BY <1>1, <1>2, <1>7 DEF LogInv, LogTypeOK
  <2>2. \A e : InQueue(e)' <=> InQueue(e)
    BY <1>7 DEF InQueue
  <2>3. Distinct' /\ LogTypeOK'
    BY <1>5, <1>7, <2>1 DEF LogTypeOK, Distinct, LogInv
  <2>4. EntryInv(entry)'
    BY <1>1, <1>2, <1>3, <1>5, <1>7, <2>1, <2>2, <2>3 DEF EntryInv, LogTypeOK
  <2>5. \A e \in Entry \ {entry} : EntryInv(e)'
    <3> SUFFICES ASSUME NEW e \in Entry \ {entry} PROVE EntryInv(e)'
      OBVIOUS
    <3>1. EntryInv(e)
      BY DEF LogInv
    <3>2. /\ e[2] <= entries'[e[1]] <=> e[2] <= entries[e[1]]
          /\ e[2] > entries'[e[1]] <=> e[2] > entries[e[1]]
      BY <1>5, <1>7
    <3>3. logged'[e] = logged[e] /\ hand' = hand /\ (InQueue(e)' <=> InQueue(e))
      BY <1>7, <2>1, <2>2
    <3> QED BY <3>1, <3>2, <3>3 DEF EntryInv
  <2> QED BY <2>3, <2>4, <2>5 DEF LogInv
<1> QED BY <1>4, <1>6, <1>7 DEF LogRequest

LEMMA NothingLogged ==
  ASSUME LogInv, UNCHANGED <<queue, hand, logged, entries>>,
         worker' = "writes" => worker = "writes"
  PROVE  LogInv'
<1>1. LogTypeOK' /\ Distinct'
  BY DEF LogInv, LogTypeOK, Distinct
<1>2. \A e \in Entry : EntryInv(e)'
  BY DEF LogInv, EntryInv, InQueue
<1> QED BY <1>1, <1>2 DEF LogInv

(* The worker takes an entry from one place to the next.                   *)
LEMMA WorkerKeeps ==
  ASSUME LogInv, DrainInv, Worker
  PROVE  LogInv'
<1>1. CASE WorkerReceives
  <2>1. /\ queue # <<>> /\ hand' = Head(queue) /\ queue' = Tail(queue)
        /\ UNCHANGED <<logged, entries>> /\ hand = NoEntry /\ queue \in Seq(Entry)
    BY <1>1 DEF WorkerReceives, request, DrainInv, LogInv, LogTypeOK
  <2>2. /\ hand' \in Entry /\ hand' = queue[1] /\ queue' \in Seq(Entry)
        /\ Len(queue) \in Nat \ {0} /\ DOMAIN queue = 1 .. Len(queue)
        /\ DOMAIN queue' = 1 .. Len(queue) - 1
        /\ \A i \in 1 .. Len(queue) - 1 : queue'[i] = queue[i + 1]
    BY <2>1, HeadTail
  <2>3. LogTypeOK'
    BY <2>1, <2>2 DEF LogInv, LogTypeOK
  <2>4. Distinct'
    BY <2>2 DEF LogInv, Distinct
  <2>5. \A e : InQueue(e)' <=> InQueue(e) /\ e # queue[1]
    <3> SUFFICES ASSUME NEW e PROVE InQueue(e)' <=> InQueue(e) /\ e # queue[1]
      OBVIOUS
    <3>1. ASSUME InQueue(e)' PROVE InQueue(e) /\ e # queue[1]
      <4>1. PICK i \in 1 .. Len(queue) - 1 : queue[i + 1] = e
        BY <2>2, <3>1 DEF InQueue
      <4>2. i + 1 \in DOMAIN queue /\ 1 \in DOMAIN queue /\ i + 1 # 1
        BY <2>2
      <4> QED BY <4>1, <4>2 DEF InQueue, LogInv, Distinct
    <3>2. ASSUME InQueue(e), e # queue[1] PROVE InQueue(e)'
      <4>1. PICK i \in 1 .. Len(queue) : queue[i] = e
        BY <2>2, <3>2 DEF InQueue
      <4>2. i - 1 \in 1 .. Len(queue) - 1 /\ i = (i - 1) + 1
        BY <2>2, <3>2, <4>1
      <4>3. queue'[i - 1] = e
        BY <2>2, <4>1, <4>2
      <4> QED BY <2>2, <4>2, <4>3 DEF InQueue
    <3> QED BY <3>1, <3>2
  <2>6. InQueue(queue[1])
    BY <2>2 DEF InQueue
  <2>7. \A e \in Entry : EntryInv(e)'
    <3> SUFFICES ASSUME NEW e \in Entry PROVE EntryInv(e)'
      OBVIOUS
    <3>1. EntryInv(e) /\ hand # e
      BY <2>1, LifecycleAssumption DEF LogInv
    <3>2. CASE e = queue[1]
      BY <2>1, <2>2, <2>5, <2>6, <3>1, <3>2 DEF EntryInv
    <3>3. CASE e # queue[1]
      BY <2>1, <2>2, <2>5, <3>1, <3>3 DEF EntryInv
    <3> QED BY <3>2, <3>3
  <2> QED BY <2>3, <2>4, <2>7 DEF LogInv
<1>2. CASE WorkerWrites
  <2>1. /\ hand \in Entry /\ hand' = NoEntry /\ worker' = "ranges"
        /\ logged' = [logged EXCEPT ![hand] = @ + 1]
        /\ UNCHANGED <<queue, entries>>
    BY <1>2 DEF WorkerWrites, request, LogInv, LogTypeOK
  <2>2. LogTypeOK' /\ Distinct'
    BY <2>1 DEF LogInv, LogTypeOK, Distinct
  <2>3. \A e \in Entry : logged'[e] = IF e = hand THEN logged[e] + 1 ELSE logged[e]
    BY <2>1 DEF LogInv, LogTypeOK
  <2>4. \A e : InQueue(e)' <=> InQueue(e)
    BY <2>1 DEF InQueue
  <2>5. \A e \in Entry : EntryInv(e)'
    <3> SUFFICES ASSUME NEW e \in Entry PROVE EntryInv(e)'
      OBVIOUS
    <3>1. EntryInv(e) /\ hand' # e
      BY <2>1, LifecycleAssumption DEF LogInv
    <3>2. CASE e = hand
      BY <2>1, <2>3, <2>4, <3>1, <3>2 DEF EntryInv
    <3>3. CASE e # hand
      BY <2>1, <2>3, <2>4, <3>1, <3>3 DEF EntryInv
    <3> QED BY <3>2, <3>3
  <2> QED BY <2>2, <2>5 DEF LogInv
<1>3. CASE WorkerEnds
  BY <1>3, NothingLogged DEF WorkerEnds, request
<1> QED BY <1>1, <1>2, <1>3 DEF Worker

(* Every policy that logs is further on than the one before.               *)
LEMMA GoOnCounts ==
  ASSUME GeoTypeOK, LogTypeOK, NEW r \in Request, GoOn(r), UNCHANGED entries,
         entries[r] <= policy[r]
  PROVE  CountInv(r)'
<1>1. policy[r] \in 0 .. 3 /\ entries[r] \in 0 .. 4
  BY DEF GeoTypeOK, LogTypeOK
<1>2. CASE Later(policy[r]) = {}
  <2>1. pc'[r] = "rules" /\ policy' = policy
    BY <1>2 DEF GoOn, GeoTypeOK
  <2> QED BY <2>1 DEF CountInv
<1>3. CASE Later(policy[r]) # {}
  <2> DEFINE n == CHOOSE j \in Later(policy[r]) :
                    \A k \in Later(policy[r]) : j <= k
  <2>1. pc' = [pc EXCEPT ![r] = "policy"] /\ policy' = [policy EXCEPT ![r] = n]
    BY <1>3 DEF GoOn
  <2>2. n \in 1 .. 3 /\ policy[r] < n
    BY <1>1, <1>3, NextPolicy
  <2> HIDE DEF n
  <2>3. pc'[r] = "policy" /\ policy'[r] = n
    BY <2>1 DEF GeoTypeOK
  <2> QED BY <1>1, <2>2, <2>3 DEF CountInv
<1> QED BY <1>2, <1>3

LEMMA JudgeCounts ==
  ASSUME GeoTypeOK, LogTypeOK, NEW r \in Request, NEW value, Judge(r, value),
         UNCHANGED entries, entries[r] <= policy[r]
  PROVE  CountInv(r)'
<1>1. CASE GoOn(r)
  BY <1>1, GoOnCounts
<1>2. CASE pc' = [pc EXCEPT ![r] = "blocked"]
  BY <1>2 DEF CountInv, GeoTypeOK
<1> QED BY <1>1, <1>2 DEF Judge

(* A request that serves itself. *)
LEMMA ServeCounts ==
  ASSUME GeoTypeOK, LogInv, NEW r \in Request, RequestInv(r), CountInv(r),
         Serve(r)
  PROVE  /\ LogInv' /\ CountInv(r)'
         /\ \A q \in Request \ {r} : entries'[q] = entries[q]
<1>1. policy[r] \in 0 .. 3 /\ entries[r] \in 0 .. 4 /\ LogTypeOK
  BY DEF GeoTypeOK, LogInv, LogTypeOK
<1>2. CASE ~(Report(r) \/ ApplyRules(r))
  <2>1. UNCHANGED <<logging, entries>>
    BY <1>2 DEF Serve, Arrive, Check, LookupFinds, FindsASN, LookupFails,
       Store, FailOpen
  <2>2. LogInv'
    BY <2>1, NothingLogged DEF logging
  <2>3. UNCHANGED entries
    BY <2>1
  <2>4. ASSUME Arrive(r) \/ FailOpen(r) PROVE CountInv(r)'
    <3>1. GoOn(r) /\ pc[r] \in {"new", "decided"}
      BY <2>4 DEF Arrive, FailOpen
    <3>2. entries[r] <= policy[r]
      BY <3>1 DEF CountInv
    <3> QED BY <1>1, <2>3, <3>1, <3>2, GoOnCounts
  <2>5. ASSUME entries[r] < policy[r], \E value : Judge(r, value)
        PROVE  CountInv(r)'
    <3>1. entries[r] <= policy[r]
      BY <1>1, <2>5
    <3>2. PICK value : Judge(r, value)
      BY <2>5
    <3> QED BY <1>1, <2>3, <3>1, <3>2, JudgeCounts
  <2>6. ASSUME entries[r] < policy[r], UNCHANGED policy,
               NEW next \in {"error", "lookup", "store"},
               pc' = [pc EXCEPT ![r] = next]
        PROVE  CountInv(r)'
    <3>1. pc'[r] = next
      BY <2>6 DEF GeoTypeOK
    <3>2. entries'[r] < policy'[r]
      BY <2>3, <2>6
    <3>3. pc'[r] \notin {"new", "decided", "rules"}
      BY <3>1
    <3> QED BY <3>2, <3>3 DEF CountInv
  <2>7. ASSUME FindsASN(r) \/ Store(r) PROVE CountInv(r)'
    <3>1. pc[r] \in {"lookup", "store"} /\ \E value : Judge(r, value)
      BY <2>7 DEF FindsASN, Store
    <3>2. entries[r] < policy[r]
      BY <3>1 DEF CountInv
    <3> QED BY <2>5, <3>1, <3>2
  <2>8. ASSUME Check(r) \/ LookupFinds(r) \/ LookupFails(r) PROVE CountInv(r)'
    <3>1. pc[r] \in {"policy", "lookup"}
      BY <2>8 DEF Check, LookupFinds, LookupFails
    <3>2. entries[r] < policy[r]
      BY <3>1 DEF CountInv
    <3>3. \/ \E value : Judge(r, value)
          \/ /\ \E next \in {"error", "lookup", "store"} :
                  pc' = [pc EXCEPT ![r] = next]
             /\ UNCHANGED policy
      <4>1. CASE Check(r)
        BY <4>1 DEF Check
      <4>2. CASE LookupFinds(r)
        BY <4>2 DEF LookupFinds
      <4>3. CASE LookupFails(r)
        BY <4>3 DEF LookupFails
      <4> QED BY <2>8, <4>1, <4>2, <4>3
    <3> QED BY <2>5, <2>6, <3>2, <3>3
  <2>9. CountInv(r)'
    BY <1>2, <2>4, <2>7, <2>8 DEF Serve
  <2> QED BY <2>2, <2>3, <2>9
<1>3. ASSUME NEW next, LogRequest(r, next)
      PROVE  /\ \A q \in Request \ {r} : entries'[q] = entries[q]
             /\ entries'[r] \in {entries[r], entries[r] + 1}
             /\ pc'[r] \in {next, "panicked"}
  <2>1. \/ entries' = entries
        \/ entries' = [entries EXCEPT ![r] = @ + 1]
    BY <1>3 DEF LogRequest
  <2>2. \/ pc' = [pc EXCEPT ![r] = next]
        \/ pc' = [pc EXCEPT ![r] = "panicked"]
    BY <1>3 DEF LogRequest
  <2>3. pc'[r] \in {next, "panicked"}
    BY <2>2 DEF GeoTypeOK
  <2>4. /\ \A q \in Request \ {r} : entries'[q] = entries[q]
        /\ entries'[r] \in {entries[r], entries[r] + 1}
    BY <1>1, <2>1 DEF LogTypeOK
  <2> QED BY <2>3, <2>4
<1>4. CASE Report(r)
  <2>1. PICK next \in {"decided", "blocked"} : LogRequest(r, next)
    BY <1>4 DEF Report
  <2>2. pc[r] = "error" /\ policy' = policy
    BY <1>4 DEF Report
  <2>3. entries[r] < policy[r]
    BY <2>2 DEF CountInv
  <2>4. LogInv'
    <3>1. entries[r] < 4
      BY <1>1, <2>3
    <3> QED BY <2>1, <3>1, LogRequestKeeps
  <2>5. /\ \A q \in Request \ {r} : entries'[q] = entries[q]
        /\ entries'[r] \in {entries[r], entries[r] + 1}
        /\ pc'[r] \in {next, "panicked"}
    BY <1>3, <2>1
  <2>6. entries'[r] <= policy'[r]
    BY <1>1, <2>2, <2>3, <2>5
  <2>7. pc'[r] \notin {"policy", "lookup", "store", "error"}
    BY <2>1, <2>5
  <2>8. CountInv(r)'
    BY <2>6, <2>7 DEF CountInv
  <2> QED BY <2>4, <2>5, <2>8
<1>5. CASE ApplyRules(r)
  <2>1. pc[r] = "rules"
    BY <1>5 DEF ApplyRules
  <2>2. entries[r] <= policy[r]
    BY <2>1 DEF CountInv
  <2>3. ASSUME pc'[r] \in {"passed", "panicked"} PROVE CountInv(r)'
    BY <2>3 DEF CountInv
  <2>4. CASE UNCHANGED <<logging, entries>> /\ pc' = [pc EXCEPT ![r] = "passed"]
    <3>1. LogInv'
      BY <2>4, NothingLogged DEF logging
    <3>2. pc'[r] = "passed"
      BY <2>4 DEF GeoTypeOK
    <3>3. CountInv(r)'
      BY <2>3, <3>2
    <3> QED BY <2>4, <3>1, <3>3
  <2>5. CASE LogRequest(r, "passed")
    <3>1. entries[r] < 4
      BY <1>1, <2>2
    <3>2. LogInv'
      BY <2>5, <3>1, LogRequestKeeps
    <3>3. /\ \A q \in Request \ {r} : entries'[q] = entries[q]
          /\ pc'[r] \in {"passed", "panicked"}
      BY <1>3, <2>5
    <3>4. CountInv(r)'
      BY <2>3, <3>3
    <3> QED BY <3>2, <3>3, <3>4
  <2> QED BY <1>5, <2>4, <2>5 DEF ApplyRules
<1> QED BY <1>2, <1>4, <1>5

LEMMA EntriesInitial == Init => EntriesInv
<1> SUFFICES ASSUME Init PROVE EntriesInv
  OBVIOUS
<1>1. /\ queue = <<>> /\ hand = NoEntry /\ worker = "none"
      /\ entries = [r \in Request |-> 0] /\ logged = [e \in Entry |-> 0]
      /\ policy = [r \in Request |-> 0] /\ pc = [r \in Request |-> "new"]
  BY DEF Init
<1>2. LogTypeOK /\ Distinct
  BY <1>1 DEF LogTypeOK, Distinct
<1>3. ASSUME NEW e \in Entry PROVE EntryInv(e)
  <2>1. e[1] \in Request /\ e[2] \in 1 .. 4
    BY DEF Entry
  <2>2. ~InQueue(e)
    BY <1>1 DEF InQueue
  <2> QED BY <1>1, <2>1, <2>2, LifecycleAssumption DEF EntryInv
<1>4. \A r \in Request : CountInv(r)
  BY <1>1 DEF CountInv
<1> QED BY <1>2, <1>3, <1>4 DEF EntriesInv, LogInv

LEMMA EntriesStep == DrainInv /\ GeoInv /\ EntriesInv /\ [Next]_vars => EntriesInv'
<1> SUFFICES ASSUME DrainInv, GeoInv, EntriesInv, [Next]_vars PROVE EntriesInv'
  OBVIOUS
<1>1. ASSUME NEW r \in Request, Serve(r) PROVE EntriesInv'
  <2>1. /\ LogInv' /\ CountInv(r)'
        /\ \A q \in Request \ {r} : entries'[q] = entries[q]
    BY <1>1, ServeCounts DEF GeoInv, EntriesInv
  <2>2. Moved(r)
    BY <1>1, ServeMoves DEF GeoInv
  <2>3. \A q \in Request \ {r} : CountInv(q)'
    BY <2>1, <2>2 DEF Moved, CountInv, EntriesInv
  <2> QED BY <2>1, <2>3 DEF EntriesInv
<1>2. ASSUME LogInv', UNCHANGED <<pc, policy, entries>> PROVE EntriesInv'
  BY <1>2 DEF EntriesInv, CountInv
<1>3. CASE Worker
  <2>1. UNCHANGED <<pc, policy, entries>>
    BY <1>3 DEF Worker, WorkerReceives, WorkerWrites, WorkerEnds, request
  <2> QED BY <1>2, <1>3, <2>1, WorkerKeeps DEF EntriesInv
<1>4. CASE \/ ProvisionBare \/ Provision \/ Shutdown \/ Stopping
           \/ (\E a \in Address : Expire(a)) \/ UNCHANGED vars
  <2>1. UNCHANGED <<queue, hand, logged, pc, policy, entries>>
    BY <1>4 DEF ProvisionBare, Provision, Shutdown, Stopping, CloseLog,
       LogDrained, ShutdownReturns, CloseDatabase, Expire, vars, logging,
       request
  <2>2. worker' = "writes" => worker = "writes"
    BY <1>4 DEF ProvisionBare, Provision, Shutdown, Stopping, CloseLog,
       LogDrained, ShutdownReturns, CloseDatabase, Expire, vars, logging
  <2> QED BY <1>2, <2>1, <2>2, NothingLogged DEF EntriesInv
<1> QED BY <1>1, <1>3, <1>4 DEF Next

(* Every entry whose logRequest has returned is in the channel, in the     *)
(* worker's hand or in the log, and in one of them only, however full the  *)
(* buffer was and whenever StopLogWorker closed the channel (logging.go).  *)
THEOREM EntriesAreLogged == Spec => []EntriesReachLog
<1>1. EntriesInv => EntriesReachLog
  <2> SUFFICES ASSUME EntriesInv, NEW e \in Entry
               PROVE  Copies(e) = IF e[2] <= entries[e[1]] THEN 1 ELSE 0
    BY DEF EntriesReachLog
  <2> DEFINE places == {i \in DOMAIN queue : queue[i] = e}
  <2>1. Cardinality(places) = IF InQueue(e) THEN 1 ELSE 0
    <3>1. CASE InQueue(e)
      <4>1. PICK i \in DOMAIN queue : queue[i] = e
        BY <3>1 DEF InQueue
      <4>2. places = {i}
        BY <4>1 DEF EntriesInv, LogInv, Distinct
      <4> QED BY <3>1, <4>2, FS_Singleton
    <3>2. CASE ~InQueue(e)
      <4>1. places = {}
        BY <3>2 DEF InQueue
      <4> QED BY <3>2, <4>1, FS_EmptySet
    <3> QED BY <3>1, <3>2
  <2>2. e[2] \in 1 .. 4 /\ entries[e[1]] \in 0 .. 4
    BY DEF Entry, EntriesInv, LogInv, LogTypeOK
  <2>3. EntryInv(e)
    BY DEF EntriesInv, LogInv
  <2> HIDE DEF places
  <2>4. Copies(e) = (IF InQueue(e) THEN 1 ELSE 0) + (IF hand = e THEN 1 ELSE 0)
                      + logged[e]
    BY <2>1 DEF Copies, places
  <2> QED BY <2>2, <2>3, <2>4 DEF EntryInv
<1> QED BY <1>1, DrainInitial, DrainStep, GeoInitial, GeoStep, EntriesInitial,
        EntriesStep, PTL DEF Spec
=============================================================================
