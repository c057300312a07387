----------------------------- MODULE Lifecycle -----------------------------
(***************************************************************************)
(* The life of a WAF instance (caddywaf.go) with the parts it starts and   *)
(* stops under its requests: the log worker and its channel (logging.go),  *)
(* and the GeoIP databases with the cache over them (geoip.go), by which   *)
(* the country and ASN policies of Phase 1 judge a request.                *)
(*                                                                         *)
(* An address is what the databases say of it: a country and an ASN.       *)
(* Fallback and expiry are options of GeoIPHandler; a Middleware hands on  *)
(* fields that its configuration leaves at "" and 0, so that "", FALSE is  *)
(* what a server runs with.                                                *)
(***************************************************************************)
EXTENDS Integers, Sequences, FiniteSets

CONSTANTS
  Request,
  Address,      (* records of a country and an asn                          *)
  InList,       (* policy -> the countries, or the ASNs, of its list        *)
  Config,       (* what may be configured, see Init                         *)
  LogBuffer,    (* m.LogBuffer, the default of 1000 for 0 applied           *)
  NotCached,
  NoEntry

Policies == <<"white", "asn", "black">>   (* in the order of Phase 1 *)
Policy   == {Policies[i] : i \in DOMAIN Policies}
Database == {"country", "asn"}
Entry    == Request \X (1 .. 4)

ASSUME LifecycleAssumption ==
  /\ LogBuffer \in Nat \ {0} /\ NoEntry \notin Entry
  /\ \A c \in Config : c.enabled \subseteq Policy /\ c.failOpen \in BOOLEAN
                       /\ c.expires \in BOOLEAN

VARIABLES
  config,    (* enabled policies, failOpen, fallback, expires (TTL > 0)     *)
  stage,     (* where Provision and Shutdown are                            *)
  database,  (* "absent", "open" or "closed"                                *)
  field,     (* m.CountryWhitelist.geoIP and its like: set or nil           *)
  cache,     (* geoIPCache                                                  *)
  timers,    (* running expiry timers of an address                         *)
  channel,   (* m.logChan: "nil", "open" or "closed"                        *)
  queue,     (* what it holds                                               *)
  worker,    (* the log worker: "none", "ranges", "writes" or "done"        *)
  hand,      (* the entry it writes                                         *)
  pc,        (* where a request is                                          *)
  address,   (* of its client                                               *)
  policy,    (* the index of the policy it is at                            *)
  failed,    (* history: the policies for which no record was found         *)
  entries,   (* history: how many entries it has logged                     *)
  logged     (* history: how often an entry was written to the log          *)

life    == <<config, stage, database, field>>
geo     == <<cache, timers>>
logging == <<channel, queue, worker, hand, logged>>
request == <<pc, address, policy, failed, entries>>
vars    == <<life, geo, logging, request>>

Init ==
  /\ config \in Config
  /\ stage = "new"
  /\ database = [d \in Database |-> "absent"]
  /\ field = [p \in Policy |-> FALSE]
  /\ cache = [a \in Address |-> NotCached] /\ timers = [a \in Address |-> 0]
  /\ channel = "nil" /\ queue = <<>> /\ worker = "none" /\ hand = NoEntry
  /\ pc = [r \in Request |-> "new"] /\ address \in [Request -> Address]
  /\ policy = [r \in Request |-> 0] /\ failed = [r \in Request |-> {}]
  /\ entries = [r \in Request |-> 0] /\ logged = [e \in Entry |-> 0]
-----------------------------------------------------------------------------
(* Provision. *)

DatabaseOf(p) == IF p = "asn" THEN "asn" ELSE "country"

(* The log file cannot be opened: Provision returns without an error, and  *)
(* before anything else is set up.                                         *)
ProvisionBare ==
  /\ stage = "new"
  /\ stage' = "bare"
  /\ UNCHANGED <<config, database, field, geo, logging, request>>

(* A database that is missing or broken is only warned of.  An error in    *)
(* what follows (lists, rules) leaves what has been started running.       *)
Provision ==
  /\ stage = "new"
  /\ channel' = "open" /\ worker' = "ranges"
  /\ \E found \in SUBSET {DatabaseOf(p) : p \in config.enabled} :
       /\ database' = [d \in Database |->
                        IF d \in found THEN "open" ELSE "absent"]
       /\ field' = [p \in Policy |->
                      p \in config.enabled /\ DatabaseOf(p) \in found]
  /\ stage' \in {"serving", "failed"}
  /\ UNCHANGED <<config, geo, queue, hand, logged, request>>
-----------------------------------------------------------------------------
(* Logging. *)

(* Variant: a full buffer drops the entry. *)
LogRequestDrops(r, next) ==
  LET entry == <<r, entries[r] + 1>>
  IN  /\ entries' = [entries EXCEPT ![r] = @ + 1]
      /\ pc' = [pc EXCEPT ![r] = next]
      /\ queue' = IF channel = "open" /\ Len(queue) < LogBuffer
                  THEN Append(queue, entry) ELSE queue
      /\ UNCHANGED <<channel, worker, hand, logged>>

(* logRequest: queued, or written at once if the buffer is full or there   *)
(* is no channel; a send on a closed channel panics, and ServeHTTP answers *)
(* with 500.                                                               *)
LogRequest(r, next) ==
  LET entry == <<r, entries[r] + 1>>
  IN  \/ /\ channel = "open" /\ Len(queue) < LogBuffer
         /\ queue' = Append(queue, entry)
         /\ entries' = [entries EXCEPT ![r] = @ + 1]
         /\ pc' = [pc EXCEPT ![r] = next]
         /\ UNCHANGED <<channel, worker, hand, logged>>
      \/ /\ channel = "nil" \/ (channel = "open" /\ Len(queue) = LogBuffer)
         /\ logged' = [logged EXCEPT ![entry] = @ + 1]
         /\ entries' = [entries EXCEPT ![r] = @ + 1]
         /\ pc' = [pc EXCEPT ![r] = next]
         /\ UNCHANGED <<channel, queue, worker, hand>>
      \/ /\ channel = "closed"
         /\ pc' = [pc EXCEPT ![r] = "panicked"]
         /\ UNCHANGED <<logging, entries>>

WorkerReceives ==
  /\ worker = "ranges" /\ queue # <<>>
  /\ hand' = Head(queue) /\ queue' = Tail(queue)
  /\ worker' = "writes"
  /\ UNCHANGED <<life, geo, channel, logged, request>>

WorkerWrites ==
  /\ worker = "writes"
  /\ logged' = [logged EXCEPT ![hand] = @ + 1]
  /\ hand' = NoEntry
  /\ worker' = "ranges"
  /\ UNCHANGED <<life, geo, channel, queue, request>>

(* Variant: logDone is not closed. *)
WorkerEndsSilently ==
  /\ worker = "ranges" /\ channel = "closed" /\ queue = <<>>
  /\ worker' = "left"
  /\ UNCHANGED <<life, geo, channel, queue, hand, logged, request>>

(* range ends when the channel is closed and empty; then logDone closes.   *)
WorkerEnds ==
  /\ worker = "ranges" /\ channel = "closed" /\ queue = <<>>
  /\ worker' = "done"
  /\ UNCHANGED <<life, geo, channel, queue, hand, logged, request>>
-----------------------------------------------------------------------------
(* A request in Phase 1. *)

At(r) == Policies[policy[r]]

(* Where a request goes that policy i does not stop: to the next enabled   *)
(* one, or to the rules.                                                   *)
Later(i) == {j \in i + 1 .. Len(Policies) : Policies[j] \in config.enabled}

GoOn(r) ==
  IF Later(policy[r]) = {}
  THEN pc' = [pc EXCEPT ![r] = "rules"] /\ UNCHANGED policy
  ELSE /\ pc' = [pc EXCEPT ![r] = "policy"]
       /\ policy' = [policy EXCEPT
            ![r] = CHOOSE j \in Later(@) : \A k \in Later(@) : j <= k]

Arrive(r) ==
  /\ pc[r] = "new" /\ stage \in {"serving", "bare"}
  /\ GoOn(r)
  /\ UNCHANGED <<life, geo, logging, address, failed, entries>>

(* The policy judges what was looked up, or the fallback country.          *)
Judge(r, value) ==
  LET found == value \in InList[At(r)]
  IN  IF found = (At(r) = "white") THEN GoOn(r)
      ELSE pc' = [pc EXCEPT ![r] = "blocked"] /\ UNCHANGED policy

(* No database (or, bare, no handler), or a country in the cache; a lookup *)
(* otherwise.                                                              *)
Check(r) ==
  /\ pc[r] = "policy"
  /\ \/ /\ ~field[At(r)]
        /\ pc' = [pc EXCEPT ![r] = "error"]
        /\ failed' = [failed EXCEPT ![r] = @ \cup {At(r)}]
        /\ UNCHANGED policy
     \/ /\ field[At(r)]
        /\ At(r) # "asn" /\ cache[address[r]] # NotCached
        /\ Judge(r, cache[address[r]])
        /\ UNCHANGED failed
     \/ /\ field[At(r)]
        /\ At(r) = "asn" \/ cache[address[r]] = NotCached
        /\ pc' = [pc EXCEPT ![r] = "lookup"]
        /\ UNCHANGED <<policy, failed>>
  /\ UNCHANGED <<life, geo, logging, address, entries>>

(* The record is read with the reader that the check took; a country is to *)
(* be cached.                                                              *)
LookupFinds(r) ==
  /\ pc[r] = "lookup" /\ At(r) # "asn" /\ database["country"] = "open"
  /\ pc' = [pc EXCEPT ![r] = "store"]
  /\ UNCHANGED <<life, geo, logging, address, policy, failed, entries>>

(* IsASNInList, which has no cache. *)
FindsASN(r) ==
  /\ pc[r] = "lookup" /\ At(r) = "asn" /\ database["asn"] = "open"
  /\ Judge(r, address[r].asn)
  /\ UNCHANGED <<life, geo, logging, address, failed, entries>>

(* Variant: a failed lookup leaves its empty record in the cache. *)
LookupFailsCached(r) ==
  /\ pc[r] = "lookup"
  /\ failed' = [failed EXCEPT ![r] = @ \cup {At(r)}]
  /\ cache' = IF At(r) = "asn" THEN cache
               ELSE [cache EXCEPT ![address[r]] = ""]
  /\ pc' = [pc EXCEPT ![r] = "error"]
  /\ UNCHANGED <<life, timers, logging, address, policy, entries>>

(* The database was closed or is damaged: a country policy may have a      *)
(* fallback ("default" is in no list); the others report an error.         *)
LookupFails(r) ==
  /\ pc[r] = "lookup"
  /\ failed' = [failed EXCEPT ![r] = @ \cup {At(r)}]
  /\ \/ /\ At(r) # "asn" /\ config.fallback \notin {"", "none"}
        /\ Judge(r, config.fallback)
     \/ /\ At(r) = "asn" \/ config.fallback \in {"", "none"}
        /\ pc' = [pc EXCEPT ![r] = "error"] /\ UNCHANGED policy
  /\ UNCHANGED <<life, geo, logging, address, entries>>

(* cacheGeoIPRecord, and the verdict. *)
Store(r) ==
  /\ pc[r] = "store"
  /\ cache' = [cache EXCEPT ![address[r]] = address[r].country]
  /\ timers' = IF config.expires THEN [timers EXCEPT ![address[r]] = @ + 1]
                ELSE timers
  /\ Judge(r, address[r].country)
  /\ UNCHANGED <<life, logging, address, failed, entries>>

(* A timer fires; with several, the first takes the entry of the last.     *)
Expire(a) ==
  /\ timers[a] > 0
  /\ timers' = [timers EXCEPT ![a] = @ - 1]
  /\ cache' = [cache EXCEPT ![a] = NotCached]
  /\ UNCHANGED <<life, logging, request>>

(* The error is logged; the request is blocked, or goes on (fail open).    *)
Report(r) ==
  /\ pc[r] = "error"
  /\ LogRequest(r, IF config.failOpen THEN "decided" ELSE "blocked")
  /\ UNCHANGED <<life, geo, address, policy, failed>>

FailOpen(r) ==
  /\ pc[r] = "decided"
  /\ GoOn(r)
  /\ UNCHANGED <<life, geo, logging, address, failed, entries>>

(* The rules, one of which may log its match; none is loaded when bare.    *)
ApplyRules(r) ==
  /\ pc[r] = "rules"
  /\ \/ pc' = [pc EXCEPT ![r] = "passed"] /\ UNCHANGED <<logging, entries>>
     \/ channel # "nil" /\ LogRequest(r, "passed")
  /\ UNCHANGED <<life, geo, address, policy, failed>>
-----------------------------------------------------------------------------
(* Shutdown.  Requests may still be under way. *)

(* The wait for the watchers is in Reload, the signal to the cleanup of the *)
(* rate limiter in RateLimiter.                                             *)
Shutdown ==
  /\ stage \in {"serving", "bare"}
  /\ stage' = "stopping"
  /\ UNCHANGED <<config, database, field, geo, logging, request>>

(* StopLogWorker: close(m.logChan), which panics if there is none.         *)
CloseLog ==
  /\ stage = "stopping"
  /\ stage' = IF channel = "nil" THEN "panicked" ELSE "draining"
  /\ channel' = IF channel = "nil" THEN "nil" ELSE "closed"
  /\ UNCHANGED <<config, database, field, geo, queue, worker, hand,
                 logged, request>>

(* Variant: logDone is not waited for. *)
LogDrainedUnchecked ==
  /\ stage = "draining"
  /\ stage' = "closing"
  /\ UNCHANGED <<config, database, field, geo, logging, request>>

(* <-m.logDone *)
LogDrained ==
  /\ stage = "draining" /\ worker = "done"
  /\ stage' = "closing"
  /\ UNCHANGED <<config, database, field, geo, logging, request>>

(* The databases, in this order; the country policies share theirs.        *)
CloseDatabase(p) ==
  /\ stage = "closing" /\ field[p]
  /\ p = "white" => ~field["black"]
  /\ p = "asn" => ~field["black"] /\ ~field["white"]
  /\ database' = [database EXCEPT ![DatabaseOf(p)] = "closed"]
  /\ field' = [field EXCEPT ![p] = FALSE]
  /\ UNCHANGED <<config, stage, geo, logging, request>>

ShutdownReturns ==
  /\ stage = "closing" /\ \A p \in Policy : ~field[p]
  /\ stage' = "down"
  /\ UNCHANGED <<config, database, field, geo, logging, request>>

Worker   == WorkerReceives \/ WorkerWrites \/ WorkerEnds
Stopping == CloseLog \/ LogDrained \/ ShutdownReturns
              \/ \E p \in Policy : CloseDatabase(p)
Serve(r) ==
  \/ Arrive(r) \/ Check(r) \/ LookupFinds(r) \/ FindsASN(r) \/ LookupFails(r)
  \/ Store(r) \/ Report(r) \/ FailOpen(r) \/ ApplyRules(r)

Next ==
  \/ ProvisionBare \/ Provision \/ Shutdown \/ Worker \/ Stopping
  \/ \E r \in Request : Serve(r)
  \/ \E a \in Address : Expire(a)

Spec == Init /\ [][Next]_vars

(* The goroutines of the worker and of Shutdown run. *)
FairSpec == Spec /\ WF_vars(Worker) /\ WF_vars(Stopping)
-----------------------------------------------------------------------------
(* How often an entry is in the channel, the worker's hand or the log.     *)
Copies(e) == Cardinality({i \in DOMAIN queue : queue[i] = e})
               + (IF hand = e THEN 1 ELSE 0) + logged[e]

(* Every entry whose logRequest has returned is on its way or written, and *)
(* once, through a full buffer and through the close of the channel.       *)
EntriesReachLog ==
  \A e \in Entry : Copies(e) = IF e[2] <= entries[e[1]] THEN 1 ELSE 0

(* Shutdown closes the databases, and returns, only when every entry of    *)
(* the buffer has been written: "draining the log channel".                *)
ShutdownDrainsLog ==
  stage \in {"closing", "down"} => queue = <<>> /\ hand = NoEntry

Verdict(p, value) == (value \in InList[p]) = (p = "white")

Value(p, a) == IF p = "asn" THEN a.asn ELSE a.country

(* A request gets past a policy whose database was opened only if the      *)
(* policy agrees with what the database says of its address, or found no   *)
(* record itself and was configured to fail open or to a fallback that     *)
(* agrees; whatever other requests have put in the cache, and while        *)
(* Shutdown closes the databases beneath it.  Nothing is said of a policy  *)
(* without a database: there the code and its documentation differ.        *)
GeoPolicyHolds ==
  \A r \in Request : pc[r] \in {"rules", "passed"} =>
    \A p \in {q \in config.enabled : database[DatabaseOf(q)] # "absent"} :
      \/ Verdict(p, Value(p, address[r]))
      \/ /\ p \in failed[r]
         /\ \/ config.failOpen
            \/ p # "asn" /\ config.fallback \notin {"", "none"}
                 /\ Verdict(p, config.fallback)

(* A Shutdown of an instance that was provisioned ends, however full the   *)
(* log buffer is.                                                          *)
ShutdownEnds == (stage = "stopping" /\ channel # "nil") ~> (stage = "down")
=============================================================================
