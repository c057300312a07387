---------------------------- MODULE RateLimiter ----------------------------
(***************************************************************************)
(* RateLimiter (ratelimiter.go): the counter of one key under concurrent   *)
(* requests and the cleanup goroutine.  Both read the clock before they    *)
(* ask for the lock, so they may act on a time that has passed.  Keys do   *)
(* not touch each other: one shows them all.                               *)
(***************************************************************************)
EXTENDS Integers, FiniteSets, Functions

CONSTANTS
  Thread,      (* goroutines that serve requests of the key                 *)
  Requests,    (* config.Requests                                           *)
  Window,      (* config.Window                                             *)
  MaxWait,     (* for how long the lock is waited for                       *)
  LastSecond,  (* bound: the last second of the model                       *)
  MaxServed    (* bound: the requests in all                                *)

ASSUME RateLimiterAssumption ==
  /\ Requests \in Nat \ {0} /\ Window \in Nat \ {0}
  /\ MaxWait \in 0 .. Window /\ LastSecond \in Nat /\ MaxServed \in Nat

Idle == -1
None == [count |-> 0, window |-> Idle]

VARIABLES
  clock,     (* time.Now                                                    *)
  counter,   (* rl.requests[ip][key], or None                               *)
  now,       (* of a waiting thread: its time, else Idle                    *)
  cleaning,  (* of the waiting cleanup: its time, else Idle                 *)
  stopped,   (* rl.stopCleanup is closed                                    *)
  total,     (* totalRequests                                               *)
  blocked,   (* blockedRequests                                             *)
  admitted   (* history: the requests admitted in every second              *)

metrics     == <<total, blocked>>
limiterVars == <<clock, counter, now, cleaning, stopped, metrics, admitted>>

LimiterInit ==
  /\ clock = 0 /\ counter = None
  /\ now = [t \in Thread |-> Idle] /\ cleaning = Idle /\ stopped = FALSE
  /\ total = 0 /\ blocked = 0 /\ admitted = [s \in 0 .. LastSecond |-> 0]

(* Time passes, but nobody waits for the lock for longer than MaxWait.     *)
Tick ==
  /\ clock < LastSecond
  /\ \A s \in {now[t] : t \in Thread} \cup {cleaning} :
       s # Idle => clock + 1 - s <= MaxWait
  /\ clock' = clock + 1
  /\ UNCHANGED <<counter, now, cleaning, stopped, metrics, admitted>>

(* isRateLimited up to rl.Lock. *)
Arrive(t) ==
  /\ now[t] = Idle
  /\ total + Cardinality({u \in Thread : now[u] # Idle}) < MaxServed
  /\ now' = [now EXCEPT ![t] = clock]
  /\ UNCHANGED <<clock, counter, cleaning, stopped, metrics, admitted>>

(* Variant: a refused request starts the window anew. *)
DecideExtends(t) ==
  LET fresh == counter = None \/ now[t] - counter.window > Window
      count == IF fresh THEN 1 ELSE counter.count + 1
      limited == ~fresh /\ count > Requests
  IN  /\ now[t] # Idle
      /\ counter' = [count |-> count,
                     window |-> IF fresh \/ limited THEN now[t] ELSE counter.window]
      /\ total' = total + 1
      /\ blocked' = IF limited THEN blocked + 1 ELSE blocked
      /\ admitted' = IF limited THEN admitted ELSE [admitted EXCEPT ![clock] = @ + 1]
      /\ now' = [now EXCEPT ![t] = Idle]
      /\ UNCHANGED <<clock, cleaning, stopped>>

(* Variant: the count is compared before this request is counted. *)
DecideOneMore(t) ==
  LET fresh == counter = None \/ now[t] - counter.window > Window
      count == IF fresh THEN 1 ELSE counter.count + 1
      limited == ~fresh /\ counter.count > Requests
  IN  /\ now[t] # Idle
      /\ counter' = [count |-> count,
                     window |-> IF fresh THEN now[t] ELSE counter.window]
      /\ total' = total + 1
      /\ blocked' = IF limited THEN blocked + 1 ELSE blocked
      /\ admitted' = IF limited THEN admitted ELSE [admitted EXCEPT ![clock] = @ + 1]
      /\ now' = [now EXCEPT ![t] = Idle]
      /\ UNCHANGED <<clock, cleaning, stopped>>

(* isRateLimited under the lock. *)
Decide(t) ==
  LET fresh == counter = None \/ now[t] - counter.window > Window
      count == IF fresh THEN 1 ELSE counter.count + 1
      limited == ~fresh /\ count > Requests
  IN  /\ now[t] # Idle
      /\ counter' = [count |-> count,
                     window |-> IF fresh THEN now[t] ELSE counter.window]
      /\ total' = total + 1
      /\ blocked' = IF limited THEN blocked + 1 ELSE blocked
      /\ admitted' = IF limited THEN admitted ELSE [admitted EXCEPT ![clock] = @ + 1]
      /\ now' = [now EXCEPT ![t] = Idle]
      /\ UNCHANGED <<clock, cleaning, stopped>>

(* The ticker fires.  After the stop signal select takes either case, so   *)
(* that the goroutine may clean up once more, and again, before it ends.   *)
CleanupBegins ==
  /\ cleaning = Idle
  /\ cleaning' = clock
  /\ UNCHANGED <<clock, counter, now, stopped, metrics, admitted>>

CleanupExpired ==
  /\ cleaning # Idle
  /\ counter' = IF counter # None /\ cleaning - counter.window > Window
                THEN None ELSE counter
  /\ cleaning' = Idle
  /\ UNCHANGED <<clock, now, stopped, metrics, admitted>>

SignalStopCleanup ==
  /\ ~stopped /\ stopped' = TRUE
  /\ UNCHANGED <<clock, counter, now, cleaning, metrics, admitted>>

LimiterNext ==
  \/ Tick \/ CleanupBegins \/ CleanupExpired \/ SignalStopCleanup
  \/ \E t \in Thread : Arrive(t) \/ Decide(t)

LimiterSpec == LimiterInit /\ [][LimiterNext]_limiterVars
-----------------------------------------------------------------------------
AdmittedFrom(first, last) ==
  SumFunctionOnSet(admitted, {s \in 0 .. LastSecond : first <= s /\ s <= last})

(* How many windows can have a request admitted between s and s + length:  *)
(* a window admits for Window + MaxWait from its start, and the next one   *)
(* starts after more than Window - MaxWait, not Window, since the cleanup  *)
(* may remove a window that a waiting request still falls into.            *)
Windows(length) ==
  (length + Window + MaxWait) \div (Window - MaxWait + 1) + 1

(* The window is a fixed one that starts with a request, not a sliding     *)
(* one: in a stretch as long as the window, two windows' worth of requests *)
(* may be admitted, three where requests wait for the lock, and no more.   *)
AdmissionIsBounded ==
  \A s \in 0 .. LastSecond, length \in 0 .. Window :
    AdmittedFrom(s, s + length) <= Requests * Windows(length)

(* A request is refused only if Requests others were admitted since its    *)
(* window began: refused requests do not keep a client out.                *)
RefusalIsDeserved ==
  [][blocked' # blocked =>
       AdmittedFrom(clock - Window - MaxWait, clock) >= Requests]_limiterVars
=============================================================================
