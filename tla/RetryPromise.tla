---------------------------- MODULE RetryPromise ----------------------------
(***************************************************************************)
(* One client prefix of a quota under a wall clock that runs and may be    *)
(* set: usageManager.record, check and prune over the prefix's buckets,    *)
(* and the Retry-After header by which ServeHTTP refuses a download.       *)
(***************************************************************************)
EXTENDS PrefixUsage

CONSTANTS
  LastTime,     (* bound: the last second of the model                      *)
  Amount,       (* the amounts recorded at once; record returns at 0        *)
  MaxTotal,     (* bound: the bytes recorded in all                         *)
  QuotaWindow,  (* the configured windows                                   *)
  Retention     (* at least every window's duration                         *)

ASSUME RetryPromiseAssumption ==
  /\ \A w \in QuotaWindow : w.duration \in 1 .. Retention /\ w.limit \in Nat \ {0}
  /\ Amount \subseteq Nat \ {0}
  /\ LastTime \in Nat /\ Retention \in Nat \ {0}
  /\ MaxTotal \in Nat /\ MaxUint \in Nat /\ MaxTotal <= MaxUint

VARIABLES
  wallClock,  (* time.Now                                                   *)
  lastNow,    (* m.lastNow                                                  *)
  buckets,    (* the prefix's buckets                                       *)
  exact,      (* history: the bytes recorded in every second                *)
  promise     (* history: when a refused client was told to come back,      *)
              (* NoPromise if it was not, or something has made it void     *)

promiseVars == <<wallClock, lastNow, buckets, exact, promise>>

NoPromise == -1

CurrentSecond == IF wallClock < lastNow THEN lastNow ELSE wallClock

(* Bytes recorded from one second to another, both included. *)
Downloaded(first, last) == SumFunctionOnSet(exact, first .. last)

Violated == {w \in QuotaWindow : Exceeded(buckets, CurrentSecond, w)}

(* Variant: the client is told the shortest wait. *)
LongestRetryTakesShortest(windows) ==
  Min({RetryAfter(buckets, CurrentSecond, w) : w \in windows})

LongestRetry(windows) ==
  Max({1} \cup {RetryAfter(buckets, CurrentSecond, w) : w \in windows})

PromiseInit ==
  /\ wallClock = 0 /\ lastNow = 0 /\ buckets = << >>
  /\ exact = [s \in 0 .. LastTime |-> 0]
  /\ promise = NoPromise

(* Time passes, or the clock is set. *)
SetClock ==
  /\ wallClock' \in 0 .. LastTime /\ wallClock' # wallClock
  /\ promise' = IF wallClock' < wallClock THEN NoPromise ELSE promise
  /\ UNCHANGED <<lastNow, buckets, exact>>

(* A response writes: whatever was promised is void. *)
Record(amount) ==
  /\ Downloaded(0, LastTime) + amount <= MaxTotal
  /\ lastNow' = CurrentSecond
  /\ buckets' = Add(buckets, CurrentSecond, amount)
  /\ exact' = [exact EXCEPT ![CurrentSecond] = @ + amount]
  /\ promise' = NoPromise
  /\ UNCHANGED wallClock

(* A request is refused with 429 and Retry-After, seconds from now by the  *)
(* manager's clock; where that is ahead of the wall clock, which was set   *)
(* back, they are too few, and nothing is promised.                        *)
RefuseClient ==
  /\ Violated # {}
  /\ lastNow' = CurrentSecond
  /\ promise' = IF promise = NoPromise /\ CurrentSecond = wallClock
                THEN wallClock + LongestRetry(Violated) ELSE promise
  /\ UNCHANGED <<wallClock, buckets, exact>>

AdmitClient ==
  /\ Violated = {}
  /\ lastNow' = CurrentSecond
  /\ UNCHANGED <<wallClock, buckets, exact, promise>>

PruneTick ==
  /\ lastNow' = CurrentSecond
  /\ buckets' = Prune(buckets, CurrentSecond - Retention)
  /\ UNCHANGED <<wallClock, exact, promise>>

PromiseNext ==
  \/ SetClock \/ RefuseClient \/ AdmitClient \/ PruneTick
  \/ \E amount \in Amount : Record(amount)

PromiseSpec == PromiseInit /\ [][PromiseNext]_promiseVars
-----------------------------------------------------------------------------
(* Every window that may be configured counts exactly the bytes recorded   *)
(* in it, to the second and whatever has been pruned.                      *)
WindowIsExact ==
  \A duration \in 1 .. Retention :
    UsageSince(buckets, CurrentSecond - duration) =
      Downloaded(Max({0, CurrentSecond - duration + 1}), CurrentSecond)

(* A client that comes back when it was told to is admitted, if nothing    *)
(* was downloaded by its prefix meanwhile and the clock was not set back.  *)
ReturningClientIsAdmitted ==
  (promise # NoPromise /\ wallClock >= promise) => Violated = {}

(* ... and it was not told to wait longer than needed.                     *)
NoEarlierAdmission ==
  (promise # NoPromise /\ wallClock < promise) => Violated # {}
=============================================================================
