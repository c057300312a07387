--------------------------- MODULE MCRetryPromise ---------------------------
(* One prefix for TLC: a short tight window and a longer, looser one. *)
EXTENDS RetryPromise

AmountSmall == {1, 2}
WindowTwo == {[duration |-> 2, limit |-> 2], [duration |-> 4, limit |-> 4]}

(***************************************************************************)
(* The manager's clock never goes back, so the runs append only.  add also *)
(* takes an earlier second: for every series of up to four additions in    *)
(* any order, the buckets are in order, each holds what was added in its   *)
(* second and carries the saturating total up to it.                       *)
(***************************************************************************)
Additions == UNION {[1 .. n -> [second : 0 .. 2, bytes : {1, 3}]] : n \in 0 .. 4}

Added(series) ==
  FoldLeft(LAMBDA b, a : Add(b, a.second, a.bytes), << >>, series)

ExactlyAdded(series, first, last) ==
  Min({MaxUint, MapThenSumSet(
         LAMBDA i : IF series[i].second \in first .. last THEN series[i].bytes
                    ELSE 0, DOMAIN series)})

ASSUME AddInAnyOrder ==
  \A series \in Additions :
    LET buckets_ == Added(series)
    IN  /\ {buckets_[i].second : i \in DOMAIN buckets_}
             = {series[i].second : i \in DOMAIN series}
        /\ \A i \in DOMAIN buckets_ :
             LET b == buckets_[i]
             IN  /\ b.bytes = ExactlyAdded(series, b.second, b.second)
                 /\ b.cumulative = ExactlyAdded(series, 0, b.second)
                 /\ i > 1 => buckets_[i - 1].second < b.second
=============================================================================
