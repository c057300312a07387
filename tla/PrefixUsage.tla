---------------------------- MODULE PrefixUsage ----------------------------
(***************************************************************************)
(* prefixUsage (bandwidthquota_usage.go): the buckets of one client prefix *)
(* as a slice in order of seconds, every bucket with the running total of  *)
(* the slice, so that a window is answered by a binary search and one      *)
(* subtraction.  The operators take and return the slice.                  *)
(***************************************************************************)
EXTENDS Integers, SequencesExt

CONSTANT MaxUint   (* math.MaxUint64 *)

Saturate(left, right) ==
  IF MaxUint - left < right THEN MaxUint ELSE left + right

(* sort.Search: how many buckets lie at or before a second. *)
CountUpTo(buckets, second) ==
  Cardinality({i \in DOMAIN buckets : buckets[i].second <= second})

CumulativeBefore(buckets, i) == IF i > 1 THEN buckets[i - 1].cumulative ELSE 0

LastOf(buckets) == buckets[Len(buckets)]

(* From one bucket on, every total is the sum of the bytes up to it.       *)
RebuildCumulative(buckets, start) ==
  LET bytes == [i \in DOMAIN buckets |-> buckets[i].bytes]
  IN  [i \in DOMAIN buckets |->
         IF i < start THEN buckets[i]
         ELSE [buckets[i] EXCEPT !.cumulative =
                 Saturate(CumulativeBefore(buckets, start),
                          SumFunctionOnSet(bytes, start .. i))]]

(* add, by where the second falls: after the last bucket, on it, on an     *)
(* earlier one, or between two.                                            *)
AppendBucket(buckets, second, amount) ==
  Append(buckets, [second |-> second, bytes |-> amount,
                   cumulative |-> Saturate(
                     CumulativeBefore(buckets, Len(buckets) + 1), amount)])

GrowLast(buckets, amount) ==
  [buckets EXCEPT ![Len(buckets)].bytes = Saturate(@, amount),
                  ![Len(buckets)].cumulative = Saturate(@, amount)]

AddEarlier(buckets, second, amount) ==
  LET index == CountUpTo(buckets, second - 1) + 1
  IN  RebuildCumulative(
        IF buckets[index].second = second
        THEN [buckets EXCEPT ![index].bytes = Saturate(@, amount)]
        ELSE InsertAt(buckets, index,
                      [second |-> second, bytes |-> amount, cumulative |-> 0]),
        index)

Add(buckets, second, amount) ==
  IF buckets = << >> THEN AppendBucket(buckets, second, amount)
  ELSE IF second > LastOf(buckets).second
       THEN AppendBucket(buckets, second, amount)
  ELSE IF second = LastOf(buckets).second THEN GrowLast(buckets, amount)
  ELSE AddEarlier(buckets, second, amount)

(* usageSince: the first bucket after the cutoff, and what is used from it *)
WindowStart(buckets, cutoff) == CountUpTo(buckets, cutoff) + 1

(* Variant: the bucket before the window is counted. *)
UsageSinceKeepsOne(buckets, cutoff) ==
  LET start == WindowStart(buckets, cutoff)
  IN  IF start > Len(buckets) THEN 0
      ELSE LastOf(buckets).cumulative - CumulativeBefore(buckets, start - 1)

UsageSince(buckets, cutoff) ==
  LET start == WindowStart(buckets, cutoff)
  IN  IF start > Len(buckets) THEN 0
      ELSE LastOf(buckets).cumulative - CumulativeBefore(buckets, start)

Exceeded(buckets, now, window) ==
  UsageSince(buckets, now - window.duration) >= window.limit

(* Variant: one byte more than needed must expire. *)
RetryAfterOneByteMore(buckets, now, window) ==
  LET used   == UsageSince(buckets, now - window.duration)
      start  == WindowStart(buckets, now - window.duration)
      target == Saturate(CumulativeBefore(buckets, start),
                         used - window.limit + 2)
      enough == {i \in start .. Len(buckets) : buckets[i].cumulative >= target}
      first  == CHOOSE i \in enough : \A j \in enough : i <= j
      retry  == buckets[first].second + window.duration - now
  IN  IF enough = {} \/ retry < 1 THEN 1 ELSE retry

(* retryAfter of an exceeded window, in seconds: the bucket whose expiry   *)
(* brings the window below its limit decides.                              *)
RetryAfter(buckets, now, window) ==
  LET used   == UsageSince(buckets, now - window.duration)
      start  == WindowStart(buckets, now - window.duration)
      target == Saturate(CumulativeBefore(buckets, start),
                         used - window.limit + 1)
      enough == {i \in start .. Len(buckets) : buckets[i].cumulative >= target}
      first  == CHOOSE i \in enough : \A j \in enough : i <= j
      retry  == buckets[first].second + window.duration - now
  IN  IF enough = {} \/ retry < 1 THEN 1 ELSE retry

Prune(buckets, cutoff) ==
  IF CountUpTo(buckets, cutoff) = 0 THEN buckets
  ELSE RebuildCumulative(
         SubSeq(buckets, CountUpTo(buckets, cutoff) + 1, Len(buckets)), 1)
=============================================================================
