----------------------------- MODULE UsageData -----------------------------
(***************************************************************************)
(* The data of the bandwidth-quota store: one counter of bytes for every   *)
(* client prefix and second (bandwidthquota_usage.go).  A "book" is what   *)
(* the maps of prefixUsage buckets and the bbolt bucket both hold: a       *)
(* number of bytes for every key, 0 standing for "no such bucket" (the     *)
(* code never writes a bucket of 0 bytes, and counts it as nothing).       *)
(***************************************************************************)
EXTENDS Integers, Functions

CONSTANTS
  Prefix,     (* the client prefixes that own usage                         *)
  LastSecond, (* bound: the last second a clock of the model can show       *)
  MaxBytes,   (* math.MaxUint64: the counters saturate here                 *)
  Retention   (* seconds of history the manager keeps (minimumRetention)    *)

ASSUME UsageDataAssumption ==
  /\ LastSecond \in Nat
  /\ MaxBytes \in Nat \ {0}
  /\ Retention \in Nat \ {0}

Second == 0 .. LastSecond
Bytes  == 0 .. MaxBytes
Key    == Prefix \X Second
Book   == [Key -> Bytes]

EmptyBook == [k \in Key |-> 0]

SaturatingAdd(left, right) ==
  IF MaxBytes - left < right THEN MaxBytes ELSE left + right

(* The saturating sum of the counters of a set of keys. *)
SaturatingTotal(book, keys) ==
  LET exact == SumFunctionOnSet(book, keys)
  IN  IF exact \in Bytes THEN exact ELSE MaxBytes

(* usageSince: the keys of a prefix in the duration that ends at now. *)
WindowKeys(p, now, duration) ==
  {k \in Key : k[1] = p /\ k[2] > now - duration}

(* Variant: one second too eager. *)
ExpiredKeysOneTooMany(now) == {k \in Key : k[2] <= now - Retention + 1}

(* The keys that have left the retention period. *)
ExpiredKeys(now) == {k \in Key : k[2] <= now - Retention}

(* prefixUsage.prune for every prefix. *)
Prune(book, now) ==
  [k \in Key |-> IF k \in ExpiredKeys(now) THEN 0 ELSE book[k]]

(* The keys of a stored book that lie in the future of now. *)
FutureKeys(book, now) == {k \in Key : book[k] # 0 /\ k[2] > now}

(* Variant: future usage is dropped, not moved. *)
ClampedKeysNone(book, now) == {}

(* The keys, one a prefix, to which load() moves usage of the future. *)
ClampedKeys(book, now) ==
  {k \in Key : k[2] = now /\ \E f \in FutureKeys(book, now) : f[1] = k[1]}

(* load: what becomes of a stored book when it is read back at second now: *)
(* expired buckets are dropped, future ones are added to the bucket now.   *)
Load(book, now) ==
  [k \in Key |->
     IF k \in ExpiredKeys(now) \/ k[2] > now THEN 0
     ELSE IF k \in ClampedKeys(book, now)
          THEN SaturatingTotal(book, {f \in Key : f[1] = k[1] /\ f[2] >= now})
          ELSE book[k]]
=============================================================================
