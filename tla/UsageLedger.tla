---------------------------- MODULE UsageLedger ----------------------------
(***************************************************************************)
(* What the quota store promises, with nothing said of how it is kept: a   *)
(* live book that every counted byte enters at once, and a durable book    *)
(* that is only ever replaced by a whole copy of the live book, taken at   *)
(* one moment.  A restart continues from the durable book, or, when it     *)
(* cannot be read, from an empty book (the store fails open).              *)
(***************************************************************************)

CONSTANTS
  Key,                  (* a client prefix and a second                     *)
  Second, Bytes,
  EmptyBook,
  SaturatingAdd(_, _),  (* how a counter grows                              *)
  Prune(_, _),          (* a book at a second, without its expired history  *)
  Load(_, _),           (* a book as it reads when opened at a second       *)
  NoCopy

VARIABLES
  live,    (* the book requests are judged by                              *)
  durable, (* the book a restart finds                                     *)
  copy,    (* the copy of live being made durable, or NoCopy               *)
  mode     (* "durable", "volatile" after failing open, "closed", "down"   *)

ledgerVars == <<live, durable, copy, mode>>

LedgerInit ==
  /\ live = EmptyBook /\ durable = EmptyBook
  /\ copy = NoCopy /\ mode = "down"

(* A counted write of amount bytes to a client of k's prefix. *)
Serve(k, amount) ==
  /\ mode # "down"
  /\ live' = [live EXCEPT ![k] = SaturatingAdd(@, amount)]
  /\ UNCHANGED <<durable, copy, mode>>

(* History that no window can reach is dropped. *)
Expire(now) ==
  /\ mode # "down"
  /\ copy = NoCopy
  /\ live' = Prune(live, now)
  /\ UNCHANGED <<durable, copy, mode>>

TakeCopy ==
  /\ mode = "durable" /\ copy = NoCopy
  /\ copy' = live
  /\ UNCHANGED <<live, durable, mode>>

(* The copy becomes the durable book, all of it at once. *)
Persist ==
  /\ copy # NoCopy
  /\ durable' = copy /\ copy' = NoCopy
  /\ UNCHANGED <<live, mode>>

Abandon ==
  /\ copy # NoCopy
  /\ copy' = NoCopy
  /\ UNCHANGED <<live, durable, mode>>

(* A clean stop; writes still under way go on entering the live book. *)
Close ==
  /\ mode \in {"durable", "volatile"} /\ copy = NoCopy
  /\ mode' = "closed"
  /\ UNCHANGED <<live, durable, copy>>

(* The process dies: only the durable book is left. *)
Lose ==
  /\ mode' = "down" /\ live' = EmptyBook /\ copy' = NoCopy
  /\ UNCHANGED durable

Recover(now) ==
  /\ mode \in {"closed", "down"} /\ copy = NoCopy
  /\ mode' = "durable" /\ live' = Load(durable, now)
  /\ UNCHANGED <<durable, copy>>

FailOpen ==
  /\ mode \in {"closed", "down"} /\ copy = NoCopy
  /\ mode' = "volatile" /\ live' = EmptyBook
  /\ UNCHANGED <<durable, copy>>

LedgerNext ==
  \/ \E k \in Key, amount \in Bytes \ {0} : Serve(k, amount)
  \/ \E now \in Second : Expire(now) \/ Recover(now)
  \/ TakeCopy \/ Persist \/ Abandon \/ Close \/ Lose \/ FailOpen

LedgerSpec == LedgerInit /\ [][LedgerNext]_ledgerVars
=============================================================================
