--------------------------- MODULE QuotaHandlers ---------------------------
(***************************************************************************)
(* The bandwidth_quota handlers of one state_path (bandwidthquota.go) and  *)
(* the registry through which they share a usage manager                   *)
(* (acquireManager, releaseManager).  Handlers come and go with Caddy's    *)
(* configurations while downloads of one client prefix are counted.        *)
(*                                                                         *)
(* The manager itself is UsageStore; here it is the number of bytes it has *)
(* counted, written to the file when it closes and read when one opens.    *)
(***************************************************************************)
EXTENDS Integers, FiniteSets, Functions

CONSTANTS
  Handler,       (* handler instances, one for each route and configuration *)
  NoHandler,
  Request,       (* GET requests of the client prefix                       *)
  Chunk,         (* accountingChunkSize                                     *)
  Limit,         (* the byte limit of the window                            *)
  WriteSize,     (* bytes one Write or one chunk of ReadFrom delivers       *)
  MaxSent,       (* bound: the bytes of one response                        *)
  MayPanic,      (* whether next.ServeHTTP may panic (ErrAbortHandler)      *)
  GraceExpires   (* whether Caddy cleans up before the requests have ended  *)

ASSUME QuotaHandlersAssumption ==
  /\ IsFiniteSet(Handler) /\ IsFiniteSet(Request)
  /\ Chunk \in Nat \ {0} /\ Limit \in Nat \ {0} /\ MaxSent \in Nat
  /\ WriteSize \subseteq Nat \ {0}
  /\ MayPanic \in BOOLEAN /\ GraceExpires \in BOOLEAN

NoManager == 0
Manager   == 1 .. Cardinality(Handler)  (* each acquires at most one *)

VARIABLES
  phase,     (* of a handler: "new", "acquired", "ready" or "cleaned"       *)
  held,      (* h.manager                                                   *)
  reference, (* managerRegistry.managers[path]: manager and refs            *)
  opened,    (* how many managers were made                                 *)
  counted,   (* bytes in a manager's memory                                 *)
  file,      (* bytes in the database                                       *)
  late,      (* history: bytes recorded into managers that were closed      *)
  pc,        (* where a request is                                          *)
  via,       (* the handler that serves it                                  *)
  captured,  (* its local copy of h.manager                                 *)
  success,   (* the response has a status in 200 .. 299                     *)
  sent,      (* history: bytes the response delivered under such a status   *)
  pending    (* accountingResponseWriter.pending                            *)

registry == <<reference, opened, file>>
books    == <<counted, late>>
handlers == <<phase, held>>
requests == <<pc, via, captured, success, sent, pending>>
vars == <<registry, handlers, books, requests>>

Referenced == {h \in Handler : phase[h] \in {"acquired", "ready"}}
Live(r)    == pc[r] \in {"captured", "serving"}

Init ==
  /\ phase = [h \in Handler |-> "new"] /\ held = [h \in Handler |-> NoManager]
  /\ reference = [manager |-> NoManager, refs |-> 0]
  /\ opened = 0 /\ counted = [m \in Manager |-> 0] /\ file = 0 /\ late = 0
  /\ pc = [r \in Request |-> "new"] /\ via = [r \in Request |-> NoHandler]
  /\ captured = [r \in Request |-> NoManager]
  /\ success = [r \in Request |-> FALSE]
  /\ sent = [r \in Request |-> 0] /\ pending = [r \in Request |-> 0]
-----------------------------------------------------------------------------
(* Configurations.                                                         *)

(* Provision: acquireManager, under the registry's lock. *)
Acquire(h) ==
  /\ phase[h] = "new"
  /\ phase' = [phase EXCEPT ![h] = "acquired"]
  /\ \/ /\ reference.manager # NoManager
        /\ reference' = [reference EXCEPT !.refs = @ + 1]
        /\ held' = [held EXCEPT ![h] = reference.manager]
        /\ UNCHANGED <<opened, counted>>
     \/ /\ reference.manager = NoManager
        /\ reference' = [manager |-> opened + 1, refs |-> 1]
        /\ held' = [held EXCEPT ![h] = opened + 1]
        /\ opened' = opened + 1
        /\ counted' = [counted EXCEPT ![opened + 1] = file]
  /\ UNCHANGED <<file, late, requests>>

RegistersMetrics(h) ==
  /\ phase[h] = "acquired"
  /\ phase' = [phase EXCEPT ![h] = "ready"]
  /\ UNCHANGED <<registry, held, books, requests>>

(* Variant: the last reference forgets to close. *)
ReleaseWithoutClose(h) ==
  /\ phase' = [phase EXCEPT ![h] = "cleaned"]
  /\ held' = [held EXCEPT ![h] = NoManager]
  /\ reference' = IF reference.refs = 1
                  THEN [manager |-> NoManager, refs |-> 0]
                  ELSE [reference EXCEPT !.refs = @ - 1]
  /\ UNCHANGED <<file, opened, books, requests>>

(* Variant: a reference too many is given back. *)
ReleaseTwice(h) ==
  /\ phase' = [phase EXCEPT ![h] = "cleaned"]
  /\ held' = [held EXCEPT ![h] = NoManager]
  /\ IF reference.refs <= 2
     THEN /\ reference' = [manager |-> NoManager, refs |-> 0]
          /\ file' = counted[held[h]]
     ELSE /\ reference' = [reference EXCEPT !.refs = @ - 2]
          /\ UNCHANGED file
  /\ UNCHANGED <<opened, books, requests>>

(* releaseManager: the last reference closes the manager, which flushes.   *)
Release(h) ==
  /\ phase' = [phase EXCEPT ![h] = "cleaned"]
  /\ held' = [held EXCEPT ![h] = NoManager]
  /\ IF reference.refs = 1
     THEN /\ reference' = [manager |-> NoManager, refs |-> 0]
          /\ file' = counted[held[h]]
     ELSE /\ reference' = [reference EXCEPT !.refs = @ - 1]
          /\ UNCHANGED file
  /\ UNCHANGED <<opened, books, requests>>

(* Provision gives the manager back when the metrics cannot register.      *)
ProvisionFails(h) == phase[h] = "acquired" /\ Release(h)

(* Cleanup, after the requests of the handler have ended or Caddy's grace  *)
(* period has.                                                             *)
Cleanup(h) ==
  /\ phase[h] = "ready"
  /\ GraceExpires \/ \A r \in Request : Live(r) => via[r] # h
  /\ Release(h)
-----------------------------------------------------------------------------
(* ServeHTTP.                                                              *)

(* manager := h.manager; without one the request is passed on uncounted.   *)
Enter(r, h) ==
  /\ pc[r] = "new"
  /\ phase[h] = "ready" \/ (GraceExpires /\ phase[h] = "cleaned")
  /\ via' = [via EXCEPT ![r] = h]
  /\ captured' = [captured EXCEPT ![r] = held[h]]
  /\ pc' = [pc EXCEPT ![r] = IF held[h] = NoManager THEN "uncounted"
                             ELSE "captured"]
  /\ UNCHANGED <<registry, handlers, books, success, sent, pending>>

Refuse(r) ==
  /\ pc[r] = "captured"
  /\ counted[captured[r]] >= Limit
  /\ pc' = [pc EXCEPT ![r] = "refused"]
  /\ UNCHANGED <<registry, handlers, books, via, captured, success, sent, pending>>

(* next.ServeHTTP is called; it will answer with a success or another      *)
(* status.                                                                 *)
Admit(r) ==
  /\ pc[r] = "captured"
  /\ counted[captured[r]] < Limit
  /\ pc' = [pc EXCEPT ![r] = "serving"]
  /\ \E ok \in BOOLEAN : success' = [success EXCEPT ![r] = ok]
  /\ UNCHANGED <<registry, handlers, books, via, captured, sent, pending>>

(* usageManager.record.  A manager that is closed still counts in memory,  *)
(* and nothing reads it any more.                                          *)
RecordBytes(manager, amount) ==
  /\ counted' = [counted EXCEPT ![manager] = @ + amount]
  /\ late' = IF manager = reference.manager THEN late ELSE late + amount

(* account: pending bytes are recorded a chunk at a time. *)
Account(r, written) ==
  LET total == pending[r] + written
  IN  IF total >= Chunk
      THEN /\ RecordBytes(captured[r], total)
           /\ pending' = [pending EXCEPT ![r] = 0]
      ELSE /\ pending' = [pending EXCEPT ![r] = total]
           /\ UNCHANGED books

(* Write, or one turn of ReadFrom. *)
WriteBody(r, written) ==
  /\ pc[r] = "serving"
  /\ sent[r] + written <= MaxSent
  /\ IF success[r]
     THEN Account(r, written) /\ sent' = [sent EXCEPT ![r] = @ + written]
     ELSE UNCHANGED <<books, pending, sent>>
  /\ UNCHANGED <<registry, handlers, pc, via, captured, success>>

(* next returns: flushAccount. *)
Finish(r) ==
  /\ pc[r] = "serving"
  /\ pc' = [pc EXCEPT ![r] = "ended"]
  /\ RecordBytes(captured[r], pending[r])
  /\ pending' = [pending EXCEPT ![r] = 0]
  /\ UNCHANGED <<registry, handlers, via, captured, success, sent>>

(* next panics through ServeHTTP: flushAccount is not deferred. *)
Panic(r) ==
  /\ MayPanic
  /\ pc[r] = "serving"
  /\ pc' = [pc EXCEPT ![r] = "ended"]
  /\ UNCHANGED <<registry, handlers, books, via, captured, success, sent, pending>>

Next ==
  \/ \E h \in Handler : Acquire(h) \/ RegistersMetrics(h) \/ ProvisionFails(h)
                          \/ Cleanup(h)
  \/ \E r \in Request :
       \/ \E h \in Handler : Enter(r, h)
       \/ Refuse(r) \/ Admit(r) \/ Finish(r) \/ Panic(r)
       \/ \E written \in WriteSize : WriteBody(r, written)

Spec == Init /\ [][Next]_vars
-----------------------------------------------------------------------------
(* The registry counts exactly the handlers that hold its manager, so a    *)
(* manager is closed neither under a handler nor never: every handler that *)
(* is provisioned holds the one registered manager.                        *)
ReferencesMatchHandlers ==
  /\ reference.refs = Cardinality(Referenced)
  /\ \A h \in Referenced : held[h] = reference.manager /\ held[h] # NoManager
  /\ reference.refs = 0 <=> reference.manager = NoManager

(* Bytes delivered and not waiting in a response's buffer. *)
Delivered ==
  SumFunctionOnSet([r \in Request |-> sent[r] - pending[r]], Request)

(* The shared manager knows every delivered byte of every handler and of   *)
(* every earlier configuration, except those in the buffers and those that *)
(* requests recorded after their manager had closed; what managers before  *)
(* it counted came through the file.                                       *)
ManagerCountsDelivered ==
  Delivered - late = IF reference.manager # NoManager
                     THEN counted[reference.manager] ELSE file
=============================================================================
