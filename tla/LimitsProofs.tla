---------------------------- MODULE LimitsProofs ----------------------------
(***************************************************************************)
(* What QuotaHandlers.cfg, RateLimiter.cfg and RetryPromise.cfg show of a  *)
(* few handlers, requests and seconds, for any number of them: the         *)
(* registry counts its handlers and their manager the bytes they deliver,  *)
(* the rate limiter admits a bounded number of requests and refuses none   *)
(* too early, and the quota's buckets count every window to the byte, so   *)
(* that a refused client is told the right time to come back.              *)
(***************************************************************************)
EXTENDS QuotaHandlers, RateLimiter, RetryPromise, DataLemmas

(* What the handlers and the registry hold.                                *)
HandlersTypeOK ==
  /\ phase \in [Handler -> {"new", "acquired", "ready", "cleaned"}]
  /\ held \in [Handler -> Nat]
  /\ reference \in [manager : Nat, refs : Nat]
  /\ opened \in Nat

HandlersInv == HandlersTypeOK /\ ReferencesMatchHandlers

LEMMA ReferencedFinite ==
  IsFiniteSet(Referenced) /\ Cardinality(Referenced) \in Nat
<1>1. Referenced \in SUBSET Handler
  BY DEF Referenced
<1> QED BY <1>1, QuotaHandlersAssumption, FS_Subset, FS_CardinalityType

(* A handler that acquires is counted, in a manager it has found or made.  *)
LEMMA AcquireCounts ==
  ASSUME HandlersInv, NEW h \in Handler, Acquire(h)
  PROVE  HandlersInv'
<1> USE DEF HandlersInv, HandlersTypeOK, NoManager
<1>1. h \notin Referenced
  BY DEF Acquire, Referenced
<1>2. Referenced' = Referenced \cup {h}
  BY DEF Acquire, Referenced
<1>3. Cardinality(Referenced') = Cardinality(Referenced) + 1
  BY <1>1, <1>2, ReferencedFinite, FS_AddElement
<1>4. reference.refs = Cardinality(Referenced)
  BY DEF ReferencesMatchHandlers
<1>5. CASE reference.manager # NoManager
  <2>1. /\ reference' = [reference EXCEPT !.refs = @ + 1]
        /\ held' = [held EXCEPT ![h] = reference.manager]
        /\ opened' = opened /\ phase' = [phase EXCEPT ![h] = "acquired"]
    BY <1>5 DEF Acquire
  <2>2. HandlersTypeOK'
    BY <2>1
  <2>3. reference'.manager = reference.manager /\ reference'.refs = reference.refs + 1
    BY <2>1
  <2>4. \A g \in Referenced' : held'[g] = reference.manager
    BY <1>2, <2>1 DEF ReferencesMatchHandlers, Referenced
  <2> QED BY <1>3, <1>4, <1>5, <2>2, <2>3, <2>4 DEF ReferencesMatchHandlers
<1>6. CASE reference.manager = NoManager
  <2>1. /\ reference' = [manager |-> opened + 1, refs |-> 1]
        /\ held' = [held EXCEPT ![h] = opened + 1]
        /\ opened' = opened + 1 /\ phase' = [phase EXCEPT ![h] = "acquired"]
    BY <1>6 DEF Acquire
  <2>2. Cardinality(Referenced) = 0
    BY <1>4, <1>6 DEF ReferencesMatchHandlers
  <2>3. Referenced = {}
    BY <2>2, ReferencedFinite, FS_EmptySet
  <2>4. HandlersTypeOK'
    BY <2>1
  <2>5. \A g \in Referenced' : held'[g] = opened + 1
    BY <1>2, <2>1, <2>3
  <2> QED BY <1>3, <2>1, <2>2, <2>4, <2>5 DEF ReferencesMatchHandlers
<1> QED BY <1>5, <1>6

(* A handler that releases is not counted any more, and the last one       *)
(* leaves no manager.                                                      *)
LEMMA ReleaseCounts ==
  ASSUME HandlersInv, NEW h \in Referenced, Release(h)
  PROVE  HandlersInv'
<1> USE DEF HandlersInv, HandlersTypeOK, NoManager
<1>1. /\ phase' = [phase EXCEPT ![h] = "cleaned"]
      /\ held' = [held EXCEPT ![h] = NoManager] /\ opened' = opened
  BY DEF Release
<1>2. Referenced' = Referenced \ {h}
  BY <1>1 DEF Referenced
<1>3. Cardinality(Referenced') = Cardinality(Referenced) - 1
  BY <1>2, ReferencedFinite, FS_RemoveElement
<1>4. reference.refs = Cardinality(Referenced) /\ reference.manager # NoManager
  BY DEF ReferencesMatchHandlers
<1>5. CASE reference.refs = 1
  <2>1. reference' = [manager |-> NoManager, refs |-> 0]
    BY <1>5 DEF Release
  <2>2. Cardinality(Referenced') = 0
    BY <1>3, <1>4, <1>5
  <2>3. Referenced' = {}
    BY <1>2, <2>2, ReferencedFinite, FS_RemoveElement, FS_EmptySet
  <2> QED BY <1>1, <2>1, <2>2, <2>3 DEF ReferencesMatchHandlers, Referenced
<1>6. CASE reference.refs # 1
  <2>1. reference' = [reference EXCEPT !.refs = @ - 1]
    BY <1>6 DEF Release
  <2>2. reference.refs \in Nat /\ reference.refs # 0
    BY <1>4 DEF ReferencesMatchHandlers
  <2>3. reference'.manager = reference.manager /\ reference'.refs = reference.refs - 1
        /\ reference' \in [manager : Nat, refs : Nat]
    BY <2>1, <2>2
  <2>4. HandlersTypeOK'
    BY <1>1, <2>3 DEF Referenced
  <2>5. \A g \in Referenced' : held'[g] = reference.manager
    BY <1>1, <1>2 DEF ReferencesMatchHandlers, Referenced
  <2> QED BY <1>3, <1>4, <1>6, <2>2, <2>3, <2>4, <2>5 DEF ReferencesMatchHandlers
<1> QED BY <1>5, <1>6

(* Requests leave the handlers and the registry alone.                     *)
LEMMA RequestsLeaveReferences ==
  ASSUME NEW r \in Request,
         \/ \E h \in Handler : Enter(r, h)
         \/ Refuse(r) \/ Admit(r) \/ Finish(r) \/ Panic(r)
         \/ \E written \in WriteSize : WriteBody(r, written)
  PROVE  UNCHANGED <<phase, held, reference, opened>>
BY DEF Enter, Refuse, Admit, Finish, Panic, WriteBody, registry, handlers

LEMMA InitHandlersInv == Init => HandlersInv
<1> SUFFICES ASSUME Init PROVE HandlersInv
  OBVIOUS
<1>1. HandlersTypeOK
  BY DEF Init, HandlersTypeOK, NoManager
<1>2. Referenced = {}
  BY DEF Init, Referenced
<1> QED BY <1>1, <1>2, FS_EmptySet DEF HandlersInv, Init, ReferencesMatchHandlers

LEMMA NextHandlersInv == HandlersInv /\ [Next]_vars => HandlersInv'
<1> SUFFICES ASSUME HandlersInv, [Next]_vars PROVE HandlersInv'
  OBVIOUS
<1>1. ASSUME UNCHANGED <<phase, held, reference, opened>> PROVE HandlersInv'
  BY <1>1 DEF HandlersInv, HandlersTypeOK, ReferencesMatchHandlers, Referenced
<1>2. CASE UNCHANGED vars
  BY <1>1, <1>2 DEF vars, registry, handlers
<1>3. ASSUME NEW h \in Handler, Acquire(h) PROVE HandlersInv'
  BY <1>3, AcquireCounts
<1>4. ASSUME NEW h \in Handler, RegistersMetrics(h) PROVE HandlersInv'
  <2>1. Referenced' = Referenced
    BY <1>4 DEF RegistersMetrics, Referenced, HandlersInv, HandlersTypeOK
  <2> QED
    BY <1>4, <2>1
    DEF RegistersMetrics, registry, HandlersInv, HandlersTypeOK, ReferencesMatchHandlers
<1>5. ASSUME NEW h \in Handler, ProvisionFails(h) \/ Cleanup(h) PROVE HandlersInv'
  <2>1. h \in Referenced /\ Release(h)
    BY <1>5 DEF ProvisionFails, Cleanup, Referenced
  <2> QED BY <2>1, ReleaseCounts
<1>6. ASSUME NEW r \in Request,
             \/ \E h \in Handler : Enter(r, h)
             \/ Refuse(r) \/ Admit(r) \/ Finish(r) \/ Panic(r)
             \/ \E written \in WriteSize : WriteBody(r, written)
      PROVE  HandlersInv'
  BY <1>1, <1>6, RequestsLeaveReferences
<1> QED BY <1>2, <1>3, <1>4, <1>5, <1>6 DEF Next

(* The registry counts exactly the handlers that hold its manager          *)
(* (acquireManager, releaseManager), for any handlers and requests.        *)
THEOREM ReferencesAreCounted == Spec => []ReferencesMatchHandlers
  BY InitHandlersInv, NextHandlersInv, PTL DEF Spec, HandlersInv
-----------------------------------------------------------------------------
(* Where the bytes are.  A request that is served has a manager of its     *)
(* own, whether or not the registry still has it; a handler that holds one *)
(* is counted; and no more managers were made than handlers have acquired. *)
Began == {h \in Handler : phase[h] # "new"}

Place == {"new", "captured", "uncounted", "refused", "serving", "ended"}

BooksTypeOK ==
  /\ sent \in [Request -> Nat] /\ pending \in [Request -> Nat]
  /\ counted \in [Manager -> Nat] /\ file \in Nat /\ late \in Nat
  /\ captured \in [Request -> Nat] /\ pc \in [Request -> Place]

Managed ==
  /\ \A r \in Request : Live(r) => captured[r] \in Manager
  /\ \A h \in Handler : held[h] # NoManager => h \in Referenced
  /\ reference.manager \in Manager \cup {NoManager}
  /\ opened <= Cardinality(Began)

Known == IF reference.manager # NoManager THEN counted[reference.manager] ELSE file

BInv == HandlersInv /\ BooksTypeOK /\ Managed /\ ManagerCountsDelivered

LEMMA DeliveredIsInt == BooksTypeOK => Delivered \in Int
<1> SUFFICES ASSUME BooksTypeOK PROVE Delivered \in Int
  OBVIOUS
<1> DEFINE f == [r \in Request |-> sent[r] - pending[r]]
<1>1. \A r \in Request : f[r] \in Int
  BY DEF BooksTypeOK
<1>2. Delivered = SumFunctionOnSet(f, Request)
  BY DEF Delivered
<1> HIDE DEF f
<1> QED BY <1>1, <1>2, SumInt, QuotaHandlersAssumption

(* One request delivers and the others do not. *)
LEMMA DeliveredMoves ==
  ASSUME BooksTypeOK, BooksTypeOK', NEW r \in Request,
         \A q \in Request \ {r} : sent'[q] = sent[q] /\ pending'[q] = pending[q]
  PROVE  Delivered' = Delivered + (sent'[r] - sent[r]) - (pending'[r] - pending[r])
<1>0. PICK f : f = [q \in Request |-> sent[q] - pending[q]]
  OBVIOUS
<1>1. PICK g : g = [q \in Request |-> sent'[q] - pending'[q]]
  OBVIOUS
<1>2. Delivered = SumFunctionOnSet(f, Request)
  BY <1>0 DEF Delivered
<1>3. Delivered' = SumFunctionOnSet(g, Request)
  BY <1>1 DEF Delivered
<1>4. /\ \A q \in Request : f[q] \in Int
      /\ g[r] \in Int
      /\ \A q \in Request \ {r} : g[q] = f[q]
  BY <1>0, <1>1 DEF BooksTypeOK
<1>5. SumFunctionOnSet(g, Request) = SumFunctionOnSet(f, Request) - f[r] + g[r]
  BY <1>4, SumUpdate, QuotaHandlersAssumption
<1>6. f[r] = sent[r] - pending[r] /\ g[r] = sent'[r] - pending'[r]
  BY <1>0, <1>1
<1>7. /\ sent[r] \in Nat /\ pending[r] \in Nat /\ Delivered \in Int
      /\ sent'[r] \in Nat /\ pending'[r] \in Nat
  BY DeliveredIsInt DEF BooksTypeOK
<1> QED BY <1>2, <1>3, <1>5, <1>6, <1>7

(* What is recorded is known to the shared manager, or came too late.      *)
LEMMA RecordIsKnownOrLate ==
  ASSUME BooksTypeOK, NEW m \in Manager, NEW amount \in Nat,
         RecordBytes(m, amount), UNCHANGED <<reference, file>>,
         reference.manager \in Manager \cup {NoManager}
  PROVE  /\ counted' \in [Manager -> Nat] /\ late' \in Nat
         /\ Known' - Known + late' - late = amount
<1>1. counted' = [counted EXCEPT ![m] = @ + amount]
  BY DEF RecordBytes
<1>2. counted' \in [Manager -> Nat] /\ \A k \in Manager \ {m} : counted'[k] = counted[k]
  BY <1>1 DEF BooksTypeOK
<1>2a. counted'[m] = counted[m] + amount /\ counted[m] \in Nat
  BY <1>1 DEF BooksTypeOK
<1>3. CASE m = reference.manager
  <2>1. late' = late /\ late \in Nat
    BY <1>3 DEF RecordBytes, BooksTypeOK
  <2>2. reference.manager # NoManager
    BY <1>3 DEF Manager, NoManager
  <2>3. Known' = counted'[m] /\ Known = counted[m]
    BY <1>3, <2>2 DEF Known
  <2> QED BY <1>2, <1>2a, <2>1, <2>3
<1>4. CASE m # reference.manager
  <2>1. late' = late + amount /\ late \in Nat
    BY <1>4 DEF RecordBytes, BooksTypeOK
  <2>2. Known' = Known /\ Known \in Nat
    BY <1>2, <1>4 DEF Known, BooksTypeOK
  <2> QED BY <1>2, <2>1, <2>2
<1> QED BY <1>3, <1>4

(* A step that leaves responses, counts and the registry alone.            *)
LEMMA NothingCounted ==
  ASSUME BooksTypeOK, ManagerCountsDelivered, captured' \in [Request -> Nat],
         pc' \in [Request -> Place],
         UNCHANGED <<sent, pending, counted, file, late, reference>>
  PROVE  BooksTypeOK' /\ ManagerCountsDelivered'
<1>1. BooksTypeOK'
  BY DEF BooksTypeOK
<1>2. Delivered' = Delivered
  BY DEF Delivered
<1> QED BY <1>1, <1>2 DEF ManagerCountsDelivered

LEMMA AcquireKeepsBooks ==
  ASSUME BInv, NEW h \in Handler, Acquire(h)
  PROVE  BooksTypeOK' /\ Managed' /\ ManagerCountsDelivered'
<1> USE DEF NoManager
<1>1. /\ BooksTypeOK /\ Managed /\ ManagerCountsDelivered
      /\ HandlersTypeOK /\ ReferencesMatchHandlers
  BY DEF BInv, HandlersInv
<1>2. /\ phase[h] = "new" /\ phase' = [phase EXCEPT ![h] = "acquired"]
      /\ UNCHANGED <<file, late, pc, via, captured, success, sent, pending>>
  BY DEF Acquire, requests
<1>3. Delivered' = Delivered
  BY <1>2 DEF Delivered
<1>4. /\ Referenced' = Referenced \cup {h} /\ h \notin Referenced
      /\ Began' = Began \cup {h} /\ h \notin Began /\ Began \in SUBSET Handler
  BY <1>1, <1>2 DEF Referenced, Began, HandlersTypeOK
<1>5. /\ IsFiniteSet(Began) /\ Cardinality(Began) \in Nat
      /\ Cardinality(Began') = Cardinality(Began) + 1
      /\ Began' \in SUBSET Handler
  <2>1. IsFiniteSet(Began)
    BY <1>4, FS_Subset, QuotaHandlersAssumption
  <2> QED BY <1>4, <2>1, FS_CardinalityType, FS_AddElement
<1>6. CASE reference.manager # NoManager
  <2>1. /\ reference' = [reference EXCEPT !.refs = @ + 1]
        /\ held' = [held EXCEPT ![h] = reference.manager]
        /\ opened' = opened /\ counted' = counted
    BY <1>6 DEF Acquire
  <2>2. reference'.manager = reference.manager
    BY <1>1, <2>1 DEF HandlersTypeOK
  <2>3. BooksTypeOK' /\ ManagerCountsDelivered'
    BY <1>1, <1>2, <1>3, <2>1, <2>2 DEF BooksTypeOK, ManagerCountsDelivered
  <2>4. \A r \in Request : Live(r)' => captured'[r] \in Manager
    BY <1>1, <1>2 DEF Managed, Live
  <2>5. \A g \in Handler : held'[g] # NoManager => g \in Referenced'
    BY <1>1, <1>4, <2>1 DEF Managed, HandlersTypeOK
  <2>6. opened' <= Cardinality(Began')
    BY <1>1, <1>5, <2>1 DEF Managed, HandlersTypeOK
  <2> QED BY <1>1, <2>2, <2>3, <2>4, <2>5, <2>6 DEF Managed
<1>7. CASE reference.manager = NoManager
  <2>1. /\ reference' = [manager |-> opened + 1, refs |-> 1]
        /\ held' = [held EXCEPT ![h] = opened + 1]
        /\ opened' = opened + 1
        /\ counted' = [counted EXCEPT ![opened + 1] = file]
    BY <1>7 DEF Acquire
  <2>2. opened' <= Cardinality(Began') /\ opened + 1 \in Nat \ {0}
    BY <1>1, <1>5, <2>1 DEF Managed, HandlersTypeOK
  <2>3. opened + 1 \in Manager
    <3>1. Cardinality(Began') <= Cardinality(Handler) /\ Cardinality(Handler) \in Nat
      BY <1>5, FS_Subset, FS_CardinalityType, QuotaHandlersAssumption
    <3> QED BY <1>5, <2>1, <2>2, <3>1 DEF Manager
  <2>4. reference'.manager = opened + 1 /\ counted'[opened + 1] = file
    BY <1>1, <2>1, <2>3 DEF BooksTypeOK
  <2>5. BooksTypeOK'
    BY <1>1, <1>2, <2>1, <2>3 DEF BooksTypeOK
  <2>6. ManagerCountsDelivered'
    <3>1. Delivered - late = file
      BY <1>1, <1>7 DEF ManagerCountsDelivered
    <3> QED BY <1>2, <1>3, <2>2, <2>4, <3>1 DEF ManagerCountsDelivered
  <2>7. \A r \in Request : Live(r)' => captured'[r] \in Manager
    BY <1>1, <1>2 DEF Managed, Live
  <2>8. \A g \in Handler : held'[g] # NoManager => g \in Referenced'
    BY <1>1, <1>4, <2>1 DEF Managed, HandlersTypeOK
  <2> QED BY <2>2, <2>3, <2>4, <2>5, <2>6, <2>7, <2>8 DEF Managed
<1> QED BY <1>6, <1>7

LEMMA ReleaseKeepsBooks ==
  ASSUME BInv, NEW h \in Referenced, Release(h)
  PROVE  BooksTypeOK' /\ Managed' /\ ManagerCountsDelivered'
<1> USE DEF NoManager
<1>1. /\ BooksTypeOK /\ Managed /\ ManagerCountsDelivered
      /\ HandlersTypeOK /\ ReferencesMatchHandlers
  BY DEF BInv, HandlersInv
<1>2. /\ phase' = [phase EXCEPT ![h] = "cleaned"] /\ h \in Handler
      /\ held' = [held EXCEPT ![h] = NoManager]
      /\ UNCHANGED <<opened, counted, late, pc, via, captured, success, sent, pending>>
  BY DEF Release, books, requests, Referenced
<1>3. Delivered' = Delivered
  BY <1>2 DEF Delivered
<1>4. Referenced' = Referenced \ {h} /\ Began' = Began
  BY <1>1, <1>2 DEF Referenced, Began, HandlersTypeOK
<1>5. held[h] = reference.manager /\ reference.manager \in Manager
      /\ reference.manager # NoManager
  BY <1>1 DEF ReferencesMatchHandlers, Managed
<1>6. /\ \A r \in Request : Live(r)' => captured'[r] \in Manager
      /\ \A g \in Handler : held'[g] # NoManager => g \in Referenced'
      /\ opened' <= Cardinality(Began')
  <2>1. \A r \in Request : Live(r)' => captured'[r] \in Manager
    BY <1>1, <1>2 DEF Managed, Live
  <2>2. \A g \in Handler : held'[g] # NoManager => g \in Referenced'
    BY <1>1, <1>2, <1>4 DEF Managed, HandlersTypeOK
  <2>3. opened' <= Cardinality(Began')
    BY <1>1, <1>2, <1>4 DEF Managed
  <2> QED BY <2>1, <2>2, <2>3
<1>7. CASE reference.refs = 1
  <2>1. reference' = [manager |-> NoManager, refs |-> 0] /\ file' = counted[held[h]]
    BY <1>7 DEF Release
  <2>2. reference'.manager = NoManager /\ file' = counted[reference.manager]
    BY <1>5, <2>1
  <2>3. BooksTypeOK'
    BY <1>1, <1>2, <1>5, <2>2 DEF BooksTypeOK
  <2>4. ManagerCountsDelivered'
    BY <1>1, <1>2, <1>3, <1>5, <2>2 DEF ManagerCountsDelivered
  <2> QED BY <1>6, <2>2, <2>3, <2>4 DEF Managed
<1>8. CASE reference.refs # 1
  <2>1. reference' = [reference EXCEPT !.refs = @ - 1] /\ file' = file
    BY <1>8 DEF Release
  <2>2. reference'.manager = reference.manager
    BY <1>1, <2>1 DEF HandlersTypeOK
  <2>3. BooksTypeOK'
    BY <1>1, <1>2, <2>1 DEF BooksTypeOK
  <2>4. ManagerCountsDelivered'
    BY <1>1, <1>2, <1>3, <2>1, <2>2 DEF ManagerCountsDelivered
  <2> QED BY <1>5, <1>6, <2>2, <2>3, <2>4 DEF Managed
<1> QED BY <1>7, <1>8

(* A request captures the manager of its handler, if the handler has one.  *)
LEMMA EnterKeepsBooks ==
  ASSUME BInv, NEW r \in Request, NEW h \in Handler, Enter(r, h)
  PROVE  BooksTypeOK' /\ Managed' /\ ManagerCountsDelivered'
<1>1. /\ BooksTypeOK /\ Managed /\ ManagerCountsDelivered
      /\ HandlersTypeOK /\ ReferencesMatchHandlers
  BY DEF BInv, HandlersInv
<1>2. /\ captured' = [captured EXCEPT ![r] = held[h]]
      /\ pc' = [pc EXCEPT ![r] = IF held[h] = NoManager THEN "uncounted"
                                 ELSE "captured"]
      /\ UNCHANGED <<reference, opened, file, phase, held, counted, late,
                     success, sent, pending>>
  BY DEF Enter, registry, handlers, books
<1>3. captured' \in [Request -> Nat] /\ pc' \in [Request -> Place]
  BY <1>1, <1>2 DEF BooksTypeOK, HandlersTypeOK, Place
<1>4. BooksTypeOK' /\ ManagerCountsDelivered'
  BY <1>1, <1>2, <1>3, NothingCounted
<1>5. \A q \in Request : Live(q)' => captured'[q] \in Manager
  <2>1. CASE held[h] = NoManager
    <3>1. \A q \in Request : Live(q)' => q # r /\ Live(q) /\ captured'[q] = captured[q]
      BY <1>1, <1>2, <2>1 DEF Live, BooksTypeOK
    <3> QED BY <1>1, <3>1 DEF Managed
  <2>2. CASE held[h] # NoManager
    <3>1. held[h] \in Manager
      BY <1>1, <2>2 DEF Managed, ReferencesMatchHandlers
    <3>2. \A q \in Request \ {r} : Live(q)' <=> Live(q)
      BY <1>1, <1>2 DEF Live, BooksTypeOK
    <3>3. \A q \in Request \ {r} : captured'[q] = captured[q]
      BY <1>1, <1>2 DEF BooksTypeOK
    <3>4. captured'[r] = held[h]
      BY <1>1, <1>2 DEF BooksTypeOK
    <3> QED BY <1>1, <3>1, <3>2, <3>3, <3>4 DEF Managed
  <2> QED BY <2>1, <2>2
<1> QED BY <1>1, <1>2, <1>4, <1>5 DEF Managed, Referenced, Began

(* The steps of a request that deliver nothing. *)
LEMMA QuietKeepsBooks ==
  ASSUME BInv, NEW r \in Request, Refuse(r) \/ Admit(r) \/ Panic(r)
  PROVE  BooksTypeOK' /\ Managed' /\ ManagerCountsDelivered'
<1>1. BooksTypeOK /\ Managed /\ ManagerCountsDelivered
  BY DEF BInv
<1>2. /\ UNCHANGED <<reference, opened, file, phase, held, counted, late,
                     captured, sent, pending>>
      /\ pc[r] \in {"captured", "serving"}
      /\ \E place \in Place : pc' = [pc EXCEPT ![r] = place]
  BY DEF Refuse, Admit, Panic, registry, handlers, books, Place
<1>2a. /\ pc' \in [Request -> Place] /\ Live(r)
       /\ \A q \in Request \ {r} : Live(q)' <=> Live(q)
  BY <1>1, <1>2 DEF BooksTypeOK, Live
<1>3. BooksTypeOK' /\ ManagerCountsDelivered'
  BY <1>1, <1>2, <1>2a, NothingCounted DEF BooksTypeOK
<1> QED BY <1>1, <1>2, <1>2a, <1>3 DEF Managed, Referenced, Began

(* A response delivers more, or its last pending bytes are recorded.       *)
LEMMA ServingKeepsBooks ==
  ASSUME BInv, NEW r \in Request,
         Finish(r) \/ \E written \in WriteSize : WriteBody(r, written)
  PROVE  BooksTypeOK' /\ Managed' /\ ManagerCountsDelivered'
<1>1. BooksTypeOK /\ Managed /\ ManagerCountsDelivered /\ HandlersTypeOK
  BY DEF BInv, HandlersInv
<1>2. /\ UNCHANGED <<reference, opened, file, phase, held, captured, via, success>>
      /\ pc[r] = "serving"
      /\ \E place \in Place : pc' = [pc EXCEPT ![r] = place]
  <2>1. CASE Finish(r)
    BY <2>1 DEF Finish, registry, handlers, Place
  <2>2. ASSUME NEW written \in WriteSize, WriteBody(r, written)
        PROVE  /\ UNCHANGED <<reference, opened, file, phase, held, captured,
                               via, success, pc>>
               /\ pc[r] = "serving"
    BY <2>2 DEF WriteBody, registry, handlers
  <2>3. pc = [pc EXCEPT ![r] = pc[r]]
    BY <1>1 DEF BooksTypeOK
  <2> QED BY <2>1, <2>2, <2>3 DEF Place
<1>2a. /\ pc' \in [Request -> Place] /\ Live(r)
       /\ \A q \in Request \ {r} : Live(q)' <=> Live(q)
  BY <1>1, <1>2 DEF BooksTypeOK, Live
<1>3. /\ captured[r] \in Manager /\ reference.manager \in Manager \cup {NoManager}
      /\ captured' \in [Request -> Nat] /\ file' \in Nat
  BY <1>1, <1>2, <1>2a DEF Managed, BooksTypeOK
<1>4. Managed'
  BY <1>1, <1>2, <1>2a DEF Managed, Referenced, Began
<1>n. /\ sent[r] \in Nat /\ pending[r] \in Nat /\ late \in Nat
      /\ Delivered \in Int /\ Known \in Int
  BY <1>1, <1>3, DeliveredIsInt DEF BooksTypeOK, Known
<1>k. Delivered - late = Known
  BY <1>1 DEF ManagerCountsDelivered, Known
<1>5. ASSUME NEW amount \in Nat, RecordBytes(captured[r], amount),
             sent' \in [Request -> Nat], pending' \in [Request -> Nat],
             \A q \in Request \ {r} : sent'[q] = sent[q] /\ pending'[q] = pending[q],
             (sent'[r] - sent[r]) - (pending'[r] - pending[r]) = amount
      PROVE  BooksTypeOK' /\ ManagerCountsDelivered'
  <2>1. /\ counted' \in [Manager -> Nat] /\ late' \in Nat
        /\ Known' - Known + late' - late = amount
    BY <1>1, <1>2, <1>3, <1>5, RecordIsKnownOrLate
  <2>2. BooksTypeOK'
    BY <1>2a, <1>3, <1>5, <2>1 DEF BooksTypeOK
  <2>3. Delivered' = Delivered + (sent'[r] - sent[r]) - (pending'[r] - pending[r])
    BY <1>1, <1>5, <2>2, DeliveredMoves
  <2>4. Known' \in Int /\ sent'[r] \in Nat /\ pending'[r] \in Nat
    BY <1>2, <1>3, <1>5, <2>1, <2>2 DEF Known, BooksTypeOK
  <2>4a. /\ late' \in Nat /\ amount \in Nat
         /\ (sent'[r] - sent[r]) - (pending'[r] - pending[r]) = amount
    BY <1>5, <2>1
  <2>5. Delivered' - late' = Known'
    BY ONLY <1>n, <1>k, <2>1, <2>3, <2>4, <2>4a
  <2> QED BY <2>2, <2>5 DEF ManagerCountsDelivered, Known
<1>6. ASSUME Finish(r) PROVE BooksTypeOK' /\ ManagerCountsDelivered'
  <2>1. /\ RecordBytes(captured[r], pending[r])
        /\ pending' = [pending EXCEPT ![r] = 0] /\ sent' = sent
    BY <1>6 DEF Finish
  <2>2. /\ sent' \in [Request -> Nat] /\ pending' \in [Request -> Nat]
        /\ \A q \in Request \ {r} : sent'[q] = sent[q] /\ pending'[q] = pending[q]
        /\ sent'[r] = sent[r] /\ pending'[r] = 0
    BY <1>1, <2>1 DEF BooksTypeOK
  <2>3. (sent'[r] - sent[r]) - (pending'[r] - pending[r]) = pending[r]
    BY <1>n, <2>2
  <2> QED BY <1>5, <1>n, <2>1, <2>2, <2>3
<1>7. ASSUME NEW written \in WriteSize, WriteBody(r, written)
      PROVE  BooksTypeOK' /\ ManagerCountsDelivered'
  <2>0. written \in Nat
    BY QuotaHandlersAssumption
  <2>1. CASE ~success[r]
    <3>1. UNCHANGED <<counted, late, pending, sent>>
      BY <1>7, <2>1 DEF WriteBody, books
    <3> QED BY <1>1, <1>2, <1>2a, <1>3, <3>1, NothingCounted
  <2>2. CASE success[r]
    <3> DEFINE due == pending[r] + written
    <3>1. Account(r, written) /\ sent' = [sent EXCEPT ![r] = @ + written]
      BY <1>7, <2>2 DEF WriteBody
    <3>2. /\ sent' \in [Request -> Nat] /\ sent'[r] = sent[r] + written
          /\ \A q \in Request \ {r} : sent'[q] = sent[q]
      BY <1>1, <2>0, <3>1 DEF BooksTypeOK
    <3>3. CASE due >= Chunk
      <4>1. /\ RecordBytes(captured[r], due)
            /\ pending' = [pending EXCEPT ![r] = 0]
        BY <3>1, <3>3 DEF Account
      <4>2. /\ pending' \in [Request -> Nat] /\ pending'[r] = 0
            /\ \A q \in Request \ {r} : pending'[q] = pending[q]
        BY <1>1, <4>1 DEF BooksTypeOK
      <4>3. /\ due \in Nat
            /\ (sent'[r] - sent[r]) - (pending'[r] - pending[r]) = due
        BY <1>n, <2>0, <3>2, <4>2
      <4> HIDE DEF due
      <4> QED BY <1>5, <3>2, <4>1, <4>2, <4>3
    <3>4. CASE ~(due >= Chunk)
      <4>1. pending' = [pending EXCEPT ![r] = due] /\ UNCHANGED <<counted, late>>
        BY <3>1, <3>4 DEF Account, books
      <4>2. /\ pending' \in [Request -> Nat] /\ pending'[r] = pending[r] + written
            /\ \A q \in Request \ {r} : pending'[q] = pending[q]
        BY <1>1, <1>n, <2>0, <4>1 DEF BooksTypeOK
      <4>3. BooksTypeOK'
        BY <1>1, <1>2a, <1>3, <3>2, <4>1, <4>2 DEF BooksTypeOK
      <4>4. Delivered' = Delivered + (sent'[r] - sent[r]) - (pending'[r] - pending[r])
        BY <1>1, <3>2, <4>2, <4>3, DeliveredMoves
      <4>5. Delivered' = Delivered
        BY <1>n, <2>0, <3>2, <4>2, <4>4
      <4>6. Known' = Known /\ late' = late
        BY <1>2, <4>1 DEF Known
      <4> QED BY <1>k, <4>3, <4>5, <4>6 DEF ManagerCountsDelivered, Known
    <3> QED BY <3>3, <3>4
  <2> QED BY <2>1, <2>2
<1> QED BY <1>4, <1>6, <1>7

(* The shared manager knows what every request of every handler has        *)
(* delivered, before and after the configurations it survives: acquire-    *)
(* Manager, releaseManager, account and flushAccount, in any interleaving. *)
THEOREM DeliveredIsCounted == Spec => []ManagerCountsDelivered
<1>1. Init => BooksTypeOK /\ Managed /\ ManagerCountsDelivered
  <2> SUFFICES ASSUME Init PROVE BooksTypeOK /\ Managed /\ ManagerCountsDelivered
    OBVIOUS
  <2>1. /\ counted = [m \in Manager |-> 0] /\ file = 0 /\ late = 0 /\ opened = 0
        /\ captured = [r \in Request |-> NoManager]
        /\ sent = [r \in Request |-> 0] /\ pending = [r \in Request |-> 0]
        /\ reference = [manager |-> NoManager, refs |-> 0]
        /\ held = [h \in Handler |-> NoManager]
        /\ pc = [r \in Request |-> "new"]
    BY DEF Init
  <2>2. BooksTypeOK
    BY <2>1 DEF BooksTypeOK, NoManager, Place
  <2>3. Managed
    <3>1. \A r \in Request : ~Live(r)
      BY DEF Init, Live
    <3>2. Began = {}
      BY DEF Init, Began
    <3>3. Cardinality(Began) = 0
      BY <3>2, FS_EmptySet
    <3> QED BY <2>1, <3>1, <3>3 DEF Managed
  <2>4. Delivered = 0
    <3>1. PICK f : f = [r \in Request |-> sent[r] - pending[r]]
      OBVIOUS
    <3>2. \A r \in Request : f[r] = 0
      BY <2>1, <3>1
    <3>3. SumFunctionOnSet(f, Request) = 0
      BY <3>2, SumZero, QuotaHandlersAssumption
    <3> QED BY <3>1, <3>3 DEF Delivered
  <2>5. ManagerCountsDelivered
    BY <2>1, <2>4 DEF ManagerCountsDelivered, NoManager
  <2> QED BY <2>2, <2>3, <2>5
<1>2. BInv /\ [Next]_vars => BooksTypeOK' /\ Managed' /\ ManagerCountsDelivered'
  <2> SUFFICES ASSUME BInv, [Next]_vars
               PROVE  BooksTypeOK' /\ Managed' /\ ManagerCountsDelivered'
    OBVIOUS
  <2>1. ASSUME UNCHANGED <<registry, held, books, requests>>,
               Referenced' = Referenced, Began' = Began
        PROVE  BooksTypeOK' /\ Managed' /\ ManagerCountsDelivered'
    <3>1. BooksTypeOK /\ Managed /\ ManagerCountsDelivered
      BY DEF BInv
    <3>2. UNCHANGED <<reference, opened, file, held, counted, late, pc, via,
                      captured, success, sent, pending>>
      BY <2>1 DEF registry, books, requests
    <3>3. BooksTypeOK' /\ ManagerCountsDelivered'
      BY <3>1, <3>2, NothingCounted DEF BooksTypeOK
    <3> QED BY <2>1, <3>1, <3>2, <3>3 DEF Managed, Live
  <2>2. CASE UNCHANGED vars
    BY <2>1, <2>2 DEF vars, handlers, Referenced, Began
  <2>3. ASSUME NEW h \in Handler, Acquire(h)
        PROVE  BooksTypeOK' /\ Managed' /\ ManagerCountsDelivered'
    BY <2>3, AcquireKeepsBooks
  <2>4. ASSUME NEW h \in Handler, RegistersMetrics(h)
        PROVE  BooksTypeOK' /\ Managed' /\ ManagerCountsDelivered'
    <3>1. Referenced' = Referenced /\ Began' = Began
      BY <2>4 DEF RegistersMetrics, Referenced, Began, BInv, HandlersInv, HandlersTypeOK
    <3> QED BY <2>1, <2>4, <3>1 DEF RegistersMetrics
  <2>5. ASSUME NEW h \in Handler, ProvisionFails(h) \/ Cleanup(h)
        PROVE  BooksTypeOK' /\ Managed' /\ ManagerCountsDelivered'
    <3>1. h \in Referenced /\ Release(h)
      BY <2>5 DEF ProvisionFails, Cleanup, Referenced
    <3> QED BY <3>1, ReleaseKeepsBooks
  <2>6. ASSUME NEW r \in Request, NEW h \in Handler, Enter(r, h)
        PROVE  BooksTypeOK' /\ Managed' /\ ManagerCountsDelivered'
    BY <2>6, EnterKeepsBooks
  <2>7. ASSUME NEW r \in Request, Refuse(r) \/ Admit(r) \/ Panic(r)
        PROVE  BooksTypeOK' /\ Managed' /\ ManagerCountsDelivered'
    BY <2>7, QuietKeepsBooks
  <2>8. ASSUME NEW r \in Request,
               Finish(r) \/ \E written \in WriteSize : WriteBody(r, written)
        PROVE  BooksTypeOK' /\ Managed' /\ ManagerCountsDelivered'
    BY <2>8, ServingKeepsBooks
  <2> QED BY <2>2, <2>3, <2>4, <2>5, <2>6, <2>7, <2>8 DEF Next
<1> QED BY <1>1, <1>2, InitHandlersInv, NextHandlersInv, PTL DEF Spec, BInv
-----------------------------------------------------------------------------
(* The rate limiter. *)
Spacing == Window - MaxWait + 1   (* windows begin at least so far apart   *)
Reach   == Window + MaxWait       (* and admit for so long                 *)

(* How many windows can begin between first and last.                      *)
Starts(first, last) ==
  IF last < first THEN 0 ELSE (last - first) \div Spacing + 1

LEMMA DivIs ==
  ASSUME NEW n \in Nat, NEW d \in Nat \ {0}
  PROVE  n \div d \in Nat /\ d * (n \div d) <= n /\ n < d * (n \div d + 1)
  OBVIOUS

LEMMA DivMonotone ==
  ASSUME NEW m \in Nat, NEW n \in Nat, NEW d \in Nat \ {0}, m <= n
  PROVE  m \div d <= n \div d
<1>1. /\ m \div d \in Nat /\ d * (m \div d) <= m
      /\ n \div d \in Nat /\ n < d * (n \div d + 1)
  BY DivIs
<1>2. \A p, q \in Int : d * p <= n /\ n < d * (q + 1) => p <= q
  OBVIOUS
<1>3. d * (m \div d) <= n
  <2>1. d * (m \div d) \in Int
    BY <1>1
  <2> QED BY <1>1, <2>1
<1> QED BY <1>1, <1>2, <1>3

LEMMA ConstantsOK ==
  /\ Spacing \in Nat \ {0} /\ Reach \in Nat /\ Requests \in Nat \ {0}
  /\ Window \in Nat \ {0} /\ MaxWait \in Nat /\ MaxWait <= Window
  /\ LastSecond \in Nat
  BY RateLimiterAssumption DEF Spacing, Reach

LEMMA StartsNat ==
  ASSUME NEW x \in Int, NEW e \in Int
  PROVE  Starts(x, e) \in Nat
<1>1. CASE e < x
  BY <1>1 DEF Starts
<1>2. CASE ~(e < x)
  <2>1. e - x \in Nat
    BY <1>2
  <2>2. (e - x) \div Spacing \in Nat
    BY <2>1, ConstantsOK, DivIs
  <2> QED BY <1>2, <2>2 DEF Starts
<1> QED BY <1>1, <1>2

LEMMA StartsMonotone ==
  ASSUME NEW x \in Int, NEW d \in Int, NEW e \in Int, d <= e
  PROVE  Starts(x, d) <= Starts(x, e)
<1>1. CASE d < x
  BY <1>1, StartsNat DEF Starts
<1>2. CASE ~(d < x)
  <2>1. d - x \in Nat /\ e - x \in Nat /\ d - x <= e - x /\ ~(e < x)
    BY <1>2
  <2>2. (d - x) \div Spacing <= (e - x) \div Spacing
    BY <2>1, ConstantsOK, DivMonotone
  <2>3. (d - x) \div Spacing \in Nat /\ (e - x) \div Spacing \in Nat
    BY <2>1, ConstantsOK, DivIs
  <2> QED BY <1>2, <2>1, <2>2, <2>3 DEF Starts
<1> QED BY <1>1, <1>2

(* A window that begins at w is one more than those a spacing earlier.     *)
LEMMA StartsOneMore ==
  ASSUME NEW x \in Int, NEW w \in Int, x <= w
  PROVE  Starts(x, w - Spacing) + 1 <= Starts(x, w)
<1>0. w - Spacing \in Int /\ w - x \in Nat /\ ~(w < x)
  BY ConstantsOK
<1>1. Starts(x, w) = (w - x) \div Spacing + 1 /\ (w - x) \div Spacing \in Nat
  BY <1>0, ConstantsOK, DivIs DEF Starts
<1>2. CASE w - Spacing < x
  <2>1. Starts(x, w - Spacing) = 0
    BY <1>2 DEF Starts
  <2> QED BY <1>1, <2>1
<1>3. CASE ~(w - Spacing < x)
  <2> DEFINE n == w - Spacing - x
  <2>1. n \in Nat /\ n + Spacing = w - x
    BY <1>0, <1>3, ConstantsOK
  <2>2. Starts(x, w - Spacing) = n \div Spacing + 1
    BY <1>3 DEF Starts
  <2> HIDE DEF n
  <2>3. \A d \in Nat \ {0} : (n + d) \div d = n \div d + 1
    BY <2>1
  <2>4. (n + Spacing) \div Spacing = n \div Spacing + 1 /\ n \div Spacing \in Nat
    BY <2>1, <2>3, ConstantsOK, DivIs
  <2> QED BY <1>1, <2>1, <2>2, <2>4
<1> QED BY <1>2, <1>3
-----------------------------------------------------------------------------
(* What number of requests can have been admitted between a and b when the *)
(* last window began at w and has admitted count.                          *)
BoundedBy(number, count, w, a, b) ==
  /\ b < w => number <= Requests * Starts(a - Reach, b)
  /\ a - Reach <= w /\ w <= b =>
       number <= Requests * Starts(a - Reach, w - Spacing) + count
  /\ w < a - Reach => number = 0

LEMMA ProductMonotone ==
  ASSUME NEW p \in Nat, NEW q \in Nat, p <= q
  PROVE  Requests * p \in Nat /\ Requests * p <= Requests * q
<1>1. \A d \in Nat \ {0} : d * p \in Nat /\ d * p <= d * q
  OBVIOUS
<1> QED BY <1>1, ConstantsOK

LEMMA ProductNat ==
  ASSUME NEW x \in Int, NEW e \in Int
  PROVE  Requests * Starts(x, e) \in Nat
<1>1. Starts(x, e) \in Nat
  BY StartsNat
<1> QED BY <1>1, ProductMonotone

(* A window that is full is one that began. *)
LEMMA FullWindow ==
  ASSUME NEW x \in Int, NEW w \in Int, x <= w, NEW e \in Int, w <= e,
         NEW number \in Nat, NEW count \in Nat, count <= Requests,
         number <= Requests * Starts(x, w - Spacing) + count
  PROVE  number <= Requests * Starts(x, e)
<1> DEFINE p == Starts(x, w - Spacing)
           q == Starts(x, e)
<1>0. w - Spacing \in Int
  BY ConstantsOK
<1>1. p \in Nat /\ q \in Nat
  BY <1>0, StartsNat
<1>2. p + 1 <= q
  <2>1. p + 1 <= Starts(x, w) /\ Starts(x, w) <= q
    BY StartsOneMore, StartsMonotone
  <2> QED BY <1>1, <2>1, StartsNat
<1>3. number <= Requests * p + count
  OBVIOUS
<1> HIDE DEF p, q
<1>4. Requests * (p + 1) <= Requests * q /\ Requests * q \in Nat
  BY <1>1, <1>2, ProductMonotone
<1>5. \A d \in Nat \ {0} : d * (p + 1) = d * p + d /\ d * p \in Nat
  BY <1>1
<1>6. Requests * (p + 1) = Requests * p + Requests /\ Requests * p \in Nat
  BY <1>5, ConstantsOK
<1>7. Requests \in Nat
  BY ConstantsOK
<1>8. number <= Requests * q
  BY <1>3, <1>4, <1>6, <1>7
<1> QED BY <1>8 DEF q

(* The next window. *)
LEMMA NextWindow ==
  ASSUME NEW w \in Int, NEW v \in Int, w + Spacing <= v,
         NEW a \in Int, NEW b \in Int,
         NEW number \in Nat, NEW count \in Nat, count <= Requests,
         BoundedBy(number, count, w, a, b)
  PROVE  BoundedBy(number, 0, v, a, b)
<1> DEFINE x == a - Reach
<1>1. x \in Int /\ w <= v - Spacing /\ v - Spacing \in Int /\ w < v
      /\ w - Spacing \in Int
  BY ConstantsOK
<1>2. /\ b < w => number <= Requests * Starts(x, b)
      /\ x <= w /\ w <= b => number <= Requests * Starts(x, w - Spacing) + count
      /\ w < x => number = 0
  BY DEF BoundedBy
<1> SUFFICES /\ b < v => number <= Requests * Starts(x, b)
             /\ x <= v /\ v <= b => number <= Requests * Starts(x, v - Spacing) + 0
             /\ v < x => number = 0
  BY DEF BoundedBy
<1> HIDE DEF x
<1>3. /\ Requests * Starts(x, b) \in Nat
      /\ Requests * Starts(x, v - Spacing) \in Nat
  BY <1>1, ProductNat
<1>4. ASSUME b < v PROVE number <= Requests * Starts(x, b)
  <2>1. CASE x <= w /\ w <= b
    BY <1>1, <1>2, <2>1, FullWindow
  <2> QED BY <1>1, <1>2, <1>3, <2>1
<1>5. ASSUME x <= v, v <= b PROVE number <= Requests * Starts(x, v - Spacing) + 0
  <2>1. CASE x <= w
    <3>1. number <= Requests * Starts(x, w - Spacing) + count
      BY <1>1, <1>2, <1>5, <2>1
    <3>2. number <= Requests * Starts(x, v - Spacing)
      BY <1>1, <2>1, <3>1, FullWindow
    <3> QED BY <1>3, <3>2
  <2>2. CASE w < x
    BY <1>2, <1>3, <2>2
  <2> QED BY <1>1, <2>1, <2>2
<1>6. ASSUME v < x PROVE number = 0
  BY <1>1, <1>2, <1>6
<1> QED BY <1>4, <1>5, <1>6

(* One request more of the last window, at time c. *)
LEMMA OneMore ==
  ASSUME NEW w \in Int, NEW a \in Int, NEW b \in Int, NEW c \in Int,
         w <= c, c <= w + Reach, NEW number \in Nat, NEW count \in Nat,
         BoundedBy(number, count, w, a, b)
  PROVE  BoundedBy(IF a <= c /\ c <= b THEN number + 1 ELSE number,
                   count + 1, w, a, b)
<1>1. a - Reach \in Int /\ Reach \in Nat /\ w - Spacing \in Int
  BY ConstantsOK
<1>2. Requests * Starts(a - Reach, w - Spacing) \in Nat
  BY <1>1, ProductNat
<1> QED BY <1>1, <1>2 DEF BoundedBy
-----------------------------------------------------------------------------
(* What was admitted. *)
Between(first, last) == {s \in 0 .. LastSecond : first <= s /\ s <= last}

LEMMA BetweenFinite ==
  ASSUME NEW a, NEW b
  PROVE  IsFiniteSet(Between(a, b)) /\ AdmittedFrom(a, b) = SumFunctionOnSet(admitted, Between(a, b))
<1>1. IsFiniteSet(0 .. LastSecond)
  BY ConstantsOK, FS_Interval
<1>2. Between(a, b) \in SUBSET (0 .. LastSecond)
  BY DEF Between
<1> QED BY <1>1, <1>2, FS_Subset DEF AdmittedFrom, Between

LEMMA AdmittedNat ==
  ASSUME admitted \in [0 .. LastSecond -> Nat], NEW a, NEW b
  PROVE  AdmittedFrom(a, b) \in Nat
<1>1. \A s \in Between(a, b) : admitted[s] \in Nat
  BY DEF Between
<1> QED BY <1>1, BetweenFinite, SumNat

LEMMA AdmittedMonotone ==
  ASSUME admitted \in [0 .. LastSecond -> Nat],
         NEW a \in Int, NEW b \in Int, NEW c \in Int, NEW d \in Int,
         c <= a, b <= d
  PROVE  AdmittedFrom(a, b) <= AdmittedFrom(c, d)
<1>1. \A s \in Between(c, d) : admitted[s] \in Nat
  BY DEF Between
<1>2. Between(a, b) \in SUBSET Between(c, d)
  BY ConstantsOK DEF Between
<1> QED BY <1>1, <1>2, BetweenFinite, SumMonotone

LEMMA AdmittedMore ==
  ASSUME admitted \in [0 .. LastSecond -> Nat], clock \in 0 .. LastSecond,
         admitted' = [admitted EXCEPT ![clock] = @ + 1],
         NEW a \in Int, NEW b \in Int
  PROVE  AdmittedFrom(a, b)' = IF a <= clock /\ clock <= b
                               THEN AdmittedFrom(a, b) + 1 ELSE AdmittedFrom(a, b)
<1>0. PICK g : g = admitted'
  OBVIOUS
<1>1. /\ g \in [0 .. LastSecond -> Nat] /\ g[clock] = admitted[clock] + 1
      /\ \A s \in (0 .. LastSecond) \ {clock} : g[s] = admitted[s]
  BY <1>0
<1>2. AdmittedFrom(a, b)' = SumFunctionOnSet(g, Between(a, b))
  BY <1>0 DEF AdmittedFrom, Between
<1>3. /\ IsFiniteSet(Between(a, b))
      /\ AdmittedFrom(a, b) = SumFunctionOnSet(admitted, Between(a, b))
      /\ AdmittedFrom(a, b) \in Nat
  BY BetweenFinite, AdmittedNat
<1>3a. /\ \A s \in Between(a, b) : admitted[s] \in Int
       /\ \A s \in Between(a, b) : g[s] \in Int
  BY <1>1 DEF Between
<1>4. CASE a <= clock /\ clock <= b
  <2>1. /\ clock \in Between(a, b) /\ g[clock] \in Int
        /\ \A s \in Between(a, b) \ {clock} : g[s] = admitted[s]
    BY <1>1, <1>3a, <1>4 DEF Between
  <2>2. SumFunctionOnSet(g, Between(a, b)) =
          SumFunctionOnSet(admitted, Between(a, b)) - admitted[clock] + g[clock]
    <3> DEFINE S == Between(a, b)
    <3>1. /\ IsFiniteSet(S) /\ clock \in S /\ g[clock] \in Int
          /\ \A y \in S : admitted[y] \in Int
          /\ \A y \in S \ {clock} : g[y] = admitted[y]
      BY <1>3, <1>3a, <2>1
    <3> HIDE DEF S
    <3>2. PICK f : f = admitted
      OBVIOUS
    <3>3. PICK c \in S : c = clock
      BY <3>1
    <3>4. /\ IsFiniteSet(S) /\ c \in S /\ g[c] \in Int
          /\ \A y \in S : f[y] \in Int
          /\ \A y \in S \ {c} : g[y] = f[y]
      BY <3>1, <3>2, <3>3
    <3>5. SumFunctionOnSet(g, S) = SumFunctionOnSet(f, S) - f[c] + g[c]
      BY <3>4, SumUpdate
    <3> QED BY <3>2, <3>3, <3>5 DEF S
  <2>3. admitted[clock] \in Nat
    OBVIOUS
  <2> QED BY <1>1, <1>2, <1>3, <1>4, <2>2, <2>3
<1>5. CASE ~(a <= clock /\ clock <= b)
  <2>1. \A s \in Between(a, b) : g[s] = admitted[s]
    BY <1>1, <1>5 DEF Between
  <2>2. SumFunctionOnSet(g, Between(a, b)) = SumFunctionOnSet(admitted, Between(a, b))
    BY <1>3, <1>3a, <2>1, SumSame
  <2> QED BY <1>2, <1>3, <1>5, <2>2
<1> QED BY <1>4, <1>5
-----------------------------------------------------------------------------
(* Every waiting goroutine has read the clock at most MaxWait ago.         *)
TimesOK ==
  /\ clock \in 0 .. LastSecond
  /\ counter \in [count : Nat, window : Int]
  /\ counter # None => counter.window \in 0 .. clock /\ counter.count >= 1
  /\ now \in [Thread -> Int] /\ cleaning \in Int
  /\ \A t \in Thread : now[t] # Idle => now[t] \in 0 .. clock /\ clock - now[t] <= MaxWait
  /\ cleaning # Idle => cleaning \in 0 .. clock /\ clock - cleaning <= MaxWait
  /\ blocked \in Nat /\ admitted \in [0 .. LastSecond -> Nat]

(* How many requests the last window has admitted.                         *)
Counted ==
  IF counter = None \/ counter.count > Requests THEN Requests ELSE counter.count

(* w is where the last window began, and no window begins before a spacing *)
(* has passed; when the cleanup has removed it nobody waits who would      *)
(* still fall into it.                                                     *)
LastWindow(w) ==
  /\ counter # None => w = counter.window
  /\ counter = None =>
       w + Spacing <= clock /\ \A t \in Thread : now[t] # Idle => w + Spacing <= now[t]

WindowsAreBounded ==
  \E w \in Int : LastWindow(w) /\
    \A a, b \in Int : BoundedBy(AdmittedFrom(a, b), Counted, w, a, b)

(* The open window has admitted what it counts. *)
WindowIsUsed ==
  counter # None => AdmittedFrom(counter.window, clock) >= Counted

LimiterInv == TimesOK /\ WindowsAreBounded /\ WindowIsUsed

LEMMA CountedOK == TimesOK => Counted \in Nat /\ Counted <= Requests
  BY ConstantsOK DEF TimesOK, Counted

LEMMA InitLimiterInv == LimiterInit => LimiterInv
<1> SUFFICES ASSUME LimiterInit PROVE LimiterInv
  OBVIOUS
<1>1. /\ clock = 0 /\ counter = None /\ now = [t \in Thread |-> Idle]
      /\ cleaning = Idle /\ blocked = 0 /\ admitted = [s \in 0 .. LastSecond |-> 0]
  BY DEF LimiterInit, metrics
<1>2. TimesOK
  BY <1>1, ConstantsOK DEF TimesOK, None, Idle
<1>3. \A a, b \in Int : AdmittedFrom(a, b) = 0
  <2> SUFFICES ASSUME NEW a \in Int, NEW b \in Int PROVE AdmittedFrom(a, b) = 0
    OBVIOUS
  <2>1. \A s \in Between(a, b) : admitted[s] = 0
    BY <1>1 DEF Between
  <2> QED BY <2>1, BetweenFinite, SumZero
<1>4. WindowsAreBounded
  <2>1. -Spacing \in Int /\ LastWindow(-Spacing)
    BY <1>1, ConstantsOK DEF LastWindow
  <2>2. ASSUME NEW a \in Int, NEW b \in Int
        PROVE  BoundedBy(AdmittedFrom(a, b), Counted, -Spacing, a, b)
    <3>0. a - Reach \in Int /\ -Spacing - Spacing \in Int
      BY ConstantsOK
    <3>1. /\ Requests * Starts(a - Reach, b) \in Nat
          /\ Requests * Starts(a - Reach, -Spacing - Spacing) \in Nat
      BY <3>0, ProductNat
    <3>2. Counted \in Nat
      BY <1>2, CountedOK
    <3> QED BY <1>3, <3>1, <3>2 DEF BoundedBy
  <2> QED BY <2>1, <2>2 DEF WindowsAreBounded
<1>5. WindowIsUsed
  BY <1>1 DEF WindowIsUsed
<1> QED BY <1>2, <1>4, <1>5 DEF LimiterInv

(* Nobody is admitted and the window stays as it was. *)
LEMMA WindowStays ==
  ASSUME LimiterInv, TimesOK', UNCHANGED <<counter, admitted>>, clock' \in clock .. clock + 1,
         \A t \in Thread : now'[t] # Idle => now'[t] = now[t] \/ now'[t] = clock
  PROVE  WindowsAreBounded' /\ WindowIsUsed'
<1>1. \A a, b : AdmittedFrom(a, b)' = AdmittedFrom(a, b)
  BY DEF AdmittedFrom
<1>2. Counted' = Counted /\ clock \in Int
  BY DEF Counted, LimiterInv, TimesOK
<1>3. PICK w \in Int : LastWindow(w) /\
        \A a, b \in Int : BoundedBy(AdmittedFrom(a, b), Counted, w, a, b)
  BY DEF LimiterInv, WindowsAreBounded
<1>4. LastWindow(w)'
  <2>1. counter = None => w + Spacing <= clock /\ clock' >= clock /\ clock' \in Int
    BY <1>2, <1>3 DEF LastWindow
  <2>2. ASSUME counter = None, NEW t \in Thread, now'[t] # Idle
        PROVE  w + Spacing <= now'[t]
    BY <1>3, <2>1, <2>2 DEF LastWindow
  <2>3. w + Spacing \in Int
    BY ConstantsOK
  <2> QED BY <1>2, <1>3, <2>1, <2>2, <2>3 DEF LastWindow
<1>5. \A a, b \in Int : BoundedBy(AdmittedFrom(a, b)', Counted', w, a, b)
  BY <1>1, <1>2, <1>3
<1>6. WindowIsUsed'
  <2> SUFFICES ASSUME counter # None
               PROVE  AdmittedFrom(counter.window, clock') >= Counted
    BY <1>1, <1>2 DEF WindowIsUsed
  <2>1. /\ counter.window \in Int /\ AdmittedFrom(counter.window, clock) >= Counted
        /\ clock' \in Int /\ clock <= clock'
        /\ admitted \in [0 .. LastSecond -> Nat] /\ Counted \in Nat
    BY <1>2, CountedOK DEF LimiterInv, TimesOK, WindowIsUsed
  <2>2. AdmittedFrom(counter.window, clock) <= AdmittedFrom(counter.window, clock')
    BY <1>2, <2>1, AdmittedMonotone
  <2>3. /\ AdmittedFrom(counter.window, clock) \in Nat
        /\ AdmittedFrom(counter.window, clock') \in Nat
    BY <2>1, AdmittedNat
  <2> QED BY <2>1, <2>2, <2>3
<1>7. WindowsAreBounded'
  BY <1>4, <1>5 DEF WindowsAreBounded
<1> QED BY <1>6, <1>7

(* A request that is not refused in the open window.                       *)
LEMMA AdmitsInWindow ==
  ASSUME LimiterInv, TimesOK', counter # None, counter'.count = counter.count + 1,
         counter'.window = counter.window, counter.count + 1 <= Requests,
         admitted' = [admitted EXCEPT ![clock] = @ + 1], clock' = clock,
         clock - counter.window <= Reach
  PROVE  WindowsAreBounded' /\ WindowIsUsed'
<1>0. /\ counter.count \in Nat /\ counter.count >= 1 /\ counter' # None
      /\ counter.window \in Int /\ counter.window <= clock
      /\ clock \in 0 .. LastSecond /\ clock \in Int
      /\ admitted \in [0 .. LastSecond -> Nat]
  BY ConstantsOK DEF LimiterInv, TimesOK, None
<1>1. Counted = counter.count /\ Counted' = counter.count + 1
  BY <1>0, ConstantsOK DEF Counted
<1>2. \A a, b \in Int : AdmittedFrom(a, b)' =
        IF a <= clock /\ clock <= b THEN AdmittedFrom(a, b) + 1 ELSE AdmittedFrom(a, b)
  BY <1>0, AdmittedMore
<1>3. /\ LastWindow(counter.window)
      /\ \A a, b \in Int : BoundedBy(AdmittedFrom(a, b), Counted, counter.window, a, b)
  BY DEF LimiterInv, WindowsAreBounded, LastWindow
<1>4. LastWindow(counter.window)'
  BY <1>0 DEF LastWindow
<1>5. PICK w \in Int : w = counter.window
  BY <1>0
<1>6. ASSUME NEW a \in Int, NEW b \in Int
      PROVE  BoundedBy(AdmittedFrom(a, b)', Counted', w, a, b)
  <2>1. AdmittedFrom(a, b) \in Nat
    BY <1>0, AdmittedNat
  <2>2. BoundedBy(AdmittedFrom(a, b), counter.count, w, a, b)
    BY <1>1, <1>3, <1>5
  <2>3. w <= clock /\ clock <= w + Reach
    BY <1>0, <1>5, ConstantsOK
  <2>4. BoundedBy(IF a <= clock /\ clock <= b THEN AdmittedFrom(a, b) + 1
                  ELSE AdmittedFrom(a, b), counter.count + 1, w, a, b)
    BY <1>0, <2>1, <2>2, <2>3, OneMore
  <2> QED BY <1>1, <1>2, <2>4
<1>7. WindowsAreBounded'
  BY <1>4, <1>5, <1>6 DEF WindowsAreBounded
<1>8. WindowIsUsed'
  <2>1. AdmittedFrom(counter.window, clock)' = AdmittedFrom(counter.window, clock) + 1
    <3>1. AdmittedFrom(w, clock)' = AdmittedFrom(w, clock) + 1
      <4>1. PICK c \in Int : c = clock
        BY <1>0
      <4>2. AdmittedFrom(w, c)' = AdmittedFrom(w, c) + 1
        BY <1>0, <1>2, <1>5, <4>1
      <4> QED BY <4>1, <4>2
    <3> QED BY <1>5, <3>1
  <2>2. AdmittedFrom(counter.window, clock) \in Nat
    BY <1>0, AdmittedNat
  <2>3. AdmittedFrom(counter.window, clock) >= Counted
    BY DEF LimiterInv, WindowIsUsed
  <2> QED BY <1>0, <1>1, <2>1, <2>2, <2>3 DEF WindowIsUsed
<1> QED BY <1>7, <1>8

(* A request that begins a window. *)
LEMMA BeginsWindow ==
  ASSUME LimiterInv, TimesOK', NEW t \in Thread, now[t] # Idle,
         counter = None \/ now[t] - counter.window > Window,
         counter'.count = 1, counter'.window = now[t],
         admitted' = [admitted EXCEPT ![clock] = @ + 1], clock' = clock
  PROVE  WindowsAreBounded' /\ WindowIsUsed'
<1>0. /\ counter' # None /\ clock \in 0 .. LastSecond /\ clock \in Int
      /\ admitted \in [0 .. LastSecond -> Nat]
      /\ now[t] \in Int /\ now[t] <= clock /\ clock - now[t] <= MaxWait
      /\ counter # None => counter.window \in Int
  BY ConstantsOK DEF LimiterInv, TimesOK, None
<1>1. Counted' = 1 /\ Counted \in Nat /\ Counted <= Requests
  BY <1>0, ConstantsOK, CountedOK DEF Counted, LimiterInv
<1>2. \A a, b \in Int : AdmittedFrom(a, b)' =
        IF a <= clock /\ clock <= b THEN AdmittedFrom(a, b) + 1 ELSE AdmittedFrom(a, b)
  BY <1>0, AdmittedMore
<1>3. PICK w \in Int : LastWindow(w) /\
        \A a, b \in Int : BoundedBy(AdmittedFrom(a, b), Counted, w, a, b)
  BY DEF LimiterInv, WindowsAreBounded
<1>4. PICK v \in Int : v = now[t]
  BY <1>0
<1>5. w + Spacing <= v
  <2>1. CASE counter = None
    BY <1>3, <1>4, <2>1 DEF LastWindow
  <2>2. CASE counter # None
    <3>1. v - w > Window
      BY <1>3, <1>4, <2>2 DEF LastWindow
    <3> QED BY <3>1, ConstantsOK DEF Spacing
  <2> QED BY <2>1, <2>2
<1>6. ASSUME NEW a \in Int, NEW b \in Int
      PROVE  BoundedBy(AdmittedFrom(a, b)', 1, v, a, b)
  <2>1. AdmittedFrom(a, b) \in Nat
    BY <1>0, AdmittedNat
  <2>2. BoundedBy(AdmittedFrom(a, b), 0, v, a, b)
    BY <1>1, <1>3, <1>5, <2>1, NextWindow
  <2>3. v <= clock /\ clock <= v + Reach
    BY <1>0, <1>4, ConstantsOK DEF Reach
  <2>4. BoundedBy(IF a <= clock /\ clock <= b THEN AdmittedFrom(a, b) + 1
                  ELSE AdmittedFrom(a, b), 0 + 1, v, a, b)
    BY <1>0, <2>1, <2>2, <2>3, OneMore
  <2> QED BY <1>2, <2>4
<1>7. WindowsAreBounded'
  <2>1. LastWindow(v)'
    BY <1>0, <1>4 DEF LastWindow
  <2> QED BY <1>1, <1>6, <2>1 DEF WindowsAreBounded
<1>8. WindowIsUsed'
  <2>1. PICK c \in Int : c = clock
    BY <1>0
  <2>2. AdmittedFrom(v, c)' = AdmittedFrom(v, c) + 1
    BY <1>0, <1>2, <1>4, <2>1
  <2>3. AdmittedFrom(v, c) \in Nat
    BY <1>0, AdmittedNat
  <2>4. AdmittedFrom(counter.window, clock)' = AdmittedFrom(v, c)'
    BY <1>4, <2>1
  <2> QED BY <1>1, <2>2, <2>3, <2>4 DEF WindowIsUsed
<1> QED BY <1>7, <1>8

(* A request that is refused. *)
LEMMA RefusesInWindow ==
  ASSUME LimiterInv, TimesOK', counter # None, counter'.count = counter.count + 1,
         counter'.window = counter.window, counter.count + 1 > Requests,
         UNCHANGED <<admitted, clock>>
  PROVE  WindowsAreBounded' /\ WindowIsUsed'
<1>1. /\ counter.count \in Nat /\ counter.count >= 1 /\ counter' # None
      /\ counter.count >= Requests /\ counter.window \in Int
  BY ConstantsOK DEF LimiterInv, TimesOK, None
<1>2. Counted = Requests /\ Counted' = Requests
  BY <1>1, ConstantsOK DEF Counted
<1>3. \A a, b : AdmittedFrom(a, b)' = AdmittedFrom(a, b)
  BY DEF AdmittedFrom
<1>4. PICK w \in Int : LastWindow(w) /\
        \A a, b \in Int : BoundedBy(AdmittedFrom(a, b), Counted, w, a, b)
  BY DEF LimiterInv, WindowsAreBounded
<1>5. LastWindow(w)'
  BY <1>1, <1>4 DEF LastWindow
<1>6. \A a, b \in Int : BoundedBy(AdmittedFrom(a, b)', Counted', w, a, b)
  BY <1>2, <1>3, <1>4
<1>7. WindowsAreBounded'
  BY <1>5, <1>6 DEF WindowsAreBounded
<1>8. WindowIsUsed'
  BY <1>1, <1>2, <1>3 DEF WindowIsUsed, LimiterInv
<1> QED BY <1>7, <1>8

LEMMA TimesStayOK == TimesOK /\ [LimiterNext]_limiterVars => TimesOK'
<1> SUFFICES ASSUME TimesOK, [LimiterNext]_limiterVars PROVE TimesOK'
  OBVIOUS
<1> USE DEF metrics
<1>1. CASE Tick
  <2>1. /\ clock' = clock + 1 /\ clock < LastSecond
        /\ \A t \in Thread : now[t] # Idle => clock + 1 - now[t] <= MaxWait
        /\ cleaning # Idle => clock + 1 - cleaning <= MaxWait
        /\ UNCHANGED <<counter, now, cleaning, blocked, admitted>>
    BY <1>1 DEF Tick
  <2> QED BY <2>1, ConstantsOK DEF TimesOK
<1>2. ASSUME NEW t \in Thread, Arrive(t) PROVE TimesOK'
  <2>1. /\ now' = [now EXCEPT ![t] = clock]
        /\ UNCHANGED <<clock, counter, cleaning, blocked, admitted>>
    BY <1>2 DEF Arrive
  <2> QED BY <2>1, ConstantsOK DEF TimesOK
<1>3. ASSUME NEW t \in Thread, Decide(t) PROVE TimesOK'
  <2> DEFINE fresh == counter = None \/ now[t] - counter.window > Window
             count == IF fresh THEN 1 ELSE counter.count + 1
             limited == ~fresh /\ count > Requests
  <2>1. /\ now[t] # Idle
        /\ counter' = [count |-> count,
                       window |-> IF fresh THEN now[t] ELSE counter.window]
        /\ blocked' = IF limited THEN blocked + 1 ELSE blocked
        /\ admitted' = IF limited THEN admitted ELSE [admitted EXCEPT ![clock] = @ + 1]
        /\ now' = [now EXCEPT ![t] = Idle]
        /\ UNCHANGED <<clock, cleaning>>
    BY <1>3 DEF Decide
  <2>2. /\ count \in Nat /\ count >= 1
        /\ (IF fresh THEN now[t] ELSE counter.window) \in 0 .. clock
    BY <2>1 DEF TimesOK
  <2> HIDE DEF fresh, count, limited
  <2>3. /\ counter'.count = count
        /\ counter'.window = IF fresh THEN now[t] ELSE counter.window
        /\ counter' \in [count : Nat, window : Int]
    BY <2>1, <2>2
  <2>4. blocked' \in Nat /\ admitted' \in [0 .. LastSecond -> Nat]
    BY <2>1 DEF TimesOK
  <2>5. /\ now' \in [Thread -> Int] /\ \A u \in Thread : now'[u] # Idle => now'[u] = now[u]
    BY <2>1 DEF TimesOK, Idle
  <2> QED BY <2>1, <2>2, <2>3, <2>4, <2>5 DEF TimesOK
<1>4. CASE CleanupBegins
  BY <1>4, ConstantsOK DEF CleanupBegins, TimesOK
<1>5. CASE CleanupExpired
  <2>1. /\ counter' = counter \/ counter' = None
        /\ cleaning' = Idle /\ UNCHANGED <<clock, now, blocked, admitted>>
    BY <1>5 DEF CleanupExpired
  <2>2. None \in [count : Nat, window : Int] /\ Idle \in Int
    BY DEF None, Idle
  <2> QED BY <2>1, <2>2 DEF TimesOK
<1>6. CASE SignalStopCleanup
  BY <1>6 DEF SignalStopCleanup, TimesOK
<1>7. CASE UNCHANGED limiterVars
  BY <1>7 DEF limiterVars, TimesOK
<1> QED BY <1>1, <1>2, <1>3, <1>4, <1>5, <1>6, <1>7 DEF LimiterNext

LEMMA NextLimiterInv == LimiterInv /\ [LimiterNext]_limiterVars => LimiterInv'
<1> SUFFICES ASSUME LimiterInv, [LimiterNext]_limiterVars PROVE WindowsAreBounded' /\ WindowIsUsed'
  BY TimesStayOK DEF LimiterInv
<1> USE DEF metrics
<1>0. TimesOK /\ TimesOK' /\ clock \in Int
  BY TimesStayOK DEF LimiterInv, TimesOK
<1>1. CASE Tick
  <2>1. clock' = clock + 1 /\ UNCHANGED <<counter, now, admitted>>
    BY <1>1 DEF Tick
  <2> QED BY <1>0, <2>1, WindowStays
<1>2. ASSUME NEW t \in Thread, Arrive(t) PROVE WindowsAreBounded' /\ WindowIsUsed'
  <2>1. now' = [now EXCEPT ![t] = clock] /\ UNCHANGED <<clock, counter, admitted>>
    BY <1>2 DEF Arrive
  <2>2. \A u \in Thread : now'[u] # Idle => now'[u] = now[u] \/ now'[u] = clock
    BY <1>0, <2>1 DEF TimesOK
  <2> QED BY <1>0, <2>1, <2>2, WindowStays
<1>3. ASSUME NEW t \in Thread, Decide(t) PROVE WindowsAreBounded' /\ WindowIsUsed'
  <2>1. now[t] # Idle /\ clock' = clock
    BY <1>3 DEF Decide
  <2>2. CASE counter = None \/ now[t] - counter.window > Window
    <3>1. /\ counter' = [count |-> 1, window |-> now[t]]
          /\ admitted' = [admitted EXCEPT ![clock] = @ + 1]
      BY <1>3, <2>2 DEF Decide
    <3> QED BY <1>0, <2>1, <2>2, <3>1, BeginsWindow
  <2>3. CASE ~(counter = None \/ now[t] - counter.window > Window)
    <3>1. counter' = [count |-> counter.count + 1, window |-> counter.window]
      BY <1>3, <2>3 DEF Decide
    <3>2. CASE counter.count + 1 > Requests
      <4>1. admitted' = admitted
        BY <1>3, <2>3, <3>2 DEF Decide
      <4> QED BY <1>0, <2>1, <2>3, <3>1, <3>2, <4>1, RefusesInWindow
    <3>3. CASE ~(counter.count + 1 > Requests)
      <4>1. admitted' = [admitted EXCEPT ![clock] = @ + 1]
        BY <1>3, <2>3, <3>3 DEF Decide
      <4>2. counter.count \in Nat /\ counter.count + 1 <= Requests
        <5>1. counter.count \in Nat
          BY <1>0 DEF TimesOK
        <5> QED BY <3>3, <5>1, ConstantsOK
      <4>3. clock - counter.window <= Reach
        <5>1. /\ now[t] \in Int /\ counter.window \in Int
              /\ clock - now[t] <= MaxWait /\ now[t] - counter.window <= Window
          <6>1. /\ now[t] \in Int /\ counter.window \in Int
                /\ clock - now[t] <= MaxWait
            BY <1>0, <2>1 DEF TimesOK
          <6> QED BY <2>3, <6>1, ConstantsOK
        <5> QED BY <1>0, <5>1, ConstantsOK DEF Reach
      <4> QED BY <1>0, <2>1, <2>3, <3>1, <4>1, <4>2, <4>3, AdmitsInWindow
    <3> QED BY <3>2, <3>3
  <2> QED BY <2>2, <2>3
<1>4. CASE CleanupBegins
  <2>1. UNCHANGED <<clock, counter, now, admitted>>
    BY <1>4 DEF CleanupBegins
  <2> QED BY <1>0, <2>1, WindowStays
<1>5. CASE CleanupExpired
  <2>1. UNCHANGED <<clock, now, admitted>>
    BY <1>5 DEF CleanupExpired
  <2>2. CASE counter' = counter
    BY <1>0, <2>1, <2>2, WindowStays
  <2>3. CASE counter' # counter
    <3>1. counter # None /\ counter' = None /\ cleaning - counter.window > Window
          /\ cleaning # Idle
      BY <1>5, <2>3 DEF CleanupExpired
    <3>2. \A a, b : AdmittedFrom(a, b)' = AdmittedFrom(a, b)
      BY <2>1 DEF AdmittedFrom
    <3>3. PICK w \in Int : w = counter.window
      BY <1>0 DEF TimesOK
    <3>4. \A a, b \in Int : BoundedBy(AdmittedFrom(a, b), Counted, w, a, b)
      BY <3>1, <3>3 DEF LimiterInv, WindowsAreBounded, LastWindow
    <3>5. Counted' = Requests /\ Counted \in Nat /\ Counted <= Requests
      BY <1>0, <3>1, CountedOK DEF Counted
    <3>6. ASSUME NEW a \in Int, NEW b \in Int
          PROVE  BoundedBy(AdmittedFrom(a, b)', Counted', w, a, b)
      <4>1. BoundedBy(AdmittedFrom(a, b), Counted, w, a, b)
        BY <3>4
      <4>2. AdmittedFrom(a, b) \in Nat
        BY <1>0, AdmittedNat DEF TimesOK
      <4>3. a - Reach \in Int /\ w - Spacing \in Int
        BY ConstantsOK
      <4>4. Requests * Starts(a - Reach, w - Spacing) \in Nat
        BY <4>3, ProductNat
      <4>5. BoundedBy(AdmittedFrom(a, b), Requests, w, a, b)
        BY <3>5, <4>1, <4>2, <4>4, ConstantsOK DEF BoundedBy
      <4> QED BY <3>2, <3>5, <4>5
    <3>7. LastWindow(w)'
      <4>1. /\ cleaning \in Int /\ cleaning <= clock /\ cleaning - w > Window
            /\ \A t \in Thread : now[t] # Idle => now[t] \in Int /\ clock - now[t] <= MaxWait
        BY <1>0, <3>1, <3>3, ConstantsOK DEF TimesOK
      <4>2. w + Spacing <= clock /\ clock' = clock /\ now' = now
        BY <1>0, <2>1, <4>1, ConstantsOK DEF Spacing
      <4>3. ASSUME NEW t \in Thread, now[t] # Idle PROVE w + Spacing <= now[t]
        BY <1>0, <4>1, <4>3, ConstantsOK DEF Spacing
      <4> QED BY <3>1, <4>2, <4>3 DEF LastWindow
    <3>8. WindowsAreBounded'
      BY <3>6, <3>7 DEF WindowsAreBounded
    <3> QED BY <3>1, <3>8 DEF WindowIsUsed
  <2> QED BY <2>2, <2>3
<1>6. CASE SignalStopCleanup
  <2>1. UNCHANGED <<clock, counter, now, admitted>>
    BY <1>6 DEF SignalStopCleanup
  <2> QED BY <1>0, <2>1, WindowStays
<1>7. CASE UNCHANGED limiterVars
  <2>1. UNCHANGED <<clock, counter, now, admitted>>
    BY <1>7 DEF limiterVars
  <2> QED BY <1>0, <2>1, WindowStays
<1> QED BY <1>1, <1>2, <1>3, <1>4, <1>5, <1>6, <1>7 DEF LimiterNext

LEMMA LimiterInvariance == LimiterSpec => []LimiterInv
  BY InitLimiterInv, NextLimiterInv, PTL DEF LimiterSpec

(* In any stretch of time isRateLimited and the cleanup admit no more than *)
(* config.Requests for every window that can reach into it, however the    *)
(* requests wait for the lock.                                             *)
THEOREM AdmissionHasABound == LimiterSpec => []AdmissionIsBounded
<1>1. LimiterInv => AdmissionIsBounded
  <2> SUFFICES ASSUME LimiterInv, NEW s \in 0 .. LastSecond, NEW length \in 0 .. Window
               PROVE  AdmittedFrom(s, s + length) <= Requests * Windows(length)
    BY DEF AdmissionIsBounded
  <2> DEFINE x == s - Reach
             e == s + length
             A == AdmittedFrom(s, e)
  <2>0. s \in Int /\ length \in Int /\ x \in Int /\ e \in Int /\ ~(e < x)
        /\ e - x = length + Window + MaxWait
    BY ConstantsOK DEF Reach
  <2>1. Windows(length) = Starts(x, e)
    BY <2>0 DEF Windows, Starts, Spacing
  <2>2. A \in Nat /\ Counted \in Nat /\ Counted <= Requests
    BY AdmittedNat, CountedOK DEF LimiterInv, TimesOK
  <2>3. PICK w \in Int : BoundedBy(A, Counted, w, s, e)
    BY <2>0 DEF LimiterInv, WindowsAreBounded
  <2>4. A <= Requests * Starts(x, e)
    <3> HIDE DEF x, e, A
    <3>1. /\ e < w => A <= Requests * Starts(x, e)
          /\ x <= w /\ w <= e => A <= Requests * Starts(x, w - Spacing) + Counted
          /\ w < x => A = 0
      BY <2>3 DEF BoundedBy, x
    <3>2. Requests * Starts(x, e) \in Nat
      BY <2>0, ProductNat
    <3>3. CASE x <= w /\ w <= e
      BY <2>0, <2>2, <3>1, <3>3, FullWindow
    <3> QED BY <2>0, <2>2, <3>1, <3>2, <3>3
  <2> QED BY <2>1, <2>4
<1> QED BY <1>1, LimiterInvariance, PTL

(* Only requests beyond config.Requests of the open window are refused.    *)
THEOREM RefusalsAreDeserved == LimiterSpec => RefusalIsDeserved
<1>1. LimiterInv /\ [LimiterNext]_limiterVars =>
        [blocked' # blocked =>
           AdmittedFrom(clock - Window - MaxWait, clock) >= Requests]_limiterVars
  <2> SUFFICES ASSUME LimiterInv, LimiterNext, blocked' # blocked
               PROVE  AdmittedFrom(clock - Window - MaxWait, clock) >= Requests
    OBVIOUS
  <2>1. PICK t \in Thread : Decide(t)
    BY DEF LimiterNext, Tick, Arrive, CleanupBegins, CleanupExpired, SignalStopCleanup, metrics
  <2>2. /\ now[t] # Idle /\ counter # None /\ now[t] - counter.window <= Window
        /\ counter.count + 1 > Requests
    BY <2>1, ConstantsOK DEF Decide, LimiterInv, TimesOK
  <2>3. /\ counter.count \in Nat /\ counter.count >= Requests /\ counter.window \in Int
        /\ clock \in Int /\ admitted \in [0 .. LastSecond -> Nat]
        /\ clock - Window - MaxWait <= counter.window
    <3>1. /\ counter.count \in Nat /\ counter.window \in Int
          /\ clock \in Int /\ admitted \in [0 .. LastSecond -> Nat]
          /\ now[t] \in Int /\ clock - now[t] <= MaxWait
      BY <2>2, ConstantsOK DEF LimiterInv, TimesOK
    <3> QED BY <2>2, <3>1, ConstantsOK
  <2>4. Counted = Requests
    BY <2>3, ConstantsOK DEF Counted
  <2>5. AdmittedFrom(counter.window, clock) >= Requests
    BY <2>2, <2>4 DEF LimiterInv, WindowIsUsed
  <2>6. clock - Window - MaxWait \in Int
    BY <2>3, ConstantsOK
  <2>7. AdmittedFrom(counter.window, clock) <= AdmittedFrom(clock - Window - MaxWait, clock)
    BY <2>3, <2>6, AdmittedMonotone
  <2>8. /\ AdmittedFrom(counter.window, clock) \in Nat
        /\ AdmittedFrom(clock - Window - MaxWait, clock) \in Nat
    BY <2>3, AdmittedNat
  <2> QED BY <2>5, <2>7, <2>8, ConstantsOK
<1> QED BY <1>1, LimiterInvariance, PTL DEF LimiterSpec, RefusalIsDeserved
-----------------------------------------------------------------------------
(* The bytes recorded up to a second, as the history has them.             *)
Upto(e, s) == SumFunctionOnSet(e, {u \in 0 .. LastTime : u <= s})

(* What a window sees at a time when nothing is recorded after it.         *)
SeenAt(e, t, w) == Upto(e, LastTime) - Upto(e, t - w.duration)

BucketType == [second : 0 .. LastTime, bytes : Nat, cumulative : Nat]

InOrder(b) == \A i, j \in DOMAIN b : i < j => b[i].second < b[j].second

(* Every bucket has the bytes of its second, and none is missing between   *)
(* them or after them.                                                     *)
HasBytes(b, e) ==
  /\ \A i \in DOMAIN b : b[i].bytes = e[b[i].second]
  /\ \A s \in 0 .. LastTime :
       (b # <<>> /\ s >= b[1].second /\ e[s] # 0) => \E i \in DOMAIN b : b[i].second = s

(* The running totals count from the first bucket.                         *)
HasTotals(b, e) ==
  \A i \in DOMAIN b :
    b[i].cumulative = Upto(e, b[i].second) - Upto(e, b[1].second - 1)

(* The buckets are what was recorded, as far as it is retained.            *)
Faithful(b, e, current) ==
  /\ b \in Seq(BucketType) /\ InOrder(b) /\ HasBytes(b, e) /\ HasTotals(b, e)
  /\ \A i \in DOMAIN b : b[i].second <= current
  /\ \A s \in 0 .. LastTime :
       /\ s > current => e[s] = 0
       /\ (s > current - Retention /\ e[s] # 0) => \E i \in DOMAIN b : b[i].second = s

PromiseTypeOK ==
  /\ wallClock \in 0 .. LastTime /\ lastNow \in 0 .. LastTime
  /\ exact \in [0 .. LastTime -> Nat]
  /\ promise \in Nat \cup {NoPromise}

(* The time that was named is the first at which no window is exceeded.    *)
FirstFree(e, t) ==
  /\ \A w \in QuotaWindow : SeenAt(e, t, w) < w.limit
  /\ \E w \in QuotaWindow : SeenAt(e, t - 1, w) >= w.limit

PromiseInv ==
  /\ PromiseTypeOK
  /\ Faithful(buckets, exact, lastNow)
  /\ Upto(exact, LastTime) <= MaxTotal
  /\ promise # NoPromise => lastNow <= wallClock /\ FirstFree(exact, promise)
-----------------------------------------------------------------------------
(* Sums of seconds. *)
SecondsTo(s) == {u \in 0 .. LastTime : u <= s}

LEMMA SecondsFinite ==
  ASSUME NEW S \in SUBSET (0 .. LastTime)
  PROVE  IsFiniteSet(S)
<1>1. IsFiniteSet(0 .. LastTime)
  BY FS_Interval, RetryPromiseAssumption
<1> QED BY <1>1, FS_Subset

LEMMA UptoIs ==
  ASSUME NEW e, NEW s
  PROVE  Upto(e, s) = SumFunctionOnSet(e, SecondsTo(s)) /\ SecondsTo(s) \in SUBSET (0 .. LastTime)
BY DEF Upto, SecondsTo

LEMMA UptoIsNat ==
  ASSUME NEW e \in [0 .. LastTime -> Nat], NEW s \in Int
  PROVE  Upto(e, s) \in Nat
<1>1. IsFiniteSet(SecondsTo(s)) /\ \A u \in SecondsTo(s) : e[u] \in Nat
  BY UptoIs, SecondsFinite
<1>2. SumFunctionOnSet(e, SecondsTo(s)) \in Nat
  BY <1>1, SumNat
<1> QED BY <1>2, UptoIs

(* What has been recorded between two times. *)
LEMMA UptoParts ==
  ASSUME NEW e \in [0 .. LastTime -> Nat], NEW s \in Int, NEW t \in Int, s <= t,
         NEW M, M = {u \in 0 .. LastTime : s < u /\ u <= t}
  PROVE  /\ Upto(e, t) = Upto(e, s) + SumFunctionOnSet(e, M)
         /\ SumFunctionOnSet(e, M) \in Nat
<1>1. /\ SecondsTo(t) = SecondsTo(s) \cup M /\ SecondsTo(s) \cap M = {}
      /\ M \in SUBSET (0 .. LastTime)
  BY RetryPromiseAssumption DEF SecondsTo
<1>2. IsFiniteSet(SecondsTo(s)) /\ IsFiniteSet(M)
  BY <1>1, UptoIs, SecondsFinite
<1>3. /\ \A u \in SecondsTo(s) \cup M : e[u] \in Int
      /\ \A u \in M : e[u] \in Nat
  BY <1>1, UptoIs
<1>4. SumFunctionOnSet(e, SecondsTo(s) \cup M) =
        SumFunctionOnSet(e, SecondsTo(s)) + SumFunctionOnSet(e, M)
  BY <1>1, <1>2, <1>3, SumUnion
<1>5. SumFunctionOnSet(e, M) \in Nat
  BY <1>2, <1>3, SumNat
<1> QED BY <1>1, <1>4, <1>5, UptoIs

LEMMA UptoGrows ==
  ASSUME NEW e \in [0 .. LastTime -> Nat], NEW s \in Int, NEW t \in Int, s <= t
  PROVE  Upto(e, s) <= Upto(e, t)
<1> DEFINE M == {u \in 0 .. LastTime : s < u /\ u <= t}
<1>1. PICK m : m = M
  OBVIOUS
<1>2. Upto(e, t) = Upto(e, s) + SumFunctionOnSet(e, m) /\ SumFunctionOnSet(e, m) \in Nat
  BY <1>1, UptoParts
<1> QED BY <1>2, UptoIsNat

LEMMA UptoStays ==
  ASSUME NEW e \in [0 .. LastTime -> Nat], NEW s \in Int, NEW t \in Int, s <= t,
         \A u \in 0 .. LastTime : s < u /\ u <= t => e[u] = 0
  PROVE  Upto(e, t) = Upto(e, s)
<1> DEFINE M == {u \in 0 .. LastTime : s < u /\ u <= t}
<1>1. PICK m : m = M
  OBVIOUS
<1>2. Upto(e, t) = Upto(e, s) + SumFunctionOnSet(e, m)
  BY <1>1, UptoParts
<1>3. IsFiniteSet(m) /\ \A u \in m : e[u] = 0
  BY <1>1, SecondsFinite
<1>4. SumFunctionOnSet(e, m) = 0
  BY <1>3, SumZero
<1> QED BY <1>2, <1>4, UptoIsNat

LEMMA UptoSecond ==
  ASSUME NEW e \in [0 .. LastTime -> Nat], NEW s \in 0 .. LastTime
  PROVE  Upto(e, s) = Upto(e, s - 1) + e[s]
<1>1. {s} = {u \in 0 .. LastTime : s - 1 < u /\ u <= s}
  BY RetryPromiseAssumption
<1>2. s \in Int /\ s - 1 \in Int /\ s - 1 <= s /\ e[s] \in Int
  BY RetryPromiseAssumption
<1>3. Upto(e, s) = Upto(e, s - 1) + SumFunctionOnSet(e, {s})
  BY <1>1, <1>2, UptoParts
<1>4. SumFunctionOnSet(e, {s}) = e[s]
  BY <1>2, SumOne
<1> QED BY <1>3, <1>4

LEMMA UptoBetween ==
  ASSUME NEW e \in [0 .. LastTime -> Nat], NEW s \in 0 .. LastTime + 1,
         NEW t \in 0 .. LastTime, s <= t + 1
  PROVE  SumFunctionOnSet(e, s .. t) = Upto(e, t) - Upto(e, s - 1)
<1>1. s .. t = {u \in 0 .. LastTime : s - 1 < u /\ u <= t}
  BY RetryPromiseAssumption
<1>2. s - 1 \in Int /\ t \in Int /\ s - 1 <= t
  BY RetryPromiseAssumption
<1>3. /\ Upto(e, t) = Upto(e, s - 1) + SumFunctionOnSet(e, s .. t)
      /\ SumFunctionOnSet(e, s .. t) \in Nat
  BY <1>1, <1>2, UptoParts
<1> QED BY <1>2, <1>3, UptoIsNat

LEMMA UptoAll ==
  ASSUME NEW e \in [0 .. LastTime -> Nat]
  PROVE  /\ SumFunctionOnSet(e, 0 .. LastTime) = Upto(e, LastTime)
         /\ \A s \in Int : s < 0 => Upto(e, s) = 0
<1>1. {u \in 0 .. LastTime : u <= LastTime} = 0 .. LastTime
  BY RetryPromiseAssumption
<1>2. \A s \in Int : s < 0 => SecondsTo(s) = {}
  BY DEF SecondsTo
<1> QED BY <1>1, <1>2, SumEmpty, UptoIs DEF Upto

LEMMA UptoSame ==
  ASSUME NEW e \in [0 .. LastTime -> Nat], NEW f, NEW s \in Int,
         \A u \in 0 .. LastTime : u <= s => f[u] = e[u]
  PROVE  Upto(f, s) = Upto(e, s)
<1>1. IsFiniteSet(SecondsTo(s)) /\ \A u \in SecondsTo(s) : e[u] \in Int /\ f[u] = e[u]
  <2>1. \A u \in SecondsTo(s) : u \in 0 .. LastTime /\ u <= s
    BY DEF SecondsTo
  <2> QED BY <2>1, UptoIs, SecondsFinite
<1>2. SumFunctionOnSet(f, SecondsTo(s)) = SumFunctionOnSet(e, SecondsTo(s))
  BY <1>1, SumSame
<1> QED BY <1>2, UptoIs

LEMMA UptoChange ==
  ASSUME NEW e \in [0 .. LastTime -> Nat], NEW f \in [0 .. LastTime -> Nat],
         NEW t \in 0 .. LastTime, \A u \in (0 .. LastTime) \ {t} : f[u] = e[u],
         NEW s \in Int, t <= s
  PROVE  Upto(f, s) = Upto(e, s) - e[t] + f[t]
<1>1. PICK S : S = SecondsTo(s)
  OBVIOUS
<1>2. PICK c \in S : c = t
  BY <1>1 DEF SecondsTo
<1>3. S \subseteq 0 .. LastTime
  BY <1>1, UptoIs
<1>4. /\ IsFiniteSet(S) /\ f[c] \in Int
      /\ \A y \in S : e[y] \in Int
      /\ \A y \in S \ {c} : f[y] = e[y]
  BY <1>1, <1>2, <1>3, SecondsFinite
<1>5. SumFunctionOnSet(f, S) = SumFunctionOnSet(e, S) - e[c] + f[c]
  <2>1. PICK g : g = e
    OBVIOUS
  <2>2. PICK h : h = f
    OBVIOUS
  <2>3. /\ IsFiniteSet(S) /\ h[c] \in Int
        /\ \A y \in S : g[y] \in Int
        /\ \A y \in S \ {c} : h[y] = g[y]
    BY <1>4, <2>1, <2>2
  <2>4. SumFunctionOnSet(h, S) = SumFunctionOnSet(g, S) - g[c] + h[c]
    BY ONLY <2>3, SumUpdate
  <2> QED BY <2>1, <2>2, <2>4
<1> QED BY <1>1, <1>2, <1>5, UptoIs
-----------------------------------------------------------------------------
(* The buckets. *)

LEMMA BucketPlaces ==
  ASSUME NEW b \in Seq(BucketType)
  PROVE  /\ Len(b) \in Nat /\ DOMAIN b = 1 .. Len(b)
         /\ \A i \in DOMAIN b : /\ i \in Nat /\ b[i] \in BucketType /\ b[i].second \in 0 .. LastTime
                                /\ b[i].second \in Int /\ b[i].second <= LastTime
                                /\ b[i].bytes \in Nat /\ b[i].cumulative \in Nat
         /\ (b = <<>>) <=> (Len(b) = 0)
<1>1. Len(b) \in Nat /\ DOMAIN b = 1 .. Len(b) /\ ((b = <<>>) <=> (Len(b) = 0))
  OBVIOUS
<1>2. ASSUME NEW i \in DOMAIN b
      PROVE  /\ i \in Nat /\ b[i] \in BucketType /\ b[i].second \in 0 .. LastTime
             /\ b[i].second \in Int /\ b[i].second <= LastTime
             /\ b[i].bytes \in Nat /\ b[i].cumulative \in Nat
  <2>1. i \in Nat /\ b[i] \in BucketType
    BY <1>1
  <2>2. /\ b[i].second \in 0 .. LastTime
        /\ b[i].bytes \in Nat /\ b[i].cumulative \in Nat
    BY <2>1 DEF BucketType
  <2> QED BY <2>1, <2>2, RetryPromiseAssumption
<1> QED BY <1>1, <1>2

(* The binary search. *)
LEMMA CountUpToIs ==
  ASSUME NEW b \in Seq(BucketType), InOrder(b), NEW c \in Int
  PROVE  /\ CountUpTo(b, c) \in 0 .. Len(b)
         /\ \A i \in DOMAIN b : b[i].second <= c <=> i <= CountUpTo(b, c)
<1> DEFINE T == {k \in 0 .. Len(b) : \A i \in DOMAIN b : i > k => b[i].second > c}
<1>0. Len(b) \in T /\ T \subseteq Nat
  BY BucketPlaces
<1>1. PICK m \in T : \A k \in T : m <= k
  <2> HIDE DEF T
  <2> QED BY <1>0, LeastMember
<1>2. m \in 0 .. Len(b) /\ \A i \in DOMAIN b : i > m => b[i].second > c
  OBVIOUS
<1>3. \A i \in DOMAIN b : i <= m => b[i].second <= c
  <2> SUFFICES ASSUME NEW i \in DOMAIN b, i <= m PROVE b[i].second <= c
    OBVIOUS
  <2>1. m - 1 \in 0 .. Len(b) /\ m \in DOMAIN b /\ m - 1 < m
    BY <1>2, BucketPlaces
  <2>2. m - 1 \notin T
    <3> HIDE DEF T
    <3> QED BY <1>1, <2>1
  <2>3. PICK j \in DOMAIN b : j > m - 1 /\ ~(b[j].second > c)
    BY <2>1, <2>2
  <2>4. j = m
    BY <1>2, <2>1, <2>3, BucketPlaces
  <2>5. i = m \/ b[i].second < b[m].second
    BY <2>1, BucketPlaces DEF InOrder
  <2> QED BY <2>1, <2>3, <2>4, <2>5, BucketPlaces
<1>4. {i \in DOMAIN b : b[i].second <= c} = 1 .. m
  BY <1>2, <1>3, BucketPlaces
<1>5. Cardinality(1 .. m) = m
  BY <1>2, FS_Interval, BucketPlaces
<1>6. CountUpTo(b, c) = m
  BY <1>4, <1>5 DEF CountUpTo
<1> QED BY <1>2, <1>3, <1>6, BucketPlaces

(* The bytes between two buckets. *)
LEMMA NextTotal ==
  ASSUME NEW e \in [0 .. LastTime -> Nat], NEW b \in Seq(BucketType),
         InOrder(b), HasBytes(b, e), NEW i \in DOMAIN b, NEW s \in Int,
         s < b[i].second, s >= b[1].second - 1,
         \A j \in DOMAIN b : j < i => b[j].second <= s
  PROVE  Upto(e, b[i].second) = Upto(e, s) + b[i].bytes
<1>0. /\ b[i].second \in 0 .. LastTime /\ b[i].second - 1 \in Int /\ s <= b[i].second - 1
      /\ b # <<>> /\ b[1].second \in Int
  BY BucketPlaces
<1>1. \A u \in 0 .. LastTime : s < u /\ u <= b[i].second - 1 => e[u] = 0
  <2> SUFFICES ASSUME NEW u \in 0 .. LastTime, s < u, u <= b[i].second - 1, e[u] # 0
               PROVE  FALSE
    OBVIOUS
  <2>0. u >= s + 1 /\ s + 1 >= b[1].second
    BY <1>0
  <2>1. PICK j \in DOMAIN b : b[j].second = u
    <3>1. u >= b[1].second
      BY <1>0
    <3> QED BY <1>0, <2>0, <3>1 DEF HasBytes
  <2>2. j = i \/ j < i \/ i < j
    BY BucketPlaces
  <2> QED BY <1>0, <2>1, <2>2 DEF InOrder
<1>2. Upto(e, b[i].second - 1) = Upto(e, s)
  BY <1>0, <1>1, UptoStays
<1>3. Upto(e, b[i].second) = Upto(e, b[i].second - 1) + e[b[i].second]
  BY <1>0, UptoSecond
<1> QED BY <1>2, <1>3 DEF HasBytes

(* What a window counts. *)
LEMMA WindowCounts ==
  ASSUME NEW e \in [0 .. LastTime -> Nat], NEW current \in Int, NEW b, Faithful(b, e, current),
         NEW c \in Int, c >= current - Retention,
         NEW start, start = WindowStart(b, c)
  PROVE  /\ start \in 1 .. Len(b) + 1
         /\ \A i \in DOMAIN b : b[i].second > c <=> i >= start
         /\ UsageSince(b, c) = Upto(e, LastTime) - Upto(e, c)
         /\ start <= Len(b) =>
              /\ CumulativeBefore(b, start) = Upto(e, c) - Upto(e, b[1].second - 1)
              /\ LastOf(b).cumulative = Upto(e, LastTime) - Upto(e, b[1].second - 1)
<1>0. b \in Seq(BucketType) /\ InOrder(b) /\ HasBytes(b, e) /\ HasTotals(b, e)
  BY DEF Faithful
<1>1. /\ start \in 1 .. Len(b) + 1
      /\ \A i \in DOMAIN b : b[i].second > c <=> i >= start
  <2>1. PICK k : k = CountUpTo(b, c)
    OBVIOUS
  <2>2. /\ k \in 0 .. Len(b) /\ Len(b) \in Nat /\ start = k + 1
        /\ \A i \in DOMAIN b : /\ b[i].second <= c <=> i <= k
                              /\ b[i].second \in Int /\ i \in Nat
    BY <1>0, <2>1, CountUpToIs, BucketPlaces DEF WindowStart
  <2> QED BY <2>2
<1>t. LastTime \in Int /\ Retention \in Int
  BY RetryPromiseAssumption
<1>2. CASE start > Len(b)
  <2>1. UsageSince(b, c) = 0
    BY <1>2 DEF UsageSince
  <2>2. ASSUME NEW u \in 0 .. LastTime, c < u, e[u] # 0 PROVE FALSE
    <3>1. PICK i \in DOMAIN b : b[i].second = u
      BY <1>t, <2>2 DEF Faithful
    <3> QED BY <1>0, <1>1, <1>2, <2>2, <3>1, BucketPlaces
  <2>3. Upto(e, LastTime) = Upto(e, c)
    <3>1. CASE c <= LastTime
      BY <1>t, <2>2, <3>1, UptoStays
    <3>2. CASE LastTime <= c
      <4>1. Upto(e, c) = Upto(e, LastTime)
        BY <1>t, <3>2, UptoStays
      <4> QED BY <4>1
    <3> QED BY <1>t, <3>1, <3>2
  <2>4. Upto(e, c) \in Nat /\ ~(start <= Len(b))
    BY <1>0, <1>1, <1>2, UptoIsNat, BucketPlaces
  <2>5. UsageSince(b, c) = Upto(e, LastTime) - Upto(e, c)
    BY <2>1, <2>3, <2>4
  <2> QED BY <1>1, <2>4, <2>5
<1>3. CASE start <= Len(b)
  <2> DEFINE base == Upto(e, b[1].second - 1)
  <2>1. /\ 1 \in DOMAIN b /\ Len(b) \in DOMAIN b /\ start \in DOMAIN b
        /\ b[1].second \in Int /\ b[1].second - 1 \in Int
        /\ b[Len(b)].second \in Int /\ b[Len(b)].second <= LastTime
        /\ b # <<>> /\ b[1].second <= b[Len(b)].second
        /\ c < b[start].second
    <3>1. 1 \in DOMAIN b /\ Len(b) \in DOMAIN b /\ start \in DOMAIN b /\ b # <<>>
      BY <1>0, <1>1, <1>3, BucketPlaces
    <3>2. 1 = Len(b) \/ 1 < Len(b)
      <4>1. Len(b) \in Nat
        BY <1>0
      <4>2. start \in Int /\ 1 <= start
        BY <1>1
      <4>3. 1 <= Len(b)
        BY ONLY <1>3, <4>1, <4>2
      <4> QED BY ONLY <4>1, <4>3
    <3>3. /\ b[1].second \in Int /\ b[Len(b)].second \in Int /\ b[start].second \in Int
          /\ b[Len(b)].second <= LastTime
      BY <1>0, <3>1, BucketPlaces
    <3>4. b[1].second <= b[Len(b)].second
      BY <1>0, <3>1, <3>2, <3>3 DEF InOrder
    <3>5. start >= start
      BY <1>1
    <3> QED BY <1>1, <3>1, <3>3, <3>4, <3>5
  <2>2. LastOf(b).cumulative = Upto(e, LastTime) - base
    <3>1. ASSUME NEW u \in 0 .. LastTime, b[Len(b)].second < u, e[u] # 0 PROVE FALSE
      <4>1. PICK i \in DOMAIN b : b[i].second = u
        BY <1>0, <2>1, <3>1 DEF HasBytes
      <4>2. i = Len(b) \/ i < Len(b)
        BY <1>0, BucketPlaces
      <4> QED BY <1>0, <2>1, <3>1, <4>1, <4>2 DEF InOrder
    <3>2. Upto(e, LastTime) = Upto(e, b[Len(b)].second)
      <4>1. PICK s \in Int : s = b[Len(b)].second
        BY <2>1
      <4>2. s <= LastTime /\ \A u \in 0 .. LastTime : s < u /\ u <= LastTime => e[u] = 0
        BY <2>1, <3>1, <4>1
      <4>3. Upto(e, LastTime) = Upto(e, s)
        BY <1>t, <4>2, UptoStays
      <4> QED BY <4>1, <4>3
    <3> QED BY <1>0, <2>1, <3>2 DEF HasTotals, LastOf
  <2>3. CumulativeBefore(b, start) = Upto(e, c) - base
    <3>1. CASE start = 1
      <4>1. ASSUME NEW u \in 0 .. LastTime, c < u, u <= b[1].second - 1, e[u] # 0 PROVE FALSE
        <5>1. PICK i \in DOMAIN b : b[i].second = u
          BY <1>t, <4>1 DEF Faithful
        <5>2. i = 1 \/ 1 < i
          BY <1>0, BucketPlaces
        <5> QED BY <1>0, <2>1, <4>1, <5>1, <5>2 DEF InOrder
      <4>2. base = Upto(e, c)
        <5>1. c <= b[1].second - 1
          BY <2>1, <3>1
        <5> QED BY <2>1, <4>1, <5>1, UptoStays
      <4>3. Upto(e, c) \in Nat
        BY UptoIsNat
      <4> QED BY <3>1, <4>2, <4>3 DEF CumulativeBefore
    <3>2. CASE start > 1
      <4> DEFINE p == start - 1
      <4>1. /\ p \in DOMAIN b /\ p < start /\ b[p].second \in Int /\ b[p].second <= c
            /\ b[p].second >= b[1].second
        <5>1. p \in DOMAIN b /\ p \in Nat /\ p < start /\ ~(p >= start) /\ (p = 1 \/ 1 < p)
          <6>1. Len(b) \in Nat /\ DOMAIN b = 1 .. Len(b) /\ start \in DOMAIN b
            BY <1>0, <2>1, BucketPlaces
          <6>2. start \in Nat /\ start <= Len(b)
            BY ONLY <6>1
          <6>3. p \in 1 .. Len(b) /\ p \in Nat /\ p < start
            BY ONLY <3>2, <6>1, <6>2
          <6>4. ~(p >= start) /\ (p = 1 \/ 1 < p)
            BY ONLY <6>2, <6>3
          <6> QED BY ONLY <6>1, <6>3, <6>4
        <5>2. b[p].second \in Int /\ ~(b[p].second > c)
          BY <1>0, <1>1, <5>1, BucketPlaces
        <5>3. b[p].second >= b[1].second
          BY <1>0, <2>1, <5>1, <5>2 DEF InOrder
        <5> QED BY <5>1, <5>2, <5>3
      <4>2. ASSUME NEW u \in 0 .. LastTime, b[p].second < u, u <= c, e[u] # 0 PROVE FALSE
        <5>1. PICK i \in DOMAIN b : b[i].second = u
          BY <1>0, <2>1, <4>1, <4>2 DEF HasBytes
        <5>2. i < start
          BY <1>0, <1>1, <4>2, <5>1, BucketPlaces
        <5>3. i = p \/ i < p
          BY <1>0, <1>1, <5>2, BucketPlaces
        <5> QED BY <1>0, <2>1, <4>1, <4>2, <5>1, <5>3, BucketPlaces DEF InOrder
      <4>3. Upto(e, c) = Upto(e, b[p].second)
        BY <4>1, <4>2, UptoStays
      <4> QED BY <1>0, <3>2, <4>1, <4>3 DEF HasTotals, CumulativeBefore
    <3> QED BY <1>1, <3>1, <3>2
  <2>4. UsageSince(b, c) = LastOf(b).cumulative - CumulativeBefore(b, start)
    BY <1>1, <1>3, <1>0, BucketPlaces DEF UsageSince
  <2>5. base \in Nat /\ Upto(e, c) \in Nat /\ Upto(e, LastTime) \in Nat
    BY <1>t, <2>1, UptoIsNat
  <2> HIDE DEF base
  <2>6. UsageSince(b, c) = Upto(e, LastTime) - Upto(e, c)
    BY <2>2, <2>3, <2>4, <2>5
  <2> QED BY <1>1, <2>2, <2>3, <2>6 DEF base
<1> QED BY <1>0, <1>1, <1>2, <1>3, BucketPlaces

(* Time takes nothing away from the retained buckets. *)
LEMMA FaithfulLater ==
  ASSUME NEW e, NEW b, NEW current \in Int, NEW then \in Int, current <= then,
         Faithful(b, e, current)
  PROVE  Faithful(b, e, then)
<1>0. Retention \in Int /\ \A i \in DOMAIN b : b[i].second \in Int
  BY RetryPromiseAssumption, BucketPlaces DEF Faithful
<1>1. \A i \in DOMAIN b : b[i].second <= then
  BY <1>0 DEF Faithful
<1>2. ASSUME NEW s \in 0 .. LastTime
      PROVE  /\ s > then => e[s] = 0
             /\ (s > then - Retention /\ e[s] # 0) => \E i \in DOMAIN b : b[i].second = s
  <2>1. /\ s > then => s > current
        /\ s > then - Retention => s > current - Retention
    BY <1>0
  <2> QED BY <2>1 DEF Faithful
<1> QED BY <1>1, <1>2 DEF Faithful

LEMMA NoSaturation ==
  ASSUME NEW l \in Int, NEW r \in Int, l + r <= MaxUint
  PROVE  Saturate(l, r) = l + r
BY RetryPromiseAssumption DEF Saturate

LEMMA SeenIs ==
  ASSUME NEW e, NEW t, NEW w, NEW c, t - w.duration = c
  PROVE  SeenAt(e, t, w) = Upto(e, LastTime) - Upto(e, c)
BY DEF SeenAt

(* retryAfter names the first second at which the window is below its      *)
(* limit, if nothing more is recorded.                                     *)
LEMMA RetryIs ==
  ASSUME NEW e \in [0 .. LastTime -> Nat], NEW current \in Int, NEW b, Faithful(b, e, current),
         Upto(e, LastTime) <= MaxUint,
         NEW w \in QuotaWindow, Exceeded(b, current, w), NEW r, r = RetryAfter(b, current, w)
  PROVE  /\ r \in 1 .. Retention
         /\ SeenAt(e, current + r, w) < w.limit /\ SeenAt(e, current + r - 1, w) >= w.limit
<1>0. /\ b \in Seq(BucketType) /\ InOrder(b) /\ HasBytes(b, e) /\ HasTotals(b, e)
      /\ \A i \in DOMAIN b : b[i].second <= current
  BY DEF Faithful
<1>1. /\ Retention \in Int /\ LastTime \in Int /\ MaxUint \in Int
      /\ w.duration \in Int /\ w.duration <= Retention /\ 1 <= w.duration
      /\ w.limit \in Int /\ 1 <= w.limit
  BY RetryPromiseAssumption
<1>2. PICK c \in Int : c = current - w.duration
  BY <1>1
<1>3. PICK start : start = WindowStart(b, c)
  OBVIOUS
<1>4. PICK used : used = UsageSince(b, c)
  OBVIOUS
<1>5. /\ start \in 1 .. Len(b) + 1
      /\ \A i \in DOMAIN b : b[i].second > c <=> i >= start
      /\ used = Upto(e, LastTime) - Upto(e, c)
      /\ start <= Len(b) =>
           /\ CumulativeBefore(b, start) = Upto(e, c) - Upto(e, b[1].second - 1)
           /\ LastOf(b).cumulative = Upto(e, LastTime) - Upto(e, b[1].second - 1)
  <2>1. c >= current - Retention
    BY <1>1, <1>2
  <2> QED BY <1>3, <1>4, <2>1, WindowCounts
<1>6. used >= w.limit
  BY <1>2, <1>4 DEF Exceeded
<1>7. start <= Len(b)
  <2>1. start > Len(b) => used = 0
    BY <1>3, <1>4 DEF UsageSince
  <2>2. used # 0
    BY <1>1, <1>6
  <2>3. start \in Int /\ Len(b) \in Int
    BY <1>0, <1>5
  <2> QED BY ONLY <2>1, <2>2, <2>3
<1>8. PICK before : before = CumulativeBefore(b, start)
  OBVIOUS
<1>9. PICK base : base = Upto(e, b[1].second - 1)
  OBVIOUS
<1>10. /\ Len(b) \in Nat /\ Len(b) \in DOMAIN b /\ 1 \in DOMAIN b /\ start \in DOMAIN b
       /\ b[1].second \in Int /\ DOMAIN b = 1 .. Len(b)
  <2>1. Len(b) \in Nat /\ DOMAIN b = 1 .. Len(b)
    BY <1>0
  <2>2. start \in Int /\ 1 <= start
    BY <1>5
  <2>3. 1 <= Len(b) /\ start \in 1 .. Len(b) /\ Len(b) \in 1 .. Len(b) /\ 1 \in 1 .. Len(b)
    BY ONLY <1>7, <2>1, <2>2
  <2> QED BY <1>0, <2>1, <2>3, BucketPlaces
<1>11. /\ base \in Nat /\ Upto(e, c) \in Nat /\ Upto(e, LastTime) \in Nat
       /\ before = Upto(e, c) - base /\ LastOf(b).cumulative = Upto(e, LastTime) - base
  <2>1. b[1].second - 1 \in Int
    BY <1>10
  <2> QED BY <1>1, <1>5, <1>7, <1>8, <1>9, <2>1, UptoIsNat
<1>all. PICK all \in Nat : all = Upto(e, LastTime)
  BY <1>11
<1>out. PICK out \in Nat : out = Upto(e, c)
  BY <1>11
<1>n. /\ before = out - base /\ used = all - out /\ LastOf(b).cumulative = all - base
      /\ base \in Nat /\ all <= MaxUint
  BY <1>5, <1>11, <1>all, <1>out
<1>12. PICK target : target = Saturate(before, used - w.limit + 1)
  OBVIOUS
<1>13. target = before + used - w.limit + 1 /\ target \in Int
  <2>1. before \in Int /\ used \in Int
    BY <1>n
  <2>2. before + (used - w.limit + 1) <= MaxUint
    BY <1>1, <1>n
  <2>3. used - w.limit + 1 \in Int
    BY <1>1, <2>1
  <2>4. Saturate(before, used - w.limit + 1) = before + (used - w.limit + 1)
    BY <2>1, <2>2, <2>3, NoSaturation
  <2> QED BY <1>1, <1>12, <2>1, <2>4
<1>14. PICK enough : enough = {i \in start .. Len(b) : b[i].cumulative >= target}
  OBVIOUS
<1>15. Len(b) \in enough /\ enough \subseteq Nat
  <2>1. b[Len(b)].cumulative >= target
    BY <1>1, <1>n, <1>13 DEF LastOf
  <2>2. Len(b) \in start .. Len(b)
    BY <1>5, <1>7, <1>10
  <2> QED BY <1>5, <1>10, <1>14, <2>1, <2>2
<1>16. PICK first : first = CHOOSE i \in enough : \A j \in enough : i <= j
  OBVIOUS
<1>17. first \in enough /\ \A j \in enough : first <= j
  <2>1. \E i \in enough : \A j \in enough : i <= j
    BY <1>15, LeastMember
  <2> QED BY <1>16, <2>1
<1>18. /\ first \in DOMAIN b /\ first >= start /\ first \in Nat
       /\ b[first].cumulative >= target /\ b[first].second \in Int
       /\ b[first].second > c /\ b[first].second <= current
       /\ b[first].cumulative \in Int
  <2>1. first \in start .. Len(b) /\ b[first].cumulative >= target
    BY <1>14, <1>17
  <2>2. first \in DOMAIN b /\ first >= start /\ first \in Nat
    BY <1>5, <1>10, <2>1
  <2> QED BY <1>0, <1>5, <2>1, <2>2, BucketPlaces
<1>19. r = b[first].second + w.duration - current
  <2>1. PICK retry : retry = b[first].second + w.duration - current
    OBVIOUS
  <2>2. retry \in Int /\ ~(retry < 1) /\ enough # {}
    <3>1. PICK s \in Int : s = b[first].second
      BY <1>18
    <3>2. retry = s + w.duration - current /\ s > current - w.duration
      BY <1>2, <1>18, <2>1, <3>1
    <3> QED BY <1>1, <1>15, <3>2
  <2>3. r = IF enough = {} \/ retry < 1 THEN 1 ELSE retry
    BY <1>2, <1>3, <1>4, <1>8, <1>12, <1>14, <1>16, <2>1 DEF RetryAfter
  <2> QED BY <2>1, <2>2, <2>3
<1>s. PICK s \in Int : s = b[first].second
  BY <1>18
<1>d. PICK d \in Int : d = w.duration
  BY <1>1
<1>l. PICK limit \in Int : limit = w.limit
  BY <1>1
<1>20. r \in 1 .. Retention
  <2>1. s > current - d /\ s <= current /\ r = s + d - current /\ d <= Retention
    BY <1>1, <1>2, <1>18, <1>19, <1>s, <1>d
  <2>2. current \in Int /\ Retention \in Int
    BY <1>1
  <2>3. s \in Int /\ d \in Int
    BY <1>s, <1>d
  <2> QED BY ONLY <2>1, <2>2, <2>3
<1>21. current + r - d = s /\ current + r - 1 - d = s - 1 /\ s - 1 \in Int
  <2>1. r = s + d - current
    BY <1>19, <1>s, <1>d
  <2> QED BY <2>1
<1>m. target = all - base - limit + 1
  <2>1. target = (out - base) + (all - out) - limit + 1
    BY <1>n, <1>13, <1>l
  <2>2. base \in Int
    BY <1>n
  <2> QED BY ONLY <2>1, <2>2, <1>all, <1>out, <1>l
<1>22. SeenAt(e, current + r, w) < w.limit
  <2>1. b[first].cumulative = Upto(e, s) - base
    BY <1>0, <1>9, <1>18, <1>s DEF HasTotals
  <2>2. PICK seen \in Nat : seen = Upto(e, s)
    BY UptoIsNat
  <2>3. SeenAt(e, current + r, w) = all - seen
    <3>2. PICK t : t = current + r
      OBVIOUS
    <3>3. PICK u : u = s
      OBVIOUS
    <3>4. t - w.duration = u
      BY <1>1, <1>d, <1>20, <1>21, <3>2, <3>3
    <3>5. SeenAt(e, t, w) = Upto(e, LastTime) - Upto(e, u)
      BY <3>4, SeenIs
    <3> QED BY <1>all, <2>2, <3>2, <3>3, <3>5
  <2>4. seen - base >= all - base - limit + 1
    BY <1>18, <1>m, <2>1, <2>2
  <2>5. all - seen < limit
    <3>1. base \in Int
      BY <1>n
    <3> QED BY ONLY <2>4, <3>1, <2>2, <1>all, <1>l
  <2> QED BY <1>l, <2>3, <2>5
<1>23. Upto(e, s - 1) - base < target /\ Upto(e, s - 1) \in Nat
  <2>0. s - 1 \in Int /\ Upto(e, s - 1) \in Nat
    BY <1>21, UptoIsNat
  <2>1. CASE first = start
    <3>1. ASSUME NEW u \in 0 .. LastTime, c < u, u <= s - 1, e[u] # 0
          PROVE  FALSE
      <4>0. u > current - Retention
        BY <1>1, <1>2, <3>1
      <4>1. PICK j \in DOMAIN b : b[j].second = u
        BY <4>0, <3>1 DEF Faithful
      <4>2. j >= start /\ (j = first \/ first < j)
        BY <1>0, <1>5, <1>18, <2>1, <3>1, <4>1, BucketPlaces
      <4> QED BY <1>0, <1>18, <1>s, <3>1, <4>1, <4>2 DEF InOrder
    <3>2. PICK t \in Int : t = s - 1
      BY <1>21
    <3>3. Upto(e, t) = Upto(e, c)
      <4>1. c <= t /\ \A u \in 0 .. LastTime : c < u /\ u <= t => e[u] = 0
        BY <1>18, <1>s, <3>1, <3>2
      <4> QED BY <4>1, UptoStays
    <3>4. Upto(e, s - 1) = out
      BY <1>out, <3>2, <3>3
    <3>5. all - out >= limit /\ base \in Int
      BY <1>6, <1>n, <1>l
    <3>6. out - base < all - base - limit + 1
      BY ONLY <3>5, <1>all, <1>out, <1>l
    <3> QED BY <1>m, <2>0, <3>4, <3>6
  <2>2. CASE first > start
    <3>1. PICK p : p = first - 1
      OBVIOUS
    <3>2. /\ p \in start .. Len(b) /\ p \in DOMAIN b /\ p < first /\ p \in Nat /\ 1 <= p
      BY <1>5, <1>10, <1>18, <2>2, <3>1
    <3>3. ~(b[p].cumulative >= target) /\ b[p].cumulative \in Int /\ b[p].second \in Int
      <4>1. p \notin enough
        BY <1>17, <1>18, <3>2
      <4> QED BY <1>0, <1>14, <3>2, <4>1, BucketPlaces
    <3>4. ASSUME NEW u \in 0 .. LastTime, b[p].second < u, u <= s - 1, e[u] # 0
          PROVE  FALSE
      <4>0. u >= b[1].second /\ b # <<>>
        <5>1. p = 1 \/ 1 < p
          BY <3>2
        <5> QED BY <1>0, <1>10, <3>2, <3>3, <3>4, <5>1 DEF InOrder
      <4>1. PICK j \in DOMAIN b : b[j].second = u
        BY <1>0, <3>4, <4>0 DEF HasBytes
      <4>2. j = p \/ j < p \/ j = first \/ first < j
        BY <1>0, <1>18, <3>1, <3>2, BucketPlaces
      <4> QED BY <1>0, <1>18, <1>s, <3>2, <3>3, <3>4, <4>1, <4>2 DEF InOrder
    <3>5. PICK t \in Int : t = s - 1
      BY <1>21
    <3>6. PICK q \in Int : q = b[p].second
      BY <3>3
    <3>7. Upto(e, t) = Upto(e, q)
      <4>1. q <= t
        BY <1>0, <1>18, <1>s, <3>2, <3>5, <3>6 DEF InOrder
      <4>2. \A u \in 0 .. LastTime : q < u /\ u <= t => e[u] = 0
        BY <3>4, <3>5, <3>6
      <4> QED BY <4>1, <4>2, UptoStays
    <3>8. b[p].cumulative = Upto(e, q) - base
      BY <1>0, <1>9, <3>2, <3>6 DEF HasTotals
    <3> QED BY <1>13, <2>0, <3>3, <3>5, <3>7, <3>8, <1>n
  <2> QED BY <1>5, <1>18, <2>1, <2>2
<1>24. SeenAt(e, current + r - 1, w) >= w.limit
  <2>1. PICK seen \in Nat : seen = Upto(e, s - 1)
    BY <1>23
  <2>2. SeenAt(e, current + r - 1, w) = all - seen
    <3>2. PICK t : t = current + r - 1
      OBVIOUS
    <3>3. PICK u : u = s - 1
      OBVIOUS
    <3>4. t - w.duration = u
      BY <1>1, <1>d, <1>20, <1>21, <3>2, <3>3
    <3>5. SeenAt(e, t, w) = Upto(e, LastTime) - Upto(e, u)
      BY <3>4, SeenIs
    <3> QED BY <1>all, <2>1, <3>2, <3>3, <3>5
  <2>3. seen - base < all - base - limit + 1
    BY <1>23, <1>m, <2>1
  <2>4. all - seen >= limit
    <3>1. base \in Int
      BY <1>n
    <3> QED BY ONLY <2>3, <3>1, <2>1, <1>all, <1>l
  <2> QED BY <1>l, <2>2, <2>4
<1> QED BY <1>20, <1>22, <1>24
(* What RebuildCumulative sums up. *)
LEMMA TotalsAre ==
  ASSUME NEW e \in [0 .. LastTime -> Nat], NEW b \in Seq(BucketType),
         InOrder(b), HasBytes(b, e),
         NEW bytes, bytes = [i \in DOMAIN b |-> b[i].bytes], NEW i \in DOMAIN b
  PROVE  SumFunctionOnSet(bytes, 1 .. i) = Upto(e, b[i].second) - Upto(e, b[1].second - 1)
<1> DEFINE From(n) == Upto(e, b[n].second) - Upto(e, b[1].second - 1)
           T == {n \in Nat : n \in DOMAIN b => SumFunctionOnSet(bytes, 1 .. n) = From(n)}
<1>0. /\ Len(b) \in Nat /\ DOMAIN b = 1 .. Len(b)
      /\ \A k \in DOMAIN b : bytes[k] = b[k].bytes /\ bytes[k] \in Nat
      /\ \A k \in DOMAIN b : b[k].second \in Int /\ Upto(e, b[k].second) \in Nat
  BY BucketPlaces, UptoIsNat
<1>1. 0 \in T
  BY <1>0
<1>2. ASSUME NEW n \in Nat, n \in T PROVE n + 1 \in T
  <2> SUFFICES ASSUME n + 1 \in DOMAIN b
               PROVE  SumFunctionOnSet(bytes, 1 .. n + 1) = From(n + 1)
    OBVIOUS
  <2>1. PICK m \in DOMAIN b : m = n + 1
    OBVIOUS
  <2>2. /\ 1 .. m = (1 .. n) \cup {m} /\ m \notin 1 .. n /\ IsFiniteSet(1 .. n)
        /\ \A k \in (1 .. n) \cup {m} : k \in DOMAIN b
    <3>1. n \in Int /\ m = n + 1 /\ m \in 1 .. Len(b)
      BY <1>0, <2>1
    <3>2. 1 .. m = (1 .. n) \cup {m} /\ m \notin 1 .. n
      BY <3>1
    <3>3. \A k \in (1 .. n) \cup {m} : k \in 1 .. Len(b)
      BY <1>0, <3>1
    <3>4. IsFiniteSet(1 .. n)
      BY <3>1, FS_Interval
    <3> QED BY <1>0, <3>2, <3>3, <3>4
  <2>3. SumFunctionOnSet(bytes, (1 .. n) \cup {m}) = bytes[m] + SumFunctionOnSet(bytes, 1 .. n)
    <3>1. \A k \in (1 .. n) \cup {m} : bytes[k] \in Int
      BY <1>0, <2>2
    <3>2. PICK S : S = 1 .. n
      OBVIOUS
    <3> QED BY <2>2, <3>1, <3>2, SumAdd
  <2>4. 1 \in DOMAIN b /\ b[1].second \in Int /\ b[1].second - 1 \in Int
    BY <1>0, <2>2, <2>1
  <2>5. Upto(e, b[1].second - 1) \in Nat
    BY <2>4, UptoIsNat
  <2>6. SumFunctionOnSet(bytes, 1 .. m) = bytes[m] + SumFunctionOnSet(bytes, 1 .. n)
    BY <2>2, <2>3
  <2>7. CASE n = 0
    <3>1. m = 1 /\ 1 .. n = {}
      BY <2>1, <2>7
    <3>2. SumFunctionOnSet(bytes, 1 .. m) = bytes[m]
      <4>1. SumFunctionOnSet(bytes, 1 .. n) = 0
        <5>1. PICK S : S = 1 .. n
          OBVIOUS
        <5> QED BY <3>1, <5>1, SumEmpty
      <4>2. bytes[m] \in Int
        BY <1>0
      <4> QED BY <2>6, <4>1, <4>2
    <3>3. PICK s \in Int : s = b[1].second - 1
      BY <2>4
    <3>4. Upto(e, b[m].second) = Upto(e, s) + b[m].bytes
      <4>1. /\ s < b[m].second /\ s >= b[1].second - 1
            /\ \A j \in DOMAIN b : j < m => b[j].second <= s
        BY <1>0, <2>4, <3>1, <3>3
      <4> QED BY <4>1, NextTotal
    <3>5. bytes[m] = From(m)
      BY <1>0, <2>5, <3>3, <3>4
    <3> QED BY <2>1, <3>2, <3>5
  <2>8. CASE n # 0
    <3>1. n \in DOMAIN b /\ n < m
      BY <1>0, <2>1, <2>8
    <3>2. PICK s \in Int : s = b[n].second
      BY <1>0, <3>1
    <3>3. SumFunctionOnSet(bytes, 1 .. n) = Upto(e, s) - Upto(e, b[1].second - 1)
      BY <1>2, <3>1, <3>2
    <3>4. Upto(e, b[m].second) = Upto(e, s) + b[m].bytes
      <4>1. \A j \in DOMAIN b : j < m => j = n \/ j < n
        BY <1>0, <2>1
      <4>2. n = 1 \/ 1 < n
        BY <1>0, <3>1
      <4>3. s < b[m].second
        BY <3>1, <3>2 DEF InOrder
      <4>4. s >= b[1].second - 1
        <5>1. b[1].second <= s
          BY <2>4, <3>1, <3>2, <4>2 DEF InOrder
        <5> QED BY <2>4, <5>1
      <4>5. \A j \in DOMAIN b : j < m => b[j].second <= s
        <5> SUFFICES ASSUME NEW j \in DOMAIN b, j < m PROVE b[j].second <= s
          OBVIOUS
        <5>1. j < n => b[j].second < s
          BY <3>1, <3>2 DEF InOrder
        <5>2. b[j].second \in Int
          BY <1>0
        <5> QED BY <3>2, <4>1, <5>1, <5>2
      <4> QED BY <4>3, <4>4, <4>5, NextTotal
    <3>5. Upto(e, s) \in Nat
      BY UptoIsNat
    <3>6. bytes[m] + SumFunctionOnSet(bytes, 1 .. n) = From(m)
      BY <1>0, <2>5, <3>3, <3>4, <3>5
    <3> QED BY <2>1, <2>6, <3>6
  <2> QED BY <2>7, <2>8
<1>3. Nat \subseteq T
  <2> HIDE DEF T
  <2> QED BY <1>1, <1>2, SetInduction
<1>4. i \in Nat
  BY <1>0
<1> QED BY <1>3, <1>4

(* A bucket for this second, behind those of the seconds before it. *)
LEMMA NewLast ==
  ASSUME NEW e \in [0 .. LastTime -> Nat], NEW current \in 0 .. LastTime,
         NEW f \in [0 .. LastTime -> Nat],
         \A s \in 0 .. LastTime : s # current => f[s] = e[s],
         NEW b, Faithful(b, e, current),
         NEW c \in Seq(BucketType), NEW n \in DOMAIN c, n = Len(c),
         \A i \in DOMAIN c : i < n => i \in DOMAIN b /\ c[i] = b[i] /\ b[i].second < current,
         \A i \in DOMAIN b : b[i].second < current => i < n,
         c[n].second = current, c[n].bytes = f[current],
         c[n].cumulative = Upto(f, current) - Upto(f, c[1].second - 1)
  PROVE  Faithful(c, f, current)
<1>0. /\ b \in Seq(BucketType) /\ InOrder(b) /\ HasBytes(b, e) /\ HasTotals(b, e)
      /\ \A i \in DOMAIN b : b[i].second <= current /\ b[i].second \in 0 .. LastTime /\ i \in Nat
      /\ DOMAIN c = 1 .. n /\ n \in Nat /\ current \in Int /\ LastTime \in Int /\ Retention \in Int
      /\ DOMAIN b = 1 .. Len(b) /\ Len(b) \in Nat
  BY BucketPlaces, RetryPromiseAssumption DEF Faithful
<1>1. \A i \in DOMAIN c : (i = n \/ i < n) /\ i \in Nat /\ 1 <= i
  BY <1>0
<1>2. \A i \in DOMAIN c : c[i].second <= current
  BY <1>0, <1>1
<1>3. InOrder(c)
  <2> SUFFICES ASSUME NEW i \in DOMAIN c, NEW j \in DOMAIN c, i < j
               PROVE  c[i].second < c[j].second
    BY DEF InOrder
  <2>1. i < n
    BY <1>0, <1>1
  <2> QED BY <1>0, <1>1, <2>1 DEF InOrder
<1>4. ASSUME NEW s \in 0 .. LastTime, s < current, NEW i \in DOMAIN b, b[i].second = s
      PROVE  i \in DOMAIN c /\ c[i].second = s
  <2>1. i < n
    BY <1>4
  <2>2. i \in DOMAIN c
    BY <1>0, <2>1
  <2> QED BY <1>4, <2>1, <2>2
<1>5. \A s \in 0 .. LastTime : s > current => f[s] = 0
  BY <1>0 DEF Faithful
<1>6. ASSUME NEW s \in 0 .. LastTime, s > current - Retention, f[s] # 0
      PROVE  \E i \in DOMAIN c : c[i].second = s
  <2>1. s = current \/ s < current
    BY <1>0, <1>5, <1>6
  <2>2. CASE s = current
    BY <2>2
  <2>3. CASE s < current
    <3>1. e[s] # 0
      BY <1>0, <1>6, <2>3
    <3>2. PICK i \in DOMAIN b : b[i].second = s
      BY <1>6, <3>1 DEF Faithful
    <3> QED BY <1>4, <2>3, <3>2
  <2> QED BY <2>1, <2>2, <2>3
<1>first. \/ n = 1
          \/ n > 1 /\ 1 \in DOMAIN b /\ b # <<>> /\ c[1] = b[1] /\ b[1].second < current
  <2>1. 1 \in DOMAIN c /\ (n = 1 \/ n > 1)
    BY <1>0
  <2>2. 1 \in DOMAIN b => b # <<>>
    BY <1>0, BucketPlaces
  <2> QED BY <2>1, <2>2
<1>7. HasBytes(c, f)
  <2>1. ASSUME NEW i \in DOMAIN c PROVE c[i].bytes = f[c[i].second]
    <3>1. CASE i = n
      BY <3>1
    <3>2. CASE i < n
      <4>1. i \in DOMAIN b /\ c[i] = b[i] /\ b[i].second < current
        BY <3>2
      <4>2. b[i].bytes = e[b[i].second]
        BY <1>0, <4>1 DEF HasBytes
      <4> QED BY <1>0, <4>1, <4>2
    <3> QED BY <1>1, <3>1, <3>2
  <2>2. ASSUME NEW s \in 0 .. LastTime, s >= c[1].second, f[s] # 0
        PROVE  \E i \in DOMAIN c : c[i].second = s
    <3>1. s = current \/ s < current
      BY <1>0, <1>5, <2>2
    <3>2. CASE s = current
      BY <3>2
    <3>3. CASE s < current
      <4>1. n > 1
        <5>1. n # 1
          BY <1>0, <2>2, <3>3
        <5> QED BY <1>0, <5>1
      <4>2. b # <<>> /\ s >= b[1].second /\ e[s] # 0
        BY <1>0, <1>first, <2>2, <3>3, <4>1
      <4>3. PICK i \in DOMAIN b : b[i].second = s
        BY <1>0, <4>2 DEF HasBytes
      <4> QED BY <1>4, <3>3, <4>3
    <3> QED BY <3>1, <3>2, <3>3
  <2> QED BY <2>1, <2>2 DEF HasBytes
<1>8. HasTotals(c, f)
  <2> SUFFICES ASSUME NEW i \in DOMAIN c
               PROVE  c[i].cumulative = Upto(f, c[i].second) - Upto(f, c[1].second - 1)
    BY DEF HasTotals
  <2>1. CASE i = n
    BY <2>1
  <2>2. CASE i < n
    <3>1. i \in DOMAIN b /\ c[i] = b[i] /\ b[i].second < current /\ b[i].second \in Int
      BY <1>0, <2>2
    <3>2. c[1] = b[1] /\ b[1].second < current /\ b[1].second \in Int /\ b[1].second - 1 \in Int
      BY <1>0, <1>1, <1>first, <2>2
    <3>3. b[i].cumulative = Upto(e, b[i].second) - Upto(e, b[1].second - 1)
      BY <1>0, <3>1 DEF HasTotals
    <3>4. Upto(f, b[i].second) = Upto(e, b[i].second)
      <4>1. PICK s \in Int : s = b[i].second
        BY <3>1
      <4>2. \A u \in 0 .. LastTime : u <= s => f[u] = e[u]
        BY <1>0, <3>1, <4>1
      <4> QED BY ONLY <4>1, <4>2, UptoSame
    <3>5. Upto(f, b[1].second - 1) = Upto(e, b[1].second - 1)
      <4>1. PICK s \in Int : s = b[1].second - 1
        BY <3>2
      <4>2. \A u \in 0 .. LastTime : u <= s => f[u] = e[u]
        BY <1>0, <3>2, <4>1
      <4> QED BY ONLY <4>1, <4>2, UptoSame
    <3> QED BY <3>1, <3>2, <3>3, <3>4, <3>5
  <2> QED BY <1>1, <2>1, <2>2
<1> QED BY <1>2, <1>3, <1>5, <1>6, <1>7, <1>8 DEF Faithful
LEMMA IsSequence ==
  ASSUME NEW S, NEW n \in Nat, NEW c \in [1 .. n -> S]
  PROVE  c \in Seq(S) /\ Len(c) = n
OBVIOUS

(* The oldest and the last bucket. *)
LEMMA EndPlaces ==
  ASSUME NEW b \in Seq(BucketType), InOrder(b), b # <<>>,
         NEW m, m = LastOf(b).second, NEW l, l = b[1].second
  PROVE  /\ 1 \in DOMAIN b /\ Len(b) \in DOMAIN b /\ 1 <= Len(b)
         /\ m = b[Len(b)].second
         /\ l \in Int /\ m \in Int /\ l <= m
         /\ \A i \in DOMAIN b :
              /\ b[i].second \in Int /\ l <= b[i].second /\ b[i].second <= m
              /\ i < Len(b) => b[i].second < m
<1>1. /\ 1 \in DOMAIN b /\ Len(b) \in DOMAIN b /\ 1 <= Len(b)
      /\ m = b[Len(b)].second
  BY DEF LastOf
<1>2. \A i \in DOMAIN b : b[i].second \in Int
  BY BucketPlaces
<1>3. \A i \in DOMAIN b : (i = 1 \/ 1 < i) /\ (i = Len(b) \/ i < Len(b))
  OBVIOUS
<1>4. ASSUME NEW i \in DOMAIN b
      PROVE  l <= b[i].second /\ b[i].second <= m /\ (i < Len(b) => b[i].second < m)
  <2>1. 1 < i => b[1].second < b[i].second
    BY <1>1 DEF InOrder
  <2>2. i < Len(b) => b[i].second < b[Len(b)].second
    BY <1>1 DEF InOrder
  <2>3. b[1].second \in Int /\ b[Len(b)].second \in Int /\ b[i].second \in Int
    BY <1>1, <1>2
  <2> QED BY <1>1, <1>3, <2>1, <2>2, <2>3
<1> QED BY <1>1, <1>2, <1>4

(* add, at a second that no bucket is behind. *)
LEMMA AddFaithful ==
  ASSUME NEW e \in [0 .. LastTime -> Nat], NEW current \in 0 .. LastTime, NEW a \in Nat,
         NEW f, f = [e EXCEPT ![current] = @ + a], Upto(f, LastTime) <= MaxUint,
         NEW b, Faithful(b, e, current)
  PROVE  Faithful(Add(b, current, a), f, current)
<1>0. /\ b \in Seq(BucketType) /\ InOrder(b) /\ HasBytes(b, e) /\ HasTotals(b, e)
      /\ \A i \in DOMAIN b : b[i].second <= current /\ b[i].second \in 0 .. LastTime /\ i \in Nat
      /\ current \in Int /\ LastTime \in Int /\ Retention \in Int /\ 1 <= Retention /\ MaxUint \in Int
      /\ DOMAIN b = 1 .. Len(b) /\ Len(b) \in Nat
      /\ f \in [0 .. LastTime -> Nat] /\ f[current] = e[current] + a
      /\ e[current] \in Nat
      /\ \A s \in 0 .. LastTime : s # current => f[s] = e[s]
  BY BucketPlaces, RetryPromiseAssumption DEF Faithful
<1>last. PICK last : last = LastOf(b).second
  OBVIOUS
<1>oldest. PICK oldest : oldest = b[1].second
  OBVIOUS
<1>ends. b # <<>> =>
          /\ 1 \in DOMAIN b /\ Len(b) \in DOMAIN b /\ 1 <= Len(b)
          /\ last = b[Len(b)].second
          /\ oldest \in Int /\ last \in Int /\ oldest <= last /\ last <= current
          /\ \A i \in DOMAIN b :
              /\ b[i].second \in Int /\ oldest <= b[i].second /\ b[i].second <= last
              /\ i < Len(b) => b[i].second < last
  <2> SUFFICES ASSUME b # <<>>
               PROVE  /\ 1 \in DOMAIN b /\ Len(b) \in DOMAIN b /\ 1 <= Len(b)
                      /\ last = b[Len(b)].second
                      /\ oldest \in Int /\ last \in Int /\ oldest <= last /\ last <= current
                      /\ \A i \in DOMAIN b :
                          /\ b[i].second \in Int /\ oldest <= b[i].second /\ b[i].second <= last
                          /\ i < Len(b) => b[i].second < last
    OBVIOUS
  <2>1. b \in Seq(BucketType) /\ InOrder(b) /\ b # <<>>
    BY <1>0
  <2>2. /\ 1 \in DOMAIN b /\ Len(b) \in DOMAIN b /\ 1 <= Len(b)
        /\ last = b[Len(b)].second
        /\ oldest \in Int /\ last \in Int /\ oldest <= last
        /\ \A i \in DOMAIN b :
            /\ b[i].second \in Int /\ oldest <= b[i].second /\ b[i].second <= last
            /\ i < Len(b) => b[i].second < last
    BY ONLY <1>last, <1>oldest, <2>1, EndPlaces
  <2>3. last <= current
    BY <1>0, <2>2
  <2> QED BY ONLY <2>2, <2>3
<1>none. b = <<>> => DOMAIN b = {} /\ Len(b) = 0
  OBVIOUS
<1>some. b # <<>> => Len(b) > 0
  BY <1>0, <1>ends
<1>1. /\ Upto(f, current) = Upto(f, current - 1) + f[current]
      /\ Upto(f, current) <= MaxUint
      /\ Upto(f, current) \in Nat /\ Upto(f, current - 1) \in Nat
  <2>1. f[current] \in Nat /\ current - 1 \in Int
    BY <1>0
  <2>2. Upto(f, current) \in Nat /\ Upto(f, current - 1) \in Nat /\ Upto(f, LastTime) \in Nat
    BY ONLY <1>0, <2>1, UptoIsNat
  <2>3. Upto(f, current) = Upto(f, current - 1) + f[current]
    BY ONLY <1>0, UptoSecond
  <2>4. Upto(f, current) <= Upto(f, LastTime)
    <3>1. current <= LastTime
      BY <1>0
    <3> QED BY ONLY <1>0, <3>1, UptoGrows
  <2> QED BY <1>0, <2>2, <2>3, <2>4
<1>2. ASSUME b = <<>> \/ current > last
      PROVE  Faithful(AppendBucket(b, current, a), f, current)
  <2>1. e[current] = 0
    <3>1. ASSUME e[current] # 0 PROVE FALSE
      <4>1. PICK i \in DOMAIN b : b[i].second = current
        BY <1>0, <3>1 DEF Faithful
      <4>2. b # <<>> /\ current <= last /\ last \in Int /\ current \in Int
        <5>1. b # <<>>
          BY <1>none
        <5> QED BY <1>0, <1>ends, <4>1, <5>1
      <4> QED BY ONLY <1>2, <4>2
    <3> QED BY <3>1
  <2>2. PICK running : running = Saturate(CumulativeBefore(b, Len(b) + 1), a)
    OBVIOUS
  <2>3. PICK new : new = [second |-> current, bytes |-> a, cumulative |-> running]
    OBVIOUS
  <2>4. PICK c : c = Append(b, new)
    OBVIOUS
  <2>5. PICK n : n = Len(b) + 1
    OBVIOUS
  <2>6. /\ DOMAIN c = 1 .. n /\ Len(c) = n /\ n \in Nat /\ n \in DOMAIN c
        /\ c[n] = new /\ \A i \in DOMAIN b : c[i] = b[i]
        /\ \A i \in DOMAIN c : i < n => i \in DOMAIN b
        /\ \A i \in DOMAIN b : i < n
    BY <1>0, <2>4, <2>5
  <2>7. \A i \in DOMAIN b : b[i].second < current
    <3> SUFFICES ASSUME NEW i \in DOMAIN b PROVE b[i].second < current
      OBVIOUS
    <3>1. b # <<>>
      BY <1>none
    <3>2. b[i].second \in Int /\ b[i].second <= last /\ last \in Int /\ current \in Int
      BY <1>0, <1>ends, <3>1
    <3> QED BY ONLY <1>2, <3>1, <3>2
  <2>8. running = Upto(f, current) - Upto(f, c[1].second - 1)
    <3>1. CASE b = <<>>
      <4>1. c[1].second = current /\ running = Saturate(0, a)
        BY <1>0, <2>2, <2>3, <2>5, <2>6, <3>1 DEF CumulativeBefore
      <4>0. f[current] = e[current] + a /\ a \in Nat /\ MaxUint \in Int
        BY <1>0
      <4>2. a = f[current]
        BY ONLY <2>1, <4>0
      <4>3. 0 + a <= MaxUint
        BY ONLY <1>1, <4>0, <4>2
      <4>4. Saturate(0, a) = a
        <5>1. 0 \in Int /\ a \in Int
          BY ONLY <4>0
        <5>2. Saturate(0, a) = 0 + a
          BY ONLY <4>3, <5>1, NoSaturation
        <5> QED BY ONLY <4>0, <5>2
      <4>5. Upto(f, current) - Upto(f, current - 1) = a
        BY <1>1, <4>2
      <4> QED BY <4>1, <4>4, <4>5
    <3>2. CASE b # <<>>
      <4>1. /\ 1 \in DOMAIN b /\ Len(b) \in DOMAIN b /\ Len(b) > 0 /\ c[1] = b[1]
            /\ b[1].second \in Int /\ b[Len(b)].second \in Int /\ b[1].second - 1 \in Int
        <5>1. b[1].second \in Int /\ b[Len(b)].second \in Int
          BY <1>last, <1>oldest, <1>ends, <3>2
        <5> QED BY <1>ends, <1>some, <2>6, <3>2, <5>1
      <4>2. CumulativeBefore(b, Len(b) + 1) = b[Len(b)].cumulative
        BY <1>0, <4>1 DEF CumulativeBefore
      <4>3. b[Len(b)].cumulative = Upto(e, b[Len(b)].second) - Upto(e, b[1].second - 1)
        BY <1>0, <4>1 DEF HasTotals
      <4>4. PICK s \in Int : s = b[Len(b)].second
        BY <4>1
      <4>5. PICK t \in Int : t = b[1].second - 1
        BY <4>1
      <4>6. PICK u \in Int : u = current - 1
        BY <1>0
      <4>7. Upto(e, u) = Upto(e, s)
        <5>1. ASSUME NEW v \in 0 .. LastTime, s < v, v <= u, e[v] # 0 PROVE FALSE
          <6>0. b[1].second <= s
            BY <1>oldest, <1>ends, <3>2, <4>4
          <6>1. PICK i \in DOMAIN b : b[i].second = v
            <7>1. v >= b[1].second
              BY <4>1, <5>1, <6>0
            <7> QED BY <1>0, <3>2, <5>1, <7>1 DEF HasBytes
          <6>2. v <= s
            BY <1>ends, <3>2, <4>4, <6>1
          <6>3. s \in Int /\ v \in Int
            BY <5>1, <4>4
          <6> QED BY ONLY <5>1, <6>2, <6>3
        <5>2. s <= u
          <6>1. s < current
            BY <2>7, <4>1, <4>4
          <6> QED BY <1>0, <4>4, <4>6, <6>1
        <5> QED BY ONLY <5>1, <5>2, UptoStays
      <4>8. Upto(f, u) = Upto(e, u) /\ Upto(f, t) = Upto(e, t)
        <5>1. /\ \A v \in 0 .. LastTime : v <= u => f[v] = e[v]
              /\ \A v \in 0 .. LastTime : v <= t => f[v] = e[v]
          <6>1. t < current /\ u < current
            <7>1. b[1].second < current
              BY <2>7, <4>1
            <7> QED BY <1>0, <4>1, <4>5, <4>6, <7>1
          <6> QED BY <1>0, <6>1
        <5> QED BY ONLY <5>1, UptoSame
      <4>9. Upto(e, s) \in Nat /\ Upto(e, t) \in Nat /\ Upto(e, u) \in Nat
        BY ONLY UptoIsNat
      <4>10. PICK old \in Int : old = b[Len(b)].cumulative /\ old = Upto(e, s) - Upto(e, t)
        BY <4>3, <4>4, <4>5, <4>9
      <4>11. old + a = Upto(f, current) - Upto(f, t)
        BY <1>0, <1>1, <2>1, <4>6, <4>7, <4>8, <4>9, <4>10
      <4>12. old + a <= MaxUint
        <5>1. Upto(f, t) \in Nat
          BY <4>8, <4>9
        <5>2. MaxUint \in Int
          BY <1>0
        <5> QED BY ONLY <1>1, <4>11, <5>1, <5>2
      <4>13. Saturate(old, a) = old + a
        BY <4>12, NoSaturation
      <4> QED BY <2>2, <4>1, <4>2, <4>5, <4>10, <4>11, <4>13
    <3> QED BY <3>1, <3>2
  <2>9. running \in Nat
    <3>1. PICK t : t = c[1].second - 1
      OBVIOUS
    <3>2. t \in Int /\ t <= current
      <4>1. CASE b = <<>>
        <5>1. n = 1
          BY <1>none, <2>5, <4>1
        <5>2. c[1].second = current
          BY <2>3, <2>6, <5>1
        <5> QED BY <1>0, <3>1, <5>2
      <4>2. CASE b # <<>>
        <5>1. c[1].second = oldest
          BY <1>ends, <1>oldest, <2>6, <4>2
        <5> QED BY <1>0, <1>ends, <3>1, <4>2, <5>1
      <4> QED BY <4>1, <4>2
    <3>3. Upto(f, t) <= Upto(f, current) /\ Upto(f, t) \in Nat
      BY ONLY <1>0, <3>2, UptoGrows, UptoIsNat
    <3> QED BY <1>1, <2>8, <3>1, <3>3
  <2>10. c \in Seq(BucketType)
    <3>1. new \in BucketType
      BY <2>3, <2>9 DEF BucketType
    <3> QED BY <1>0, <2>4, <3>1
  <2>11. c[n].bytes = f[current] /\ c[n].second = current /\ c[n].cumulative = running
    BY <1>0, <2>1, <2>3, <2>6
  <2>12. Faithful(c, f, current)
    <3>1. /\ n \in DOMAIN c /\ n = Len(c)
          /\ \A i \in DOMAIN c : i < n => i \in DOMAIN b /\ c[i] = b[i] /\ b[i].second < current
          /\ \A i \in DOMAIN b : b[i].second < current => i < n
      BY <2>6, <2>7
    <3>2. /\ Faithful(b, e, current) /\ f \in [0 .. LastTime -> Nat]
          /\ \A s \in 0 .. LastTime : s # current => f[s] = e[s]
          /\ c[n].cumulative = Upto(f, current) - Upto(f, c[1].second - 1)
      BY <1>0, <2>8, <2>11
    <3> QED BY ONLY <2>10, <2>11, <3>1, <3>2, NewLast
  <2> QED BY <2>2, <2>3, <2>4, <2>12 DEF AppendBucket
<1>3. ASSUME b # <<>>, current = last
      PROVE  Faithful(GrowLast(b, a), f, current)
  <2>1. PICK n : n = Len(b)
    OBVIOUS
  <2>2. /\ n \in Nat /\ 1 <= n /\ n \in DOMAIN b /\ 1 \in DOMAIN b /\ b[n].second = current
        /\ b \in [1 .. n -> BucketType]
    BY <1>0, <1>3, <1>ends, <2>1
  <2>3. PICK bytes : bytes = Saturate(b[n].bytes, a)
    OBVIOUS
  <2>4. PICK running : running = Saturate(b[n].cumulative, a)
    OBVIOUS
  <2>5. PICK new : new = [[b[n] EXCEPT !.bytes = bytes] EXCEPT !.cumulative = running]
    OBVIOUS
  <2>fields. /\ new.second = current /\ new.bytes = bytes /\ new.cumulative = running
             /\ bytes \in Nat /\ running \in Nat => new \in BucketType
    <3>1. PICK bucket \in BucketType : bucket = b[n]
      BY <2>2
    <3>2. new = [[bucket EXCEPT !.bytes = bytes] EXCEPT !.cumulative = running]
      BY ONLY <2>5, <3>1
    <3>3. bucket.second = current
      BY <2>2, <3>1
    <3> QED BY ONLY <3>2, <3>3 DEF BucketType
  <2>6. PICK c : c = [b EXCEPT ![n] = new]
    OBVIOUS
  <2>7. GrowLast(b, a) = c
    <3>1. b[n] \in BucketType
      BY <2>2
    <3>2. GrowLast(b, a) = [b EXCEPT ![n] = [[b[n] EXCEPT !.bytes = bytes] EXCEPT !.cumulative = running]]
      BY <2>1, <2>2, <2>3, <2>4, <3>1 DEF GrowLast, BucketType
    <3> QED BY <2>5, <2>6, <3>2
  <2>8. /\ DOMAIN c = 1 .. n /\ c[n] = new /\ \A i \in DOMAIN c : i < n => c[i] = b[i] /\ i \in DOMAIN b
    BY <2>2, <2>6
  <2>9. bytes = f[current]
    <3>1. b[n].bytes = e[current]
      BY <1>0, <2>2 DEF HasBytes
    <3>2. e[current] + a <= MaxUint
      BY <1>0, <1>1
    <3> QED BY <1>0, <2>3, <3>1, <3>2, NoSaturation
  <2>10. /\ b[1].second \in Int /\ b[1].second - 1 \in Int
         /\ b[1].second <= current /\ c[1].second = b[1].second
    <3>1. n = 1 \/ (1 < n /\ 1 \in DOMAIN c)
      BY <2>2, <2>8
    <3>2. c[1].second = b[1].second
      BY <2>2, <2>fields, <2>8, <3>1
    <3>3. b[1].second \in Int /\ b[1].second <= current
      BY <1>3, <1>ends, <1>oldest
    <3> QED BY <3>2, <3>3
  <2>11. running = Upto(f, current) - Upto(f, c[1].second - 1) /\ running \in Nat
    <3>1. PICK t \in Int : t = b[1].second - 1
      BY <2>10
    <3>2. PICK u \in Int : u = current - 1
      BY <1>0
    <3>3. Upto(f, t) = Upto(e, t) /\ Upto(f, u) = Upto(e, u)
      <4>1. /\ \A v \in 0 .. LastTime : v <= t => f[v] = e[v]
            /\ \A v \in 0 .. LastTime : v <= u => f[v] = e[v]
        <5>1. t < current /\ u < current
          BY <1>0, <2>10, <3>1, <3>2
        <5> QED BY <1>0, <5>1
      <4> QED BY ONLY <4>1, UptoSame
    <3>4. Upto(e, current) = Upto(e, u) + e[current]
      <4>1. Upto(e, current) = Upto(e, current - 1) + e[current]
        BY ONLY UptoSecond
      <4> QED BY <3>2, <4>1
    <3>5. b[n].cumulative = Upto(e, current) - Upto(e, t)
      BY <1>0, <2>2, <3>1 DEF HasTotals
    <3>6. Upto(e, t) \in Nat /\ Upto(e, u) \in Nat /\ Upto(f, t) <= Upto(f, current)
      <4>1. t <= current /\ t \in Int
        BY <1>0, <2>10, <3>1
      <4> QED BY ONLY <1>0, <4>1, UptoIsNat, UptoGrows
    <3>7. PICK old \in Int : old = b[n].cumulative
      BY <1>0, <3>4, <3>5, <3>6
    <3>8. old + a = Upto(f, current) - Upto(f, t)
      <4>1. Upto(f, current) = Upto(e, u) + (e[current] + a)
        BY <1>0, <1>1, <3>2, <3>3
      <4>2. old = Upto(e, u) + e[current] - Upto(e, t)
        <5>1. e[current] \in Nat
          BY <1>0
        <5> QED BY ONLY <3>4, <3>5, <3>6, <3>7, <5>1
      <4>3. e[current] \in Nat
        BY <1>0
      <4> QED BY ONLY <3>3, <3>6, <4>1, <4>2, <4>3
    <3>9. old + a <= MaxUint /\ old + a \in Nat
      <4>1. Upto(f, t) \in Nat
        BY <3>3, <3>6
      <4>2. MaxUint \in Int
        BY <1>0
      <4> QED BY ONLY <1>1, <3>6, <3>8, <4>1, <4>2
    <3>10. running = old + a
      BY <2>4, <3>7, <3>9, NoSaturation
    <3> QED BY <2>10, <3>1, <3>8, <3>9, <3>10
  <2>12. c \in Seq(BucketType) /\ Len(c) = n
    <3>1. new \in BucketType
      BY <1>0, <2>fields, <2>9, <2>11
    <3>2. c \in [1 .. n -> BucketType]
      BY <2>2, <2>6, <3>1
    <3> QED BY <2>2, <3>2, IsSequence
  <2>13. /\ \A i \in DOMAIN c : i < n => b[i].second < current
         /\ \A i \in DOMAIN b : b[i].second < current => i < n
    <3>1. \A i \in DOMAIN c : i < n => b[i].second < current
      BY <1>0, <2>2, <2>8 DEF InOrder
    <3>2. \A i \in DOMAIN b : i = n \/ i < n
      BY <1>0, <2>1
    <3>3. \A i \in DOMAIN b : b[i].second < current => i # n
      BY <1>0, <2>2
    <3> QED BY <3>1, <3>2, <3>3
  <2>14. c[n].bytes = f[current] /\ c[n].second = current /\ c[n].cumulative = running /\ n \in DOMAIN c
    BY <2>2, <2>fields, <2>8, <2>9
  <2>15. Faithful(c, f, current)
    <3>1. /\ Faithful(b, e, current) /\ f \in [0 .. LastTime -> Nat]
          /\ \A s \in 0 .. LastTime : s # current => f[s] = e[s]
          /\ c[n].cumulative = Upto(f, current) - Upto(f, c[1].second - 1)
          /\ n = Len(c)
      BY <1>0, <2>11, <2>12, <2>14
    <3>2. /\ \A i \in DOMAIN c : i < n => i \in DOMAIN b /\ c[i] = b[i] /\ b[i].second < current
          /\ \A i \in DOMAIN b : b[i].second < current => i < n
      BY <2>8, <2>13
    <3> QED BY ONLY <2>12, <2>14, <3>1, <3>2, NewLast
  <2> QED BY <2>7, <2>15
<1>4. CASE b = <<>> \/ current > last
  BY <1>2, <1>4, <1>last DEF Add
<1>5. CASE b # <<>> /\ current = last
  <2>1. ~(current > last)
    BY <1>0, <1>5
  <2> QED BY <1>3, <1>5, <1>last, <2>1 DEF Add
<1>6. b = <<>> \/ current > last \/ (b # <<>> /\ current = last)
  <2>1. b # <<>> => last \in Int /\ last <= current /\ current \in Int
    BY <1>0, <1>ends
  <2> QED BY ONLY <2>1
<1> QED BY <1>4, <1>5, <1>6
(* prune drops whole buckets, and none that any window can count. *)
LEMMA PruneFaithful ==
  ASSUME NEW e \in [0 .. LastTime -> Nat], NEW current \in Int, NEW b, Faithful(b, e, current),
         Upto(e, LastTime) <= MaxUint, NEW cutoff \in Int, cutoff = current - Retention
  PROVE  Faithful(Prune(b, cutoff), e, current)
<1>0. /\ b \in Seq(BucketType) /\ InOrder(b) /\ HasBytes(b, e)
      /\ \A i \in DOMAIN b : b[i].second <= current /\ b[i] \in BucketType
      /\ Retention \in Int /\ MaxUint \in Int /\ LastTime \in Int
      /\ DOMAIN b = 1 .. Len(b) /\ Len(b) \in Nat
  BY BucketPlaces, RetryPromiseAssumption DEF Faithful
<1>1. PICK k : k = CountUpTo(b, cutoff)
  OBVIOUS
<1>2. k \in 0 .. Len(b) /\ \A i \in DOMAIN b : b[i].second <= cutoff <=> i <= k
  BY ONLY <1>0, <1>1, CountUpToIs
<1>3. CASE k = 0
  BY <1>1, <1>3 DEF Prune
<1>4. CASE k # 0
  <2>1. PICK d : d = SubSeq(b, k + 1, Len(b))
    OBVIOUS
  <2>2. PICK m : m = Len(b) - k
    OBVIOUS
  <2>3. /\ m \in Nat /\ DOMAIN d = 1 .. m
        /\ \A i \in 1 .. m : i + k \in DOMAIN b /\ d[i] = b[i + k] /\ i + k > k
        /\ d \in Seq(BucketType) /\ Len(d) = m
    <3>1. PICK l \in Nat : l = Len(b) /\ DOMAIN b = 1 .. l /\ k \in 0 .. l /\ m = l - k
      BY <1>0, <1>2, <2>2
    <3>2. m \in Nat /\ k \in Nat
      BY ONLY <3>1
    <3>3. \A i \in 1 .. m : i + k \in 1 .. l /\ i + k > k /\ i + k = k + 1 + i - 1
      BY ONLY <3>1, <3>2
    <3>4. b \in [1 .. l -> BucketType]
      BY <1>0, <3>1
    <3>5. d = [i \in 1 .. m |-> b[i + k]]
      <4>1. d = [i \in 1 .. (l - (k + 1) + 1) |-> b[k + 1 + i - 1]]
        BY <1>0, <2>1, <3>1, <3>2
      <4>2. l - (k + 1) + 1 = m
        BY ONLY <3>1, <3>2
      <4> QED BY <3>3, <4>1, <4>2
    <3>6. d \in [1 .. m -> BucketType]
      BY <3>1, <3>3, <3>4, <3>5
    <3>7. d \in Seq(BucketType) /\ Len(d) = m
      BY <3>2, <3>6, IsSequence
    <3> QED BY <3>1, <3>2, <3>3, <3>5, <3>7
  <2>4. InOrder(d)
    <3> SUFFICES ASSUME NEW i \in DOMAIN d, NEW j \in DOMAIN d, i < j
                 PROVE  d[i].second < d[j].second
      BY DEF InOrder
    <3>1. i + k \in DOMAIN b /\ j + k \in DOMAIN b /\ d[i] = b[i + k] /\ d[j] = b[j + k]
      BY <2>3
    <3>2. i + k < j + k
      BY <1>0, <1>2, <2>3
    <3> QED BY <1>0, <3>1, <3>2 DEF InOrder
  <2>5. \A i \in DOMAIN d : d[i].second <= current
    BY <1>0, <2>3
  <2>6. ASSUME NEW i \in DOMAIN b, ~(b[i].second <= cutoff)
        PROVE  \E j \in DOMAIN d : d[j].second = b[i].second
    <3>1. i - k \in 1 .. m /\ (i - k) + k = i
      BY <1>0, <1>2, <2>2, <2>6
    <3>2. d[i - k] = b[i]
      BY <2>3, <3>1
    <3> QED BY <2>3, <3>1, <3>2
  <2>7. ASSUME NEW s \in 0 .. LastTime, s > cutoff, e[s] # 0
        PROVE  \E j \in DOMAIN d : d[j].second = s
    <3>1. PICK i \in DOMAIN b : b[i].second = s
      BY <2>7 DEF Faithful
    <3>2. ~(b[i].second <= cutoff)
      BY <2>7, <3>1
    <3> QED BY <2>6, <3>1, <3>2
  <2>8. HasBytes(d, e)
    <3>1. \A i \in DOMAIN d : d[i].bytes = e[d[i].second]
      BY <1>0, <2>3 DEF HasBytes
    <3>2. ASSUME NEW s \in 0 .. LastTime, d # <<>>, s >= d[1].second, e[s] # 0
          PROVE  \E j \in DOMAIN d : d[j].second = s
      <4>1. 1 \in 1 .. m
        BY <2>3, <3>2
      <4>2. 1 + k \in DOMAIN b /\ d[1] = b[1 + k] /\ ~(1 + k <= k)
        BY <1>2, <2>3, <4>1
      <4>3. ~(d[1].second <= cutoff)
        BY <1>2, <4>2
      <4>4. d[1].second \in Int
        BY <1>0, <4>2 DEF BucketType
      <4>5. s > cutoff
        BY <3>2, <4>3, <4>4
      <4> QED BY <2>7, <3>2, <4>5
    <3> QED BY <3>1, <3>2 DEF HasBytes
  <2>9. PICK bytes : bytes = [i \in DOMAIN d |-> d[i].bytes]
    OBVIOUS
  <2>10. PICK running : running = [i \in DOMAIN d |-> Saturate(0, SumFunctionOnSet(bytes, 1 .. i))]
    OBVIOUS
  <2>11. PICK c : c = [i \in DOMAIN d |-> [d[i] EXCEPT !.cumulative = running[i]]]
    OBVIOUS
  <2>12. Prune(b, cutoff) = c
    <3>1. Prune(b, cutoff) = RebuildCumulative(d, 1)
      BY <1>1, <1>4, <2>1 DEF Prune
    <3>2. ASSUME NEW i \in DOMAIN d
          PROVE  /\ ~(i < 1)
                 /\ Saturate(CumulativeBefore(d, 1), SumFunctionOnSet(bytes, 1 .. i)) = running[i]
      <4>1. CumulativeBefore(d, 1) = 0
        BY DEF CumulativeBefore
      <4> QED BY <2>3, <2>10, <4>1
    <3>3. RebuildCumulative(d, 1) =
            [i \in DOMAIN d |-> [d[i] EXCEPT !.cumulative =
               Saturate(CumulativeBefore(d, 1), SumFunctionOnSet(bytes, 1 .. i))]]
      BY <2>9, <3>2 DEF RebuildCumulative
    <3>4. RebuildCumulative(d, 1) = c
      BY <2>11, <3>2, <3>3
    <3> QED BY <3>1, <3>4
  <2>13. ASSUME NEW i \in DOMAIN d
         PROVE  /\ running[i] \in Nat
                /\ running[i] = Upto(e, d[i].second) - Upto(e, d[1].second - 1)
    <3>1. SumFunctionOnSet(bytes, 1 .. i) = Upto(e, d[i].second) - Upto(e, d[1].second - 1)
      BY <2>3, <2>4, <2>8, <2>9, TotalsAre
    <3>2. PICK s \in Int : s = d[i].second /\ s <= LastTime
      BY <2>3, BucketPlaces
    <3>3. PICK t \in Int : t = d[1].second - 1 /\ t <= s
      <4>1. d # <<>> /\ 1 \in DOMAIN d /\ (i = 1 \/ 1 < i)
        BY <2>3
      <4>2. d[1].second \in Int
        BY <2>3, <4>1, BucketPlaces
      <4>3. 1 < i => d[1].second < d[i].second
        BY <2>4, <4>1 DEF InOrder
      <4> QED BY <3>2, <4>1, <4>2, <4>3
    <3>4. /\ Upto(e, s) \in Nat /\ Upto(e, t) \in Nat /\ Upto(e, t) <= Upto(e, s)
          /\ Upto(e, s) <= Upto(e, LastTime) /\ Upto(e, LastTime) \in Nat
      BY <1>0, <3>2, <3>3, UptoIsNat, UptoGrows
    <3>5. PICK x \in Int : x = Upto(e, s) - Upto(e, t)
      BY <3>4
    <3>6. x \in Nat /\ 0 + x <= MaxUint
      BY <1>0, <3>4, <3>5
    <3>7. Saturate(0, x) = x
      BY <1>0, <3>6, NoSaturation
    <3>8. running[i] = x
      BY <2>10, <3>1, <3>2, <3>3, <3>5, <3>7
    <3> QED BY <3>2, <3>3, <3>5, <3>6, <3>8
  <2>14. ASSUME NEW i \in DOMAIN d
         PROVE  /\ c[i] \in BucketType /\ c[i].second = d[i].second
                /\ c[i].bytes = d[i].bytes /\ c[i].cumulative = running[i]
    <3>1. PICK bucket \in BucketType : bucket = d[i]
      BY <1>0, <2>3
    <3>2. PICK x \in Nat : x = running[i]
      BY <2>13
    <3>3. PICK new : new = [bucket EXCEPT !.cumulative = x]
      OBVIOUS
    <3>4. /\ new \in BucketType /\ new.second = bucket.second
          /\ new.bytes = bucket.bytes /\ new.cumulative = x
      BY ONLY <3>3 DEF BucketType
    <3>5. c[i] = new
      BY <2>11, <3>1, <3>2, <3>3
    <3> QED BY <3>1, <3>2, <3>4, <3>5
  <2>15. c \in Seq(BucketType) /\ DOMAIN c = DOMAIN d
    <3>1. c \in [1 .. m -> BucketType]
      BY <2>3, <2>11, <2>14
    <3> QED BY <2>3, <3>1, IsSequence
  <2>16. InOrder(c)
    BY <2>4, <2>14, <2>15 DEF InOrder
  <2>17. \A i \in DOMAIN c : c[i].second <= current
    BY <2>5, <2>14, <2>15
  <2>18. c # <<>> => d # <<>> /\ c[1].second = d[1].second
    BY <2>3, <2>14, <2>15
  <2>19. HasBytes(c, e)
    BY <2>8, <2>14, <2>15, <2>18 DEF HasBytes
  <2>20. HasTotals(c, e)
    <3> SUFFICES ASSUME NEW i \in DOMAIN c
                 PROVE  c[i].cumulative = Upto(e, c[i].second) - Upto(e, c[1].second - 1)
      BY DEF HasTotals
    <3>1. c # <<>> /\ i \in DOMAIN d
      BY <2>15
    <3> QED BY <2>13, <2>14, <2>18, <3>1
  <2>21. \A s \in 0 .. LastTime : s > cutoff /\ e[s] # 0 => \E i \in DOMAIN c : c[i].second = s
    BY <2>7, <2>14, <2>15
  <2>22. \A s \in 0 .. LastTime : s > current => e[s] = 0
    BY DEF Faithful
  <2> QED BY <2>12, <2>15, <2>16, <2>17, <2>19, <2>20, <2>21, <2>22 DEF Faithful
<1> QED BY <1>3, <1>4
-----------------------------------------------------------------------------
(* The promise. *)

(* A window sees less and less. *)
LEMMA SeenLess ==
  ASSUME NEW e \in [0 .. LastTime -> Nat], NEW w \in QuotaWindow,
         NEW s \in Int, NEW t \in Int, s <= t
  PROVE  /\ SeenAt(e, t, w) <= SeenAt(e, s, w)
         /\ SeenAt(e, s, w) \in Int /\ SeenAt(e, t, w) \in Int
<1>1. PICK c \in Int : c = s - w.duration
  BY RetryPromiseAssumption
<1>2. PICK d \in Int : d = t - w.duration
  BY RetryPromiseAssumption
<1>3. w.duration \in Int /\ LastTime \in Int
  BY RetryPromiseAssumption
<1>4. c <= d
  BY <1>1, <1>2, <1>3
<1>5. /\ Upto(e, c) <= Upto(e, d) /\ Upto(e, c) \in Nat /\ Upto(e, d) \in Nat
      /\ Upto(e, LastTime) \in Nat
  BY ONLY <1>3, <1>4, UptoGrows, UptoIsNat
<1>6. /\ SeenAt(e, s, w) = Upto(e, LastTime) - Upto(e, c)
      /\ SeenAt(e, t, w) = Upto(e, LastTime) - Upto(e, d)
  BY <1>1, <1>2, SeenIs
<1> QED BY <1>5, <1>6

(* Exceeded says what the history says. *)
LEMMA ExceededIs ==
  ASSUME NEW e \in [0 .. LastTime -> Nat], NEW current \in Int, NEW b, Faithful(b, e, current),
         NEW w \in QuotaWindow
  PROVE  /\ Exceeded(b, current, w) <=> SeenAt(e, current, w) >= w.limit
         /\ SeenAt(e, current, w) \in Int /\ w.limit \in Int
<1>1. PICK c \in Int : c = current - w.duration
  BY RetryPromiseAssumption
<1>2. c >= current - Retention
  BY <1>1, RetryPromiseAssumption
<1>3. UsageSince(b, c) = Upto(e, LastTime) - Upto(e, c)
  BY <1>2, WindowCounts
<1>4. SeenAt(e, current, w) = Upto(e, LastTime) - Upto(e, c)
  BY <1>1, SeenIs
<1>5. Exceeded(b, current, w) <=> UsageSince(b, c) >= w.limit
  BY <1>1 DEF Exceeded
<1>6. SeenAt(e, current, w) \in Int
  <2>1. current <= current
    OBVIOUS
  <2> QED BY <2>1, SeenLess
<1> QED BY <1>3, <1>4, <1>5, <1>6, RetryPromiseAssumption

LEMMA MaximumIs ==
  ASSUME NEW S, NEW n \in Nat, S \subseteq 1 .. n, S # {}
  PROVE  Max(S) \in S /\ \A y \in S : Max(S) >= y
<1> DEFINE T == {n - x : x \in S}
<1>1. T \subseteq Nat /\ T # {}
  OBVIOUS
<1>2. PICK m \in T : \A k \in T : m <= k
  <2> HIDE DEF T
  <2> QED BY <1>1, LeastMember
<1>3. PICK x \in S : m = n - x
  OBVIOUS
<1>4. ASSUME NEW y \in S PROVE x >= y
  <2>1. n - y \in T
    OBVIOUS
  <2>2. m <= n - y
    BY <1>2, <2>1
  <2> QED BY <1>3, <2>2
<1>5. \E z \in S : \A y \in S : z >= y
  BY <1>4
<1> QED BY <1>5 DEF Max

LEMMA CurrentSecondIs ==
  ASSUME PromiseTypeOK
  PROVE  /\ CurrentSecond \in 0 .. LastTime /\ CurrentSecond \in Int
         /\ lastNow <= CurrentSecond /\ wallClock <= CurrentSecond
         /\ lastNow <= wallClock => CurrentSecond = wallClock
BY RetryPromiseAssumption DEF PromiseTypeOK, CurrentSecond

(* What follows from the invariant at this second. *)
LEMMA NowFaithful ==
  ASSUME PromiseInv
  PROVE  /\ exact \in [0 .. LastTime -> Nat]
         /\ Faithful(buckets, exact, CurrentSecond)
         /\ Upto(exact, LastTime) <= MaxUint
         /\ \A w \in QuotaWindow : w \in Violated <=> SeenAt(exact, CurrentSecond, w) >= w.limit
<1>1. PromiseTypeOK /\ exact \in [0 .. LastTime -> Nat] /\ lastNow \in Int
  BY RetryPromiseAssumption DEF PromiseInv, PromiseTypeOK
<1>2. PICK current \in Int : current = CurrentSecond /\ lastNow <= current
  BY <1>1, CurrentSecondIs
<1>3. Faithful(buckets, exact, lastNow)
  BY DEF PromiseInv
<1>4. Faithful(buckets, exact, current)
  BY ONLY <1>1, <1>2, <1>3, FaithfulLater
<1>5. Upto(exact, LastTime) <= MaxUint
  <2>1. Upto(exact, LastTime) \in Nat /\ MaxTotal \in Int /\ MaxUint \in Int /\ MaxTotal <= MaxUint
    BY <1>1, RetryPromiseAssumption, UptoIsNat
  <2>2. Upto(exact, LastTime) <= MaxTotal
    BY DEF PromiseInv
  <2> QED BY <2>1, <2>2
<1>6. ASSUME NEW w \in QuotaWindow
      PROVE  w \in Violated <=> SeenAt(exact, current, w) >= w.limit
  <2>1. Exceeded(buckets, current, w) <=> SeenAt(exact, current, w) >= w.limit
    BY <1>1, <1>4, ExceededIs
  <2> QED BY <1>2, <2>1 DEF Violated
<1> QED BY <1>1, <1>2, <1>4, <1>5, <1>6

(* What the header names when a request is refused. *)
LEMMA LongestRetryIs ==
  ASSUME PromiseInv, Violated # {}, NEW long, long = LongestRetry(Violated),
         NEW current, current = CurrentSecond
  PROVE  long \in Nat /\ long >= 1 /\ FirstFree(exact, current + long)
<1>1. /\ exact \in [0 .. LastTime -> Nat] /\ current \in Int /\ Retention \in Nat /\ 1 <= Retention
      /\ Faithful(buckets, exact, current) /\ Upto(exact, LastTime) <= MaxUint
  <2>1. PromiseTypeOK
    BY DEF PromiseInv
  <2> QED BY <2>1, NowFaithful, CurrentSecondIs, RetryPromiseAssumption
<1>2. ASSUME NEW w \in Violated
      PROVE  /\ RetryAfter(buckets, current, w) \in 1 .. Retention
             /\ SeenAt(exact, current + RetryAfter(buckets, current, w), w) < w.limit
             /\ SeenAt(exact, current + RetryAfter(buckets, current, w) - 1, w) >= w.limit
  <2>1. w \in QuotaWindow /\ Exceeded(buckets, current, w)
    BY DEF Violated
  <2> QED BY <1>1, <2>1, RetryIs
<1>3. PICK S : S = {1} \cup {RetryAfter(buckets, current, w) : w \in Violated}
  OBVIOUS
<1>4. S \subseteq 1 .. Retention /\ S # {}
  BY <1>1, <1>2, <1>3
<1>5. long = Max(S)
  BY <1>3 DEF LongestRetry
<1>6. /\ long \in S /\ long \in 1 .. Retention
      /\ \A y \in S : long >= y
  BY <1>1, <1>4, <1>5, MaximumIs
<1>7. long \in Nat /\ long >= 1 /\ current + long \in Int /\ current + long - 1 \in Int
  BY <1>1, <1>6
<1>8. ASSUME NEW w \in QuotaWindow
      PROVE  SeenAt(exact, current + long, w) < w.limit
  <2>1. PICK t \in Int : t = current + long
    BY <1>7
  <2>2. w.limit \in Int
    BY RetryPromiseAssumption
  <2>3. CASE w \in Violated
    <3>1. PICK r \in 1 .. Retention : r = RetryAfter(buckets, current, w)
      BY <1>2, <2>3
    <3>2. PICK s \in Int : s = current + r
      BY <1>1
    <3>3. SeenAt(exact, s, w) < w.limit
      BY <1>2, <2>3, <3>1, <3>2
    <3>4. s <= t
      BY <1>1, <1>3, <1>6, <1>7, <2>1, <2>3, <3>1, <3>2
    <3>5. /\ SeenAt(exact, t, w) <= SeenAt(exact, s, w)
          /\ SeenAt(exact, s, w) \in Int /\ SeenAt(exact, t, w) \in Int
      BY ONLY <1>1, <3>4, SeenLess
    <3>6. SeenAt(exact, t, w) < w.limit
      BY ONLY <2>2, <3>3, <3>5
    <3> QED BY <2>1, <3>6
  <2>4. CASE w \notin Violated
    <3>1. ~(SeenAt(exact, current, w) >= w.limit)
      BY <2>4, NowFaithful
    <3>2. current <= t
      BY <1>1, <1>7, <2>1
    <3>3. /\ SeenAt(exact, t, w) <= SeenAt(exact, current, w)
          /\ SeenAt(exact, current, w) \in Int /\ SeenAt(exact, t, w) \in Int
      BY ONLY <1>1, <3>2, SeenLess
    <3>4. SeenAt(exact, t, w) < w.limit
      BY ONLY <2>2, <3>1, <3>3
    <3> QED BY <2>1, <3>4
  <2> QED BY <2>3, <2>4
<1>9. \E w \in QuotaWindow : SeenAt(exact, current + long - 1, w) >= w.limit
  <2>1. PICK w \in Violated : long = RetryAfter(buckets, current, w)
    <3>1. CASE long = 1
      <4>1. PICK w \in Violated : TRUE
        OBVIOUS
      <4>2. PICK r \in 1 .. Retention : r = RetryAfter(buckets, current, w)
        BY <1>2
      <4>3. long >= r
        BY <1>3, <1>6, <4>2
      <4>4. long = r
        BY ONLY <3>1, <4>2, <4>3, <1>1
      <4> QED BY <4>2, <4>4
    <3>2. CASE long # 1
      BY <1>3, <1>6, <3>2
    <3> QED BY <3>1, <3>2
  <2>2. SeenAt(exact, current + RetryAfter(buckets, current, w) - 1, w) >= w.limit
    BY <1>2
  <2>3. w \in QuotaWindow
    BY DEF Violated
  <2> QED BY <2>1, <2>2, <2>3
<1>10. PICK t : t = current + long
  OBVIOUS
<1>11. FirstFree(exact, t)
  BY ONLY <1>1, <1>7, <1>8, <1>9, <1>10 DEF FirstFree
<1> QED BY <1>7, <1>10, <1>11, Zenon

(* The invariant. *)
LEMMA PromiseStart == PromiseInit => PromiseInv
<1> SUFFICES ASSUME PromiseInit PROVE PromiseInv
  OBVIOUS
<1>1. PromiseTypeOK /\ promise = NoPromise /\ buckets = <<>> /\ lastNow \in Int
      /\ \A s \in 0 .. LastTime : exact[s] = 0
  BY RetryPromiseAssumption DEF PromiseInit, PromiseTypeOK, NoPromise
<1>2. Faithful(buckets, exact, lastNow)
  <2>1. buckets \in Seq(BucketType) /\ DOMAIN buckets = {}
    BY <1>1
  <2>2. InOrder(buckets) /\ HasBytes(buckets, exact) /\ HasTotals(buckets, exact)
    BY <1>1, <2>1 DEF InOrder, HasBytes, HasTotals
  <2> QED BY <1>1, <2>1, <2>2 DEF Faithful
<1>3. Upto(exact, LastTime) = 0
  <2>1. IsFiniteSet(SecondsTo(LastTime)) /\ \A u \in SecondsTo(LastTime) : exact[u] = 0
    BY <1>1, UptoIs, SecondsFinite
  <2>2. SumFunctionOnSet(exact, SecondsTo(LastTime)) = 0
    BY <2>1, SumZero
  <2> QED BY <2>2, UptoIs
<1>4. MaxTotal >= 0
  BY RetryPromiseAssumption
<1> QED BY <1>1, <1>2, <1>3, <1>4 DEF PromiseInv

LEMMA PromiseStep == PromiseInv /\ [PromiseNext]_promiseVars => PromiseInv'
<1> SUFFICES ASSUME PromiseInv, [PromiseNext]_promiseVars PROVE PromiseInv'
  OBVIOUS
<1>0. /\ PromiseTypeOK /\ Faithful(buckets, exact, lastNow)
      /\ Upto(exact, LastTime) <= MaxTotal
      /\ promise # NoPromise => lastNow <= wallClock /\ FirstFree(exact, promise)
  BY DEF PromiseInv
<1>current. PICK current \in 0 .. LastTime :
          /\ current = CurrentSecond /\ current \in Int /\ lastNow <= current /\ wallClock <= current
          /\ lastNow <= wallClock => current = wallClock
  BY <1>0, CurrentSecondIs
<1>faith. Faithful(buckets, exact, current) /\ exact \in [0 .. LastTime -> Nat]
          /\ Upto(exact, LastTime) <= MaxUint
  BY <1>current, NowFaithful
<1>int. /\ wallClock \in Int /\ lastNow \in Int /\ LastTime \in Int /\ Retention \in Int
        /\ wallClock \in Nat
  BY <1>0, RetryPromiseAssumption DEF PromiseTypeOK
<1>kept. promise # NoPromise => current <= wallClock /\ FirstFree(exact, promise)
  BY <1>0, <1>current, <1>int
<1>1. CASE SetClock
  <2>1. PromiseTypeOK'
    BY <1>0, <1>1 DEF SetClock, PromiseTypeOK, NoPromise
  <2>2. promise' # NoPromise => promise' = promise /\ promise # NoPromise /\ wallClock <= wallClock'
    <3>1. wallClock' \in Int
      BY <1>1, <1>int DEF SetClock
    <3> QED BY <1>1, <1>int, <3>1 DEF SetClock, NoPromise
  <2>3. (promise # NoPromise => lastNow <= wallClock /\ FirstFree(exact, promise))'
    <3>1. wallClock' \in Int
      BY <1>1, <1>int DEF SetClock
    <3>2. promise' # NoPromise => lastNow <= wallClock' /\ FirstFree(exact, promise')
      BY <1>0, <1>int, <2>2, <3>1
    <3> QED BY <1>1, <3>2 DEF SetClock, FirstFree, SeenAt, Upto
  <2>4. (Faithful(buckets, exact, lastNow) /\ Upto(exact, LastTime) <= MaxTotal)'
    BY <1>0, <1>1 DEF SetClock, Faithful, InOrder, HasBytes, HasTotals, Upto
  <2> QED BY <2>1, <2>3, <2>4 DEF PromiseInv
<1>2. CASE RefuseClient
  <2>1. PICK long : long = LongestRetry(Violated)
    OBVIOUS
  <2>2. long \in Nat /\ FirstFree(exact, current + long)
    BY <1>2, <1>current, <2>1, LongestRetryIs DEF RefuseClient
  <2>3. /\ lastNow' = current /\ wallClock' = wallClock /\ buckets' = buckets /\ exact' = exact
        /\ promise' = IF promise = NoPromise /\ current = wallClock
                      THEN wallClock + long ELSE promise
    BY <1>2, <1>current, <2>1 DEF RefuseClient
  <2>4. promise' \in Nat \cup {NoPromise}
    BY <1>0, <1>int, <2>2, <2>3 DEF PromiseTypeOK
  <2>5. promise' # NoPromise => current <= wallClock /\ FirstFree(exact, promise')
    <3>1. CASE promise = NoPromise /\ current = wallClock
      <4>1. promise' = current + long
        BY <2>3, <3>1
      <4>2. FirstFree(exact, promise')
        BY <2>2, <4>1, Zenon
      <4> QED BY <1>int, <3>1, <4>2
    <3>2. CASE ~(promise = NoPromise /\ current = wallClock)
      <4>1. promise' = promise
        BY <2>3, <3>2
      <4> QED BY <1>kept, <4>1, Zenon
    <3> QED BY <3>1, <3>2
  <2>6. /\ Faithful(buckets', exact', lastNow') /\ Upto(exact', LastTime) <= MaxTotal
        /\ promise' # NoPromise => lastNow' <= wallClock' /\ FirstFree(exact', promise')
    BY <1>0, <1>faith, <2>3, <2>5, Zenon
  <2>7. PromiseTypeOK'
    BY <1>0, <1>current, <2>3, <2>4 DEF PromiseTypeOK
  <2> QED BY <2>6, <2>7 DEF PromiseInv
<1>3. CASE AdmitClient
  <2>1. /\ lastNow' = current /\ wallClock' = wallClock /\ buckets' = buckets /\ exact' = exact
        /\ promise' = promise
    BY <1>3, <1>current DEF AdmitClient
  <2>2. /\ Faithful(buckets', exact', lastNow') /\ Upto(exact', LastTime) <= MaxTotal
        /\ promise' # NoPromise => lastNow' <= wallClock' /\ FirstFree(exact', promise')
    BY <1>0, <1>faith, <1>kept, <2>1, Zenon
  <2>3. PromiseTypeOK'
    BY <1>0, <1>current, <2>1 DEF PromiseTypeOK
  <2> QED BY <2>2, <2>3 DEF PromiseInv
<1>4. CASE PruneTick
  <2>1. PICK cutoff \in Int : cutoff = current - Retention
    BY <1>int
  <2>2. PICK kept : kept = Prune(buckets, cutoff)
    OBVIOUS
  <2>3. Faithful(kept, exact, current)
    BY <1>faith, <2>1, <2>2, PruneFaithful
  <2>4. /\ lastNow' = current /\ wallClock' = wallClock /\ buckets' = kept /\ exact' = exact
        /\ promise' = promise
    BY <1>4, <1>current, <2>1, <2>2 DEF PruneTick
  <2>5. /\ Faithful(buckets', exact', lastNow') /\ Upto(exact', LastTime) <= MaxTotal
        /\ promise' # NoPromise => lastNow' <= wallClock' /\ FirstFree(exact', promise')
    BY <1>0, <1>kept, <2>3, <2>4, Zenon
  <2>6. PromiseTypeOK'
    BY <1>0, <1>current, <2>4 DEF PromiseTypeOK
  <2> QED BY <2>5, <2>6 DEF PromiseInv
<1>5. CASE \E amount \in Amount : Record(amount)
  <2>1. PICK amount \in Amount : Record(amount)
    BY <1>5
  <2>2. PICK a \in Nat : a = amount
    BY RetryPromiseAssumption
  <2>3. PICK f : f = [exact EXCEPT ![current] = @ + a]
    OBVIOUS
  <2>4. PICK c : c = Add(buckets, current, a)
    OBVIOUS
  <2>5. /\ lastNow' = current /\ wallClock' = wallClock /\ buckets' = c /\ exact' = f
        /\ promise' = NoPromise /\ SumFunctionOnSet(exact, 0 .. LastTime) + a <= MaxTotal
    BY <1>current, <2>1, <2>2, <2>3, <2>4 DEF Record, Downloaded
  <2>6. f \in [0 .. LastTime -> Nat]
    BY <1>faith, <2>3
  <2>7. Upto(f, LastTime) <= MaxTotal /\ Upto(f, LastTime) <= MaxUint
    <3>1. PICK l \in Int : l = LastTime
      BY <1>int
    <3>2. PICK e \in [0 .. LastTime -> Nat] : e = exact
      BY <1>faith
    <3>3. Upto(f, l) = Upto(exact, l) + a
      <4>1. f[current] = e[current] + a /\ \A u \in (0 .. LastTime) \ {current} : f[u] = e[u]
        BY <2>3, <3>2
      <4>2. current <= l
        BY <1>current, <1>int, <3>1
      <4>3. Upto(f, l) = Upto(e, l) - e[current] + f[current]
        BY ONLY <2>6, <4>1, <4>2, UptoChange
      <4>4. e[current] \in Nat /\ Upto(e, l) \in Nat
        BY UptoIsNat
      <4> QED BY <3>2, <4>1, <4>3, <4>4
    <3>4. SumFunctionOnSet(exact, 0 .. LastTime) = Upto(exact, LastTime)
      BY <1>faith, UptoAll
    <3>5. Upto(exact, l) \in Nat
      BY <1>faith, UptoIsNat
    <3>6. Upto(f, l) <= MaxTotal
      BY <2>5, <3>1, <3>3, <3>4
    <3> QED BY <3>1, <3>3, <3>5, <3>6, RetryPromiseAssumption
  <2>8. Faithful(c, f, current)
    BY <1>faith, <2>3, <2>4, <2>7, AddFaithful
  <2>9. /\ Faithful(buckets', exact', lastNow') /\ Upto(exact', LastTime) <= MaxTotal
        /\ promise' # NoPromise => lastNow' <= wallClock' /\ FirstFree(exact', promise')
    BY <2>5, <2>7, <2>8, Zenon
  <2>10. PromiseTypeOK'
    BY <1>0, <1>current, <2>5, <2>6 DEF PromiseTypeOK
  <2> QED BY <2>9, <2>10 DEF PromiseInv
<1>6. CASE UNCHANGED promiseVars
  <2>1. /\ lastNow' = lastNow /\ wallClock' = wallClock /\ buckets' = buckets
        /\ exact' = exact /\ promise' = promise
    BY <1>6 DEF promiseVars
  <2>2. /\ Faithful(buckets', exact', lastNow') /\ Upto(exact', LastTime) <= MaxTotal
        /\ promise' # NoPromise => lastNow' <= wallClock' /\ FirstFree(exact', promise')
    BY <1>0, <2>1, Zenon
  <2>3. PromiseTypeOK'
    BY <1>0, <2>1 DEF PromiseTypeOK
  <2> QED BY <2>2, <2>3 DEF PromiseInv
<1> QED BY <1>1, <1>2, <1>3, <1>4, <1>5, <1>6 DEF PromiseNext

(* Whatever is recorded and pruned, and however the clock is set, the      *)
(* buckets of prefixUsage are what was recorded and is retained, and a     *)
(* time that was promised is the first at which no window is exceeded.     *)
THEOREM BucketsAreFaithful == PromiseSpec => []PromiseInv
BY PromiseStart, PromiseStep, PTL DEF PromiseSpec

(* usageSince answers for every duration with the bytes recorded in that   *)
(* many seconds, although it only subtracts two running totals, and prune  *)
(* may have dropped the buckets and rebuilt the totals before.             *)
THEOREM WindowsAreExact == PromiseSpec => []WindowIsExact
<1>1. PromiseInv => WindowIsExact
  <2> SUFFICES ASSUME PromiseInv, NEW duration \in 1 .. Retention
               PROVE  UsageSince(buckets, CurrentSecond - duration) =
                        Downloaded(Max({0, CurrentSecond - duration + 1}), CurrentSecond)
    BY DEF WindowIsExact
  <2>1. PICK current \in 0 .. LastTime : current = CurrentSecond /\ current \in Int
    BY CurrentSecondIs DEF PromiseInv
  <2>2. exact \in [0 .. LastTime -> Nat] /\ Faithful(buckets, exact, current)
    BY <2>1, NowFaithful
  <2>3. duration \in Int /\ 1 <= duration /\ duration <= Retention /\ Retention \in Int
        /\ LastTime \in Int
    BY RetryPromiseAssumption
  <2>4. PICK c \in Int : c = current - duration
    BY <2>3
  <2>5. UsageSince(buckets, c) = Upto(exact, LastTime) - Upto(exact, c)
    <3>1. c >= current - Retention
      BY <2>3, <2>4
    <3> QED BY <2>2, <3>1, WindowCounts
  <2>6. Upto(exact, LastTime) = Upto(exact, current)
    <3>1. PICK l \in Int : l = LastTime /\ current <= l
      BY <2>3
    <3>2. \A u \in 0 .. LastTime : current < u /\ u <= l => exact[u] = 0
      BY <2>2 DEF Faithful
    <3>3. Upto(exact, l) = Upto(exact, current)
      BY <2>1, <2>2, <3>1, <3>2, UptoStays
    <3> QED BY <3>1, <3>3
  <2>7. PICK first : first = Max({0, c + 1})
    OBVIOUS
  <2>8. first = IF c + 1 <= 0 THEN 0 ELSE c + 1
    BY <2>7 DEF Max
  <2>9. first \in 0 .. LastTime + 1 /\ first <= current + 1
    BY <2>1, <2>3, <2>4, <2>8
  <2>10. SumFunctionOnSet(exact, first .. current) = Upto(exact, current) - Upto(exact, first - 1)
    BY <2>2, <2>9, UptoBetween
  <2>11. Upto(exact, first - 1) = Upto(exact, c)
    <3>1. CASE c + 1 <= 0
      <4>1. PICK u \in Int : u = first - 1 /\ u < 0
        BY <2>8, <3>1
      <4>2. Upto(exact, u) = 0 /\ Upto(exact, c) = 0
        BY <2>2, <3>1, <4>1, UptoAll
      <4> QED BY <4>1, <4>2
    <3>2. CASE ~(c + 1 <= 0)
      <4>1. first - 1 = c
        BY <2>8, <3>2
      <4> QED BY <4>1, Zenon
    <3> QED BY <3>1, <3>2
  <2>12. UsageSince(buckets, c) = SumFunctionOnSet(exact, first .. current)
    BY <2>5, <2>6, <2>10, <2>11
  <2>13. CurrentSecond - duration = c /\ CurrentSecond - duration + 1 = c + 1
    BY <2>1, <2>4
  <2> QED BY <2>1, <2>7, <2>12, <2>13, Zenon DEF Downloaded
<1> QED BY <1>1, BucketsAreFaithful, PTL

(* check (m.check) admits a client that comes back when the Retry-After header *)
(* told it to, however many windows it had exceeded: what longestRetry     *)
(* names is enough for all of them, and no window counts more as time      *)
(* passes.                                                                 *)
THEOREM PromisesAreKept == PromiseSpec => []ReturningClientIsAdmitted
<1>1. PromiseInv => ReturningClientIsAdmitted
  <2> SUFFICES ASSUME PromiseInv, promise # NoPromise, wallClock >= promise,
                      NEW w \in Violated
               PROVE  FALSE
    BY DEF ReturningClientIsAdmitted
  <2>1. /\ PromiseTypeOK /\ lastNow <= wallClock /\ FirstFree(exact, promise)
        /\ wallClock \in Int /\ promise \in Int
    BY RetryPromiseAssumption DEF PromiseInv, PromiseTypeOK
  <2>2. CurrentSecond = wallClock
    BY <2>1, CurrentSecondIs
  <2>3. w \in QuotaWindow /\ w.limit \in Int
    BY RetryPromiseAssumption DEF Violated
  <2>4. exact \in [0 .. LastTime -> Nat] /\ SeenAt(exact, wallClock, w) >= w.limit
    BY <2>2, <2>3, NowFaithful
  <2>5. SeenAt(exact, promise, w) < w.limit
    BY <2>1, <2>3 DEF FirstFree
  <2>6. PICK s \in Int : s = promise
    BY <2>1
  <2>7. PICK t \in Int : t = wallClock
    BY <2>1
  <2>8. s <= t
    BY <2>6, <2>7
  <2>9. /\ SeenAt(exact, t, w) <= SeenAt(exact, s, w)
        /\ SeenAt(exact, s, w) \in Int /\ SeenAt(exact, t, w) \in Int
    BY ONLY <2>3, <2>4, <2>8, SeenLess
  <2> QED BY <2>3, <2>4, <2>5, <2>6, <2>7, <2>9
<1> QED BY <1>1, BucketsAreFaithful, PTL

(* Until that time it would still have been refused: retryAfter does not   *)
(* make a client wait a second longer than its windows require.            *)
THEOREM NobodyWaitsTooLong == PromiseSpec => []NoEarlierAdmission
<1>1. PromiseInv => NoEarlierAdmission
  <2> SUFFICES ASSUME PromiseInv, promise # NoPromise, wallClock < promise
               PROVE  Violated # {}
    BY DEF NoEarlierAdmission
  <2>1. /\ PromiseTypeOK /\ lastNow <= wallClock /\ FirstFree(exact, promise)
        /\ wallClock \in Int /\ promise \in Int
    BY RetryPromiseAssumption DEF PromiseInv, PromiseTypeOK
  <2>2. CurrentSecond = wallClock
    BY <2>1, CurrentSecondIs
  <2>3. PICK w \in QuotaWindow : SeenAt(exact, promise - 1, w) >= w.limit
    BY <2>1 DEF FirstFree
  <2>4. w.limit \in Int
    BY RetryPromiseAssumption
  <2>5. PICK s \in Int : s = wallClock
    BY <2>1
  <2>6. PICK t \in Int : t = promise - 1
    BY <2>1
  <2>7. s <= t
    BY <2>1, <2>5, <2>6
  <2>8. exact \in [0 .. LastTime -> Nat]
    BY NowFaithful
  <2>9. /\ SeenAt(exact, t, w) <= SeenAt(exact, s, w)
        /\ SeenAt(exact, s, w) \in Int /\ SeenAt(exact, t, w) \in Int
    BY ONLY <2>7, <2>8, SeenLess
  <2>10. SeenAt(exact, wallClock, w) >= w.limit
    BY <2>3, <2>4, <2>5, <2>6, <2>9
  <2> QED BY <2>2, <2>10, NowFaithful
<1> QED BY <1>1, BucketsAreFaithful, PTL
=============================================================================
