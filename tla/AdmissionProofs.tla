--------------------------- MODULE AdmissionProofs ---------------------------
(***************************************************************************)
(* The safety of the admission middleware for every number of requests,     *)
(* slots and queue places.                                                  *)
(***************************************************************************)
EXTENDS Admission, FiniteSetTheorems, TLAPS

FutState == {"none", "pending", "granted", "cancelled"}

\* How the variables of one request hang together.
Coupled ==
  \A r \in Req :
    /\ fut[r] # "none" <=> phase[r] = "queued"
    /\ fut[r] = "cancelled" => pend[r] # "none"
    /\ fut[r] = "pending" \/ phase[r] = "new" => pend[r] = "none"
    /\ phase[r] \in Active => slot[r] = "held"
    /\ slot[r] = "held" => phase[r] \in Active \cup Error
    /\ slot[r] = "released" => phase[r] = "done"

\* The inductive strengthening of the invariants about slots and gauges.
SlotInv ==
  /\ TypeOK
  /\ Coupled
  /\ SlotsConserved
  /\ GaugesExact
  /\ AdmissionBounded
  /\ LedgerBalanced

-----------------------------------------------------------------------------
\* Every set of requests the invariants count is finite.
LEMMA RequestSetsFinite ==
  ASSUME NEW S, S \subseteq Req
  PROVE  IsFiniteSet(S) /\ Cardinality(S) \in Nat
  BY ReqAssumption, FS_Subset, FS_CardinalityType

\* A request that joins a set of requests, or leaves it, moves its count by one.
LEMMA OneMore ==
  ASSUME NEW S, S \subseteq Req, NEW r \in Req, r \notin S
  PROVE  Cardinality(S \cup {r}) = Cardinality(S) + 1
  BY RequestSetsFinite, FS_AddElement

LEMMA OneLess ==
  ASSUME NEW S, S \subseteq Req, NEW r \in S
  PROVE  Cardinality(S \ {r}) = Cardinality(S) - 1 /\ Cardinality(S) > 0
<1>1. Cardinality(S \ {r}) = Cardinality(S) - 1
  BY RequestSetsFinite, FS_RemoveElement
<1>2. Cardinality(S \ {r}) \in Nat /\ Cardinality(S) \in Nat
  BY RequestSetsFinite
<1>3. QED
  BY <1>1, <1>2

\* Wake turns units of the semaphore into granted futures, one for one, and
\* touches no future but the pending ones it grants.
LEMMA WakeConserves ==
  ASSUME NEW f \in [Req -> FutState], NEW v \in Nat, NEW limit \in Nat,
         limit <= v, Wake(f, v, limit)
  PROVE  /\ fut' \in [Req -> FutState]
         /\ value' \in Nat
         /\ value' + Cardinality(InFut(fut', "granted"))
              = v + Cardinality(InFut(f, "granted"))
         /\ \A q \in Req : \/ fut'[q] = f[q]
                           \/ f[q] = "pending" /\ fut'[q] = "granted"
<1>1. PICK W \in SUBSET InFut(f, "pending") :
        /\ Cardinality(W) <= limit
        /\ fut' = [q \in Req |-> IF q \in W THEN "granted" ELSE f[q]]
        /\ value' = v - Cardinality(W)
  BY DEF Wake
<1>2. /\ W \subseteq Req /\ InFut(f, "granted") \subseteq Req
      /\ W \cap InFut(f, "granted") = {}
  BY DEF InFut
<1>3. InFut(fut', "granted") = InFut(f, "granted") \cup W
  BY <1>1, <1>2 DEF InFut
<1>4. Cardinality(InFut(f, "granted") \cup W)
        = Cardinality(InFut(f, "granted")) + Cardinality(W)
  <2>1. InFut(f, "granted") \cap W = {}
    BY <1>2
  <2>2. Cardinality(InFut(f, "granted") \cap W) = 0
    BY <2>1, FS_EmptySet
  <2>3. /\ IsFiniteSet(W) /\ IsFiniteSet(InFut(f, "granted"))
        /\ Cardinality(W) \in Nat /\ Cardinality(InFut(f, "granted")) \in Nat
    BY <1>2, RequestSetsFinite
  <2>4. Cardinality(InFut(f, "granted") \cup W)
          = Cardinality(InFut(f, "granted")) + Cardinality(W)
            - Cardinality(InFut(f, "granted") \cap W)
    BY <2>3, FS_Union
  <2>5. QED
    BY <2>2, <2>3, <2>4
<1>5. Cardinality(W) \in Nat /\ Cardinality(InFut(f, "granted")) \in Nat
  BY <1>2, RequestSetsFinite
<1>6. value' \in Nat
  BY <1>1, <1>5
<1>7. fut' \in [Req -> FutState]
  BY <1>1 DEF FutState
<1>8. \A q \in Req : fut'[q] = f[q] \/ (f[q] = "pending" /\ fut'[q] = "granted")
  BY <1>1 DEF InFut
<1>9. value' + Cardinality(InFut(fut', "granted")) = v + Cardinality(InFut(f, "granted"))
  <2>1. value' = v - Cardinality(W)
    BY <1>1
  <2>2. QED
    BY <2>1, <1>3, <1>4, <1>5
<1>10. QED
  BY <1>6, <1>7, <1>8, <1>9

-----------------------------------------------------------------------------
\* Steps that move no request in or out of the queue or a slot.
Quiet ==
  /\ UNCHANGED <<slot, fut, value, active, queued, inflight, admitted>>
  /\ \A q \in Req : phase'[q] = "queued" <=> phase[q] = "queued"
  /\ counts'["rejected_queue_timeout"] = counts["rejected_queue_timeout"]
  /\ counts'["cancelled_queued"] = counts["cancelled_queued"]

LEMMA QuietStep ==
  ASSUME SlotInv, TypeOK', Coupled', Quiet
  PROVE  SlotInv'
<1>1. Holders' = Holders /\ Released' = Released /\ Queued' = Queued
  BY DEF Quiet, Holders, Released, Queued
<1>2. InFut(fut', "granted") = InFut(fut, "granted")
  BY DEF Quiet, InFut
<1>3. SlotsConserved'
  BY <1>1, <1>2 DEF SlotInv, SlotsConserved, Quiet
<1>4. GaugesExact' /\ AdmissionBounded'
  BY <1>1 DEF SlotInv, GaugesExact, AdmissionBounded, Quiet
<1>5. LedgerBalanced'
  BY <1>1 DEF SlotInv, LedgerBalanced, Quiet
<1>6. QED
  BY <1>3, <1>4, <1>5 DEF SlotInv

\* Counting one outcome leaves every other counter as it was.
LEMMA CountOne ==
  ASSUME TypeOK, NEW c \in Counter, Count(c)
  PROVE  /\ counts' \in [Counted -> Nat]
         /\ \A d \in Counted : counts'[d] = IF d = c THEN counts[d] + 1 ELSE counts[d]
  BY DEF TypeOK, Count

LEMMA EnvironmentQuiet ==
  ASSUME SlotInv, NEW r \in Req,
         \/ Bypass(r) \/ RefuseHeader(r) \/ RefuseFull(r)
         \/ \E n \in 0 .. MaxBody, more \in BOOLEAN : ReadChunk(r, n, more)
         \/ \E n \in 1 .. MaxBody + 1 : ReadTooLarge(r, n)
         \/ ReadDisconnect(r) \/ AppTakesBody(r) \/ AppStartsResponse(r)
         \/ AppSends(r) \/ SendDone(r) \/ AppCatchesSendIdle(r) \/ ErrorHeaderSent(r)
  PROVE  SlotInv'
<1> USE DEF SlotInv
<1>1. "rejected_queue_timeout" \in Counted /\ "cancelled_queued" \in Counted
  BY CountedAssumption
<1>2. CASE Bypass(r)
  <2>1. TypeOK' /\ Coupled' /\ Quiet
    BY <1>2, <1>1 DEF Bypass, TypeOK, Coupled, Quiet, lock, counters, Phase, Active, Error
  <2>2. QED
    BY <2>1, QuietStep
<1>3. CASE RefuseHeader(r) \/ RefuseFull(r)
  <2>1. counts' \in [Counted -> Nat]
        /\ counts'["rejected_queue_timeout"] = counts["rejected_queue_timeout"]
        /\ counts'["cancelled_queued"] = counts["cancelled_queued"]
    BY <1>3, <1>1, CountOne DEF RefuseHeader, RefuseFull, TypeOK, Counter
  <2>2. /\ phase[r] = "new" /\ BeginError(r)
        /\ UNCHANGED <<pend, slot, lock, counters, started, held>>
    BY <1>3 DEF RefuseHeader, RefuseFull
  <2>3. TypeOK' /\ Coupled' /\ Quiet
    BY <2>1, <2>2 DEF BeginError, TypeOK, Coupled, Quiet, lock, counters, Phase, Active, Error
  <2>4. QED
    BY <2>3, QuietStep
<1>4. CASE \E n \in 1 .. MaxBody + 1 : ReadTooLarge(r, n)
  <2>1. counts' \in [Counted -> Nat]
        /\ counts'["rejected_queue_timeout"] = counts["rejected_queue_timeout"]
        /\ counts'["cancelled_queued"] = counts["cancelled_queued"]
    BY <1>4, <1>1, CountOne DEF ReadTooLarge, TypeOK, Counter
  <2>2. TypeOK' /\ Coupled' /\ Quiet
    BY <1>4, <2>1 DEF ReadTooLarge, Running, BeginError, TypeOK, Coupled, Quiet, lock,
                      counters, Phase, Active, Error
  <2>3. QED
    BY <2>2, QuietStep
<1>5. CASE \E n \in 0 .. MaxBody, more \in BOOLEAN : ReadChunk(r, n, more)
  <2>1. PICK n \in 0 .. MaxBody, more \in BOOLEAN : ReadChunk(r, n, more)
    BY <1>5
  <2>2. n \in Nat
    BY BodyAssumption
  <2>3. held' \in [Req -> Nat]
    BY <2>1, <2>2 DEF ReadChunk, TypeOK
  <2>4. phase' \in [Req -> Phase]
    BY <2>1 DEF ReadChunk, TypeOK, Phase, Active
  <2>5. /\ UNCHANGED <<pend, slot, lock, counters, counts, started, starts>>
        /\ phase[r] = "reading" /\ phase'[r] \in {"reading", "serving"}
        /\ \A q \in Req \ {r} : phase'[q] = phase[q]
    BY <2>1 DEF ReadChunk, Running, TypeOK
  <2>6. TypeOK'
    BY <2>3, <2>4, <2>5 DEF TypeOK, lock, counters
  <2>7. Coupled' /\ Quiet
    BY <2>5 DEF Coupled, Quiet, lock, counters, Active, Error
  <2>8. QED
    BY <2>6, <2>7, QuietStep
<1>6. CASE ReadDisconnect(r)
  <2>1. TypeOK'
    BY <1>6 DEF ReadDisconnect, Running, TypeOK, lock, counters, Phase, Active, Error
  <2>2. Coupled' /\ Quiet
    BY <1>6 DEF ReadDisconnect, Running, TypeOK, Coupled, Quiet, lock, counters, Active, Error
  <2>3. QED
    BY <2>1, <2>2, QuietStep
<1>7. CASE AppTakesBody(r)
  <2>1. TypeOK'
    BY <1>7 DEF AppTakesBody, Running, TypeOK, lock, counters, Phase, Active, Error
  <2>2. Coupled' /\ Quiet
    BY <1>7 DEF AppTakesBody, Running, TypeOK, Coupled, Quiet, lock, counters, Active, Error
  <2>3. QED
    BY <2>1, <2>2, QuietStep
<1>8. CASE AppStartsResponse(r)
  <2>1. TypeOK'
    BY <1>8 DEF AppStartsResponse, Running, TypeOK, lock, counters, Phase, Active, Error
  <2>2. Coupled' /\ Quiet
    BY <1>8 DEF AppStartsResponse, Running, TypeOK, Coupled, Quiet, lock, counters, Active, Error
  <2>3. QED
    BY <2>1, <2>2, QuietStep
<1>9. CASE AppSends(r)
  <2>1. TypeOK'
    BY <1>9 DEF AppSends, Running, TypeOK, lock, counters, Phase, Active, Error
  <2>2. Coupled' /\ Quiet
    BY <1>9 DEF AppSends, Running, TypeOK, Coupled, Quiet, lock, counters, Active, Error
  <2>3. QED
    BY <2>1, <2>2, QuietStep
<1>10. CASE SendDone(r)
  <2>1. TypeOK'
    BY <1>10 DEF SendDone, Running, TypeOK, lock, counters, Phase, Active, Error
  <2>2. Coupled' /\ Quiet
    BY <1>10 DEF SendDone, Running, TypeOK, Coupled, Quiet, lock, counters, Active, Error
  <2>3. QED
    BY <2>1, <2>2, QuietStep
<1>11. CASE AppCatchesSendIdle(r)
  <2>1. TypeOK'
    BY <1>11 DEF AppCatchesSendIdle, TypeOK, lock, counters, Phase, Active, Error
  <2>2. Coupled' /\ Quiet
    BY <1>11 DEF AppCatchesSendIdle, TypeOK, Coupled, Quiet, lock, counters, Active, Error
  <2>3. QED
    BY <2>1, <2>2, QuietStep
<1>12. CASE ErrorHeaderSent(r)
  <2>1. TypeOK'
    BY <1>12 DEF ErrorHeaderSent, Running, TypeOK, lock, counters, Phase, Active, Error
  <2>2. Coupled' /\ Quiet
    BY <1>12 DEF ErrorHeaderSent, Running, TypeOK, Coupled, Quiet, lock, counters, Active, Error
  <2>3. QED
    BY <2>1, <2>2, QuietStep
<1>13. QED
  BY <1>2, <1>3, <1>4, <1>5, <1>6, <1>7, <1>8, <1>9, <1>10, <1>11, <1>12

-----------------------------------------------------------------------------
\* Steps that do move one: the gauges and the sets they count move together.
LEMMA AdmitAtOnceStep ==
  ASSUME SlotInv, NEW r \in Req, AdmitAtOnce(r)
  PROVE  SlotInv'
<1> USE DEF SlotInv
<1>1. /\ r \notin Holders /\ value > 0 /\ phase[r] = "new"
      /\ inflight < MaxActive + MaxQueued
  BY DEF AdmitAtOnce, Locked, Holders, Coupled, TypeOK, Active, Error
<1>2. /\ Holders' = Holders \cup {r} /\ Released' = Released
      /\ Queued' = Queued /\ InFut(fut', "granted") = InFut(fut, "granted")
  BY <1>1 DEF AdmitAtOnce, Holders, Released, Queued, InFut, TypeOK, Coupled
<1>3. Cardinality(Holders') = Cardinality(Holders) + 1
  BY <1>1, <1>2, OneMore DEF Holders
<1>4. TypeOK'
  BY <1>1 DEF AdmitAtOnce, TypeOK, Phase, Active
<1>5. Coupled'
  BY <1>1 DEF AdmitAtOnce, Coupled, TypeOK, Active, Error
<1>6. Cardinality(Holders) \in Nat /\ Cardinality(InFut(fut, "granted")) \in Nat
      /\ Cardinality(Released) \in Nat /\ Cardinality(Queued) \in Nat
  BY RequestSetsFinite DEF Holders, InFut, Released, Queued
<1>7. SlotsConserved'
  BY <1>1, <1>2, <1>3, <1>6 DEF SlotsConserved, AdmitAtOnce, TypeOK
<1>8. GaugesExact'
  BY <1>2, <1>3, <1>6 DEF GaugesExact, AdmitAtOnce, TypeOK
<1>9. AdmissionBounded'
  <2>1. active' <= MaxActive
    BY <1>3, <1>6, <1>1 DEF GaugesExact, SlotsConserved, AdmitAtOnce, TypeOK
  <2>2. QED
    BY <2>1, <1>1, ActiveAssumption, QueuedAssumption DEF AdmissionBounded, AdmitAtOnce, TypeOK
<1>10. LedgerBalanced'
  <2>1. counts' = counts /\ admitted' = admitted + 1 /\ inflight' = inflight + 1
    BY DEF AdmitAtOnce
  <2>2. QED
    BY <1>2, <1>6, <2>1, CountedAssumption DEF LedgerBalanced, TypeOK
<1>11. QED
  BY <1>4, <1>5, <1>7, <1>8, <1>9, <1>10

LEMMA AdmitQueuedStep ==
  ASSUME SlotInv, NEW r \in Req, AdmitQueued(r)
  PROVE  SlotInv'
<1> USE DEF SlotInv
<1>1. r \notin Queued /\ phase[r] = "new" /\ inflight < MaxActive + MaxQueued
      /\ fut[r] = "none"
  BY DEF AdmitQueued, Queued, Coupled, TypeOK
<1>2. /\ Holders' = Holders /\ Released' = Released
      /\ Queued' = Queued \cup {r} /\ InFut(fut', "granted") = InFut(fut, "granted")
  BY <1>1 DEF AdmitQueued, Holders, Released, Queued, InFut, TypeOK
<1>3. Cardinality(Queued') = Cardinality(Queued) + 1
  BY <1>1, <1>2, OneMore DEF Queued
<1>4. TypeOK'
  BY DEF AdmitQueued, TypeOK, Phase
<1>5. Coupled'
  BY <1>1 DEF AdmitQueued, Coupled, TypeOK, Active, Error
<1>6. Cardinality(Holders) \in Nat /\ Cardinality(Released) \in Nat
      /\ Cardinality(Queued) \in Nat
  BY RequestSetsFinite DEF Holders, Released, Queued
<1>7. SlotsConserved'
  BY <1>2 DEF SlotsConserved, AdmitQueued
<1>8. GaugesExact'
  BY <1>2, <1>3, <1>6 DEF GaugesExact, AdmitQueued, TypeOK
<1>9. AdmissionBounded'
  BY <1>1, ActiveAssumption, QueuedAssumption DEF AdmissionBounded, AdmitQueued, TypeOK
<1>10. LedgerBalanced'
  <2>1. counts' = counts /\ admitted' = admitted + 1 /\ inflight' = inflight + 1
    BY DEF AdmitQueued
  <2>2. QED
    BY <1>2, <1>6, <2>1, CountedAssumption DEF LedgerBalanced, TypeOK
<1>11. QED
  BY <1>4, <1>5, <1>7, <1>8, <1>9, <1>10

\* A timer or a canceller marks a task; no set and no gauge moves.
LEMMA TaskCancelStep ==
  ASSUME SlotInv, NEW r \in Req, NEW cause \in Cause, TaskCancel(r, cause), phase[r] # "new"
  PROVE  SlotInv'
<1> USE DEF SlotInv
<1>1. /\ Holders' = Holders /\ Released' = Released
      /\ Queued' = Queued /\ InFut(fut', "granted") = InFut(fut, "granted")
  BY DEF TaskCancel, Holders, Released, Queued, InFut, TypeOK
<1>2. UNCHANGED <<phase, slot, value, active, queued, inflight, admitted, counts>>
  BY DEF TaskCancel, counters
<1>3. TypeOK'
  BY DEF TaskCancel, TypeOK, counters
<1>4. Coupled'
  <2>1. /\ fut'[r] # "pending" /\ pend'[r] # "none" /\ (fut'[r] # "none" <=> fut[r] # "none")
        /\ \A q \in Req \ {r} : fut'[q] = fut[q] /\ pend'[q] = pend[q]
    BY DEF TaskCancel, TypeOK, Cause
  <2>2. QED
    BY <2>1, <1>2 DEF Coupled, TypeOK, Active, Error
<1>5. SlotsConserved' /\ GaugesExact' /\ AdmissionBounded' /\ LedgerBalanced'
  BY <1>1, <1>2 DEF SlotsConserved, GaugesExact, AdmissionBounded, LedgerBalanced
<1>6. QED
  BY <1>3, <1>4, <1>5

LEMMA ResumeAcquiredStep ==
  ASSUME SlotInv, NEW r \in Req, ResumeAcquired(r)
  PROVE  SlotInv'
<1> USE DEF SlotInv
<1> DEFINE f == [fut EXCEPT ![r] = "none"]
<1>1. /\ phase[r] = "queued" /\ fut[r] = "granted" /\ pend[r] = "none"
      /\ slot[r] = "none"
      /\ f \in [Req -> FutState] /\ value \in Nat /\ Wake(f, value, value)
  BY DEF ResumeAcquired, AcquireReturns, TypeOK, FutState, Coupled, Active, Error
<1>2. /\ fut' \in [Req -> FutState] /\ value' \in Nat
      /\ value' + Cardinality(InFut(fut', "granted"))
           = value + Cardinality(InFut(f, "granted"))
      /\ \A q \in Req : fut'[q] = f[q] \/ (f[q] = "pending" /\ fut'[q] = "granted")
  <2> HIDE DEF f
  <2>1. QED
    BY <1>1, WakeConserves
<1>3. InFut(f, "granted") = InFut(fut, "granted") \ {r} /\ r \in InFut(fut, "granted")
  BY <1>1 DEF InFut, TypeOK
<1>4. Cardinality(InFut(f, "granted")) = Cardinality(InFut(fut, "granted")) - 1
  BY <1>3, OneLess DEF InFut
<1>5. /\ Holders' = Holders \cup {r} /\ r \notin Holders /\ Released' = Released
      /\ Queued' = Queued \ {r} /\ r \in Queued
  BY <1>1 DEF ResumeAcquired, Holders, Released, Queued, TypeOK
<1>6. /\ Cardinality(Holders') = Cardinality(Holders) + 1
      /\ Cardinality(Queued') = Cardinality(Queued) - 1 /\ Cardinality(Queued) > 0
  BY <1>5, OneMore, OneLess DEF Holders, Queued
<1>7. /\ Cardinality(Holders) \in Nat /\ Cardinality(Queued) \in Nat
      /\ Cardinality(InFut(fut, "granted")) \in Nat
      /\ Cardinality(InFut(fut', "granted")) \in Nat
  BY RequestSetsFinite DEF Holders, Queued, InFut
<1>8. /\ queued' = queued - 1 /\ active' = active + 1
      /\ UNCHANGED <<inflight, admitted, counts>>
  BY DEF ResumeAcquired
<1>9. SlotsConserved'
  BY <1>2, <1>4, <1>6, <1>7 DEF SlotsConserved, TypeOK
<1>10. GaugesExact'
  BY <1>6, <1>7, <1>8 DEF GaugesExact, TypeOK
<1>11. AdmissionBounded'
  BY <1>2, <1>7, <1>8, <1>9, <1>10, ActiveAssumption
     DEF AdmissionBounded, SlotsConserved, GaugesExact
<1>12. LedgerBalanced'
  BY <1>5, <1>8 DEF LedgerBalanced
<1>13. TypeOK'
  <2>1. queued' \in Nat /\ active' \in Nat
    BY <1>6, <1>7, <1>8 DEF GaugesExact, TypeOK
  <2>2. phase' \in [Req -> Phase]
    BY DEF ResumeAcquired, TypeOK, Phase, Active
  <2>3. QED
    BY <1>2, <2>1, <2>2 DEF ResumeAcquired, TypeOK, FutState
<1>14. Coupled'
  BY <1>1, <1>2 DEF ResumeAcquired, Coupled, TypeOK, Active, Error
<1>15. QED
  BY <1>9, <1>10, <1>11, <1>12, <1>13, <1>14

\* A waiter that leaves gives back the unit it may have been handed.
LEMMA LeaveQueueStep ==
  ASSUME SlotInv, NEW r \in Req,
         NEW c \in {"rejected_queue_timeout", "cancelled_queued"}, LeaveQueue(r, c),
         phase' = [phase EXCEPT ![r] = "error1"] \/ phase' = [phase EXCEPT ![r] = "done"],
         starts' \in [Req -> Nat]
  PROVE  SlotInv'
<1> USE DEF SlotInv
<1> DEFINE f == [fut EXCEPT ![r] = "none"]
           v == IF fut[r] = "granted" THEN value + 1 ELSE value
<1>1. /\ phase[r] = "queued" /\ fut[r] # "none" /\ slot[r] = "none"
      /\ f \in [Req -> FutState] /\ v \in Nat /\ Wake(f, v, v)
  BY DEF LeaveQueue, AcquireCancelled, TypeOK, FutState, Coupled, Active, Error
<1>2. /\ fut' \in [Req -> FutState] /\ value' \in Nat
      /\ value' + Cardinality(InFut(fut', "granted"))
           = v + Cardinality(InFut(f, "granted"))
      /\ \A q \in Req : fut'[q] = f[q] \/ (f[q] = "pending" /\ fut'[q] = "granted")
  <2> HIDE DEF f, v
  <2>1. QED
    BY <1>1, WakeConserves
<1>3. Cardinality(InFut(f, "granted")) \in Nat /\ Cardinality(InFut(fut, "granted")) \in Nat
  BY RequestSetsFinite DEF InFut
<1>4. v + Cardinality(InFut(f, "granted")) = value + Cardinality(InFut(fut, "granted"))
  <2>1. CASE fut[r] = "granted"
    <3>1. InFut(f, "granted") = InFut(fut, "granted") \ {r} /\ r \in InFut(fut, "granted")
      BY <2>1 DEF InFut, TypeOK
    <3>2. Cardinality(InFut(f, "granted")) = Cardinality(InFut(fut, "granted")) - 1
      BY <3>1, OneLess DEF InFut
    <3>3. v = value + 1
      BY <2>1
    <3>4. QED
      BY <3>2, <3>3, <1>3 DEF TypeOK
  <2>2. CASE fut[r] # "granted"
    <3>1. InFut(f, "granted") = InFut(fut, "granted")
      BY <2>2 DEF InFut, TypeOK
    <3>2. QED
      BY <3>1, <2>2
  <2>3. QED
    BY <2>1, <2>2
<1>5. /\ Holders' = Holders /\ Released' = Released
      /\ Queued' = Queued \ {r} /\ r \in Queued
  BY <1>1 DEF LeaveQueue, Holders, Released, Queued, TypeOK
<1>6. Cardinality(Queued') = Cardinality(Queued) - 1 /\ Cardinality(Queued) > 0
  BY <1>5, OneLess DEF Queued
<1>7. Cardinality(Queued) \in Nat /\ Cardinality(Released) \in Nat
  BY RequestSetsFinite DEF Queued, Released
<1>8. /\ queued' = queued - 1 /\ inflight' = inflight - 1
      /\ UNCHANGED <<slot, active, admitted, started, held>>
      /\ counts' = [d \in Counted |-> IF d = c THEN counts[d] + 1 ELSE counts[d]]
      /\ pend' = [pend EXCEPT ![r] = "none"] /\ ticket' = [ticket EXCEPT ![r] = 0]
  BY DEF LeaveQueue, Count
<1>9. SlotsConserved'
  BY <1>2, <1>4, <1>5 DEF SlotsConserved
<1>10. GaugesExact'
  BY <1>5, <1>6, <1>7, <1>8 DEF GaugesExact, TypeOK
<1>11. AdmissionBounded'
  BY <1>8, ActiveAssumption, QueuedAssumption DEF AdmissionBounded, TypeOK
<1>12. LedgerBalanced'
  <2>1. "rejected_queue_timeout" \in Counted /\ "cancelled_queued" \in Counted
    BY CountedAssumption
  <2>2. counts'["rejected_queue_timeout"] + counts'["cancelled_queued"]
          = counts["rejected_queue_timeout"] + counts["cancelled_queued"] + 1
    BY <1>8, <2>1 DEF TypeOK
  <2>3. counts'["rejected_queue_timeout"] \in Nat /\ counts'["cancelled_queued"] \in Nat
        /\ counts["rejected_queue_timeout"] \in Nat /\ counts["cancelled_queued"] \in Nat
    BY <1>8, <2>1 DEF TypeOK
  <2>4. QED
    BY <1>5, <1>7, <1>8, <2>2, <2>3 DEF LedgerBalanced, TypeOK
<1>13. TypeOK'
  <2>1. queued' \in Nat /\ inflight' \in Nat
    BY <1>6, <1>7, <1>8 DEF GaugesExact, TypeOK
  <2>2. phase' \in [Req -> Phase]
    BY DEF TypeOK, Phase, Error
  <2>3. counts' \in [Counted -> Nat]
    BY <1>8 DEF TypeOK
  <2>4. pend' \in [Req -> Cause \cup {"none"}] /\ ticket' \in [Req -> Nat]
    BY <1>8 DEF TypeOK
  <2>5. QED
    BY <1>2, <1>8, <2>1, <2>2, <2>3, <2>4 DEF TypeOK, FutState
<1>14. Coupled'
  BY <1>1, <1>2, <1>8 DEF Coupled, TypeOK, Active, Error
<1>15. QED
  BY <1>9, <1>10, <1>11, <1>12, <1>13, <1>14

\* The two counters of the ledger stay as they are.
LedgerKept ==
  /\ counts' \in [Counted -> Nat]
  /\ counts'["rejected_queue_timeout"] = counts["rejected_queue_timeout"]
  /\ counts'["cancelled_queued"] = counts["cancelled_queued"]

\* A call that ends gives back exactly what it acquired.
LEMMA FinallyStep ==
  ASSUME SlotInv, NEW r \in Req, phase[r] \in Active \cup Error, Finally(r), LedgerKept
  PROVE  SlotInv'
<1> USE DEF SlotInv
<1>1. /\ fut[r] = "none" /\ slot[r] # "released" /\ phase[r] # "queued"
      /\ fut \in [Req -> FutState]
  BY DEF Coupled, TypeOK, Active, Error, FutState
<1>2. /\ phase' = [phase EXCEPT ![r] = "done"] /\ pend' = [pend EXCEPT ![r] = "none"]
      /\ UNCHANGED <<ticket, queued, admitted>>
      /\ held' = [held EXCEPT ![r] = 0] /\ started' = [started EXCEPT ![r] = FALSE]
      /\ starts' = [starts EXCEPT ![r] = 0]
  BY DEF Finally
<1>3. Queued' = Queued
  BY <1>1, <1>2 DEF Queued, TypeOK
<1>4. /\ Cardinality(Holders) \in Nat /\ Cardinality(Queued) \in Nat
      /\ Cardinality(Released) \in Nat /\ Cardinality(InFut(fut, "granted")) \in Nat
      /\ Cardinality(InFut(fut', "granted")) \in Nat
  BY RequestSetsFinite DEF Holders, Queued, Released, InFut
<1>5. /\ phase' \in [Req -> Phase] /\ pend' \in [Req -> Cause \cup {"none"}]
      /\ held' \in [Req -> Nat] /\ started' \in [Req -> BOOLEAN]
      /\ starts' \in [Req -> Nat] /\ queued' \in Nat /\ admitted' \in Nat
      /\ ticket' \in [Req -> Nat] /\ counts' \in [Counted -> Nat]
  BY <1>2 DEF TypeOK, LedgerKept, Phase
<1>6. ASSUME slot[r] = "held"
      PROVE  SlotInv'
  <2>1. /\ slot' = [slot EXCEPT ![r] = "released"] /\ active' = active - 1
        /\ inflight' = inflight - 1 /\ Wake(fut, value + 1, 1)
    BY <1>6 DEF Finally, Acquired, GiveBack, ReleaseSlot
  <2>2. value + 1 \in Nat /\ 1 \in Nat /\ 1 <= value + 1 /\ value \in Nat
    BY DEF TypeOK
  <2>3. /\ fut' \in [Req -> FutState] /\ value' \in Nat
        /\ value' + Cardinality(InFut(fut', "granted"))
             = (value + 1) + Cardinality(InFut(fut, "granted"))
        /\ \A q \in Req : fut'[q] = fut[q] \/ (fut[q] = "pending" /\ fut'[q] = "granted")
    BY <1>1, <2>1, <2>2, WakeConserves
  <2>4. /\ Holders' = Holders \ {r} /\ r \in Holders
        /\ Released' = Released \cup {r} /\ r \notin Released
    BY <1>1, <1>6, <2>1 DEF Holders, Released, TypeOK
  <2>5. /\ Cardinality(Holders') = Cardinality(Holders) - 1 /\ Cardinality(Holders) > 0
        /\ Cardinality(Released') = Cardinality(Released) + 1
    BY <2>4, OneMore, OneLess DEF Holders, Released
  <2>6. SlotsConserved'
    BY <2>2, <2>3, <2>5, <1>4 DEF SlotsConserved
  <2>7. GaugesExact'
    BY <1>2, <1>3, <1>4, <2>1, <2>5 DEF GaugesExact, TypeOK
  <2>8. AdmissionBounded'
    BY <2>1, ActiveAssumption, QueuedAssumption DEF AdmissionBounded, TypeOK
  <2>9. LedgerBalanced'
    <3>1. /\ counts["rejected_queue_timeout"] \in Nat /\ counts["cancelled_queued"] \in Nat
      BY CountedAssumption DEF TypeOK
    <3>2. QED
      BY <1>2, <1>4, <2>1, <2>5, <3>1 DEF LedgerBalanced, LedgerKept, TypeOK
  <2>10. TypeOK'
    <3>1. active' \in Nat /\ inflight' \in Nat
      BY <2>1, <2>5, <1>4 DEF GaugesExact, TypeOK
    <3>2. slot' \in [Req -> {"none", "held", "released"}]
      BY <2>1 DEF TypeOK
    <3>3. QED
      BY <1>5, <2>3, <3>1, <3>2 DEF TypeOK, FutState
  <2>11. Coupled'
    BY <1>1, <1>2, <2>1, <2>3 DEF Coupled, TypeOK, Active, Error
  <2>12. QED
    BY <2>6, <2>7, <2>8, <2>9, <2>10, <2>11
<1>7. ASSUME slot[r] # "held"
      PROVE  SlotInv'
  <2>1. UNCHANGED <<slot, active, inflight, fut, value>>
    BY <1>7 DEF Finally, Acquired
  <2>2. Holders' = Holders /\ Released' = Released
        /\ InFut(fut', "granted") = InFut(fut, "granted")
    BY <2>1 DEF Holders, Released, InFut
  <2>3. SlotsConserved' /\ GaugesExact' /\ AdmissionBounded' /\ LedgerBalanced'
    BY <1>2, <1>3, <2>1, <2>2
       DEF SlotsConserved, GaugesExact, AdmissionBounded, LedgerBalanced, LedgerKept
  <2>4. TypeOK'
    BY <1>5, <2>1 DEF TypeOK
  <2>5. Coupled'
    BY <1>1, <1>2, <1>7, <2>1 DEF Coupled, TypeOK, Active, Error
  <2>6. QED
    BY <2>3, <2>4, <2>5
<1>8. QED
  BY <1>6, <1>7

\* A timeout either ends the call or begins an error, with the slot still held.
LEMMA TimedOutStep ==
  ASSUME SlotInv, NEW r \in Req, phase[r] \in Active,
         NEW c \in {"request_timeout", "body_idle"}, TimedOut(r, c)
  PROVE  SlotInv'
<1>1. LedgerKept
  BY CountedAssumption DEF SlotInv, TypeOK, TimedOut, Count, LedgerKept
<1>2. CASE Finally(r)
  BY <1>1, <1>2, FinallyStep
<1>3. CASE /\ BeginError(r) /\ pend' = [pend EXCEPT ![r] = "none"]
           /\ UNCHANGED <<slot, lock, counters, started, held>>
  <2>1. TypeOK'
    BY <1>1, <1>3 DEF SlotInv, TypeOK, BeginError, LedgerKept, lock, counters, Phase, Error
  <2>2. Coupled' /\ Quiet
    BY <1>1, <1>3 DEF SlotInv, TypeOK, Coupled, BeginError, LedgerKept, Quiet, lock,
                      counters, Active, Error
  <2>3. QED
    BY <2>1, <2>2, QuietStep
<1>4. QED
  BY <1>2, <1>3 DEF TimedOut

LEMMA SlotInvStep == SlotInv /\ [Next]_vars => SlotInv'
<1> SUFFICES ASSUME SlotInv, [Next]_vars
             PROVE  SlotInv'
  OBVIOUS
<1>1. CASE UNCHANGED vars
  BY <1>1 DEF SlotInv, TypeOK, Coupled, SlotsConserved, GaugesExact, AdmissionBounded,
              LedgerBalanced, Holders, Queued, Released, InFut, vars
<1>2. CASE AllDone
  BY <1>2, <1>1 DEF AllDone
<1>3. ASSUME NEW r \in Req, Environment(r)
      PROVE  SlotInv'
  <2>1. CASE AdmitAtOnce(r)
    BY <2>1, AdmitAtOnceStep
  <2>2. CASE AdmitQueued(r)
    BY <2>2, AdmitQueuedStep
  <2>3. CASE CancelTask(r)
    BY <2>3, TaskCancelStep DEF CancelTask, Cause
  <2>4. CASE AppEnds(r) \/ ErrorBodySent(r)
    <3>1. phase[r] \in Active \cup Error /\ Finally(r) /\ LedgerKept
      BY <2>4 DEF AppEnds, ErrorBodySent, Running, Active, Error, LedgerKept, SlotInv, TypeOK
    <3>2. QED
      BY <3>1, FinallyStep
  <2>5. QED
    BY <1>3, <2>1, <2>2, <2>3, <2>4, EnvironmentQuiet DEF Environment
<1>4. ASSUME NEW r \in Req, Timers(r)
      PROVE  SlotInv'
  <2>1. PICK t \in {"queue", "wall", "idle"} : t \in Armed(r) /\ TaskCancel(r, t)
    BY <1>4 DEF Timers, Expire
  <2>2. phase[r] # "new" /\ t \in Cause
    BY <2>1 DEF Armed, Error, Cause
  <2>3. QED
    BY <2>1, <2>2, TaskCancelStep
<1>5. ASSUME NEW r \in Req, Resume(r)
      PROVE  SlotInv'
  <2>1. CASE ResumeAcquired(r)
    BY <2>1, ResumeAcquiredStep
  <2>2. CASE ResumeQueueTimeout(r)
    <3>1. /\ LeaveQueue(r, "rejected_queue_timeout")
          /\ phase' = [phase EXCEPT ![r] = "error1"]
          /\ starts' = [starts EXCEPT ![r] = @ + 1]
      BY <2>2 DEF ResumeQueueTimeout, BeginError
    <3>2. starts' \in [Req -> Nat]
      BY <3>1 DEF SlotInv, TypeOK
    <3>3. QED
      BY <3>1, <3>2, LeaveQueueStep
  <2>3. CASE ResumeCancelledQueued(r)
    BY <2>3, LeaveQueueStep DEF ResumeCancelledQueued, SlotInv, TypeOK
  <2>4. CASE ResumeCancelledActive(r) \/ ResumeSendIdle(r) \/ ErrorAborted(r)
    <3>1. LedgerKept
      BY <2>4, CountedAssumption
         DEF ResumeCancelledActive, ResumeSendIdle, ErrorAborted, Count, LedgerKept,
             SlotInv, TypeOK
    <3>2. phase[r] \in Active \cup Error /\ Finally(r)
      BY <2>4 DEF ResumeCancelledActive, ResumeSendIdle, ErrorAborted, Active, Error
    <3>3. QED
      BY <3>1, <3>2, FinallyStep
  <2>5. CASE ResumeWallTimeout(r) \/ ResumeBodyIdle(r)
    BY <2>5, TimedOutStep DEF ResumeWallTimeout, ResumeBodyIdle, Active
  <2>6. QED
    BY <1>5, <2>1, <2>2, <2>3, <2>4, <2>5 DEF Resume
<1>6. QED
  BY <1>1, <1>2, <1>3, <1>4, <1>5 DEF Next

LEMMA SlotInvInit == Init => SlotInv
<1> SUFFICES ASSUME Init
             PROVE  SlotInv
  OBVIOUS
<1>1. Holders = {} /\ Queued = {} /\ Released = {} /\ InFut(fut, "granted") = {}
  BY DEF Init, Holders, Queued, Released, InFut
<1>2. Cardinality({}) = 0
  BY FS_EmptySet
<1>3. TypeOK
  BY ActiveAssumption DEF Init, TypeOK, Phase, Cause
<1>4. Coupled
  BY DEF Init, Coupled, Active, Error
<1>5. SlotsConserved /\ GaugesExact /\ AdmissionBounded
  BY <1>1, <1>2, ActiveAssumption, QueuedAssumption
     DEF Init, SlotsConserved, GaugesExact, AdmissionBounded
<1>6. LedgerBalanced
  BY <1>1, <1>2, CountedAssumption DEF Init, LedgerBalanced
<1>7. QED
  BY <1>3, <1>4, <1>5, <1>6 DEF SlotInv

\* The inductive invariant holds throughout.
THEOREM SlotInvariant == Spec => []SlotInv
  BY SlotInvInit, SlotInvStep, PTL DEF Spec

-----------------------------------------------------------------------------
\* No interleaving of releases, timeouts and cancellations loses a slot of the
\* semaphore or makes one up.
THEOREM SlotsAreConserved == Spec => []SlotsConserved
  BY SlotInvariant, PTL DEF SlotInv

\* The gauges of the telemetry records equal what they claim to count.
THEOREM GaugesAreExact == Spec => []GaugesExact
  BY SlotInvariant, PTL DEF SlotInv

\* At most MAX_ACTIVE requests are past the queue and at most MAX_ACTIVE +
\* MAX_QUEUED are retained.
THEOREM AdmissionIsBounded == Spec => []AdmissionBounded
  BY SlotInvariant, PTL DEF SlotInv

\* Every admission ends in exactly one recorded way.
THEOREM LedgerIsBalanced == Spec => []LedgerBalanced
  BY SlotInvariant, PTL DEF SlotInv

\* The variables keep their types; in particular no gauge goes below zero.
THEOREM TypeCorrect == Spec => []TypeOK
  BY SlotInvariant, PTL DEF SlotInv

-----------------------------------------------------------------------------
\* Whoever has units to pass on leaves a waiter behind only when there is none
\* left to pass, or when another waiter is on its way with one.
LEMMA WakeServes ==
  ASSUME NEW f \in [Req -> FutState], NEW v \in Nat, NEW limit \in Nat,
         limit = v \/ limit = 1, limit <= v, Wake(f, v, limit)
  PROVE  \/ InFut(fut', "pending") = {}
         \/ InFut(fut', "granted") # {}
         \/ value' = 0
<1>1. PICK W \in SUBSET InFut(f, "pending") :
        /\ Cardinality(W) = limit \/ W = InFut(f, "pending")
        /\ fut' = [q \in Req |-> IF q \in W THEN "granted" ELSE f[q]]
        /\ value' = v - Cardinality(W)
  BY DEF Wake
<1>2. CASE W = InFut(f, "pending")
  <2>1. InFut(fut', "pending") = {}
    BY <1>1, <1>2 DEF InFut
  <2>2. QED
    BY <2>1
<1>3. CASE Cardinality(W) = limit /\ limit = v
  BY <1>1, <1>3
<1>4. CASE Cardinality(W) = limit /\ limit = 1
  <2>1. W # {}
    BY <1>4, FS_EmptySet
  <2>2. PICK w \in W : w \in Req
    BY <2>1 DEF InFut
  <2>3. w \in InFut(fut', "granted")
    BY <1>1, <2>2 DEF InFut
  <2>4. QED
    BY <2>3
<1>5. QED
  BY <1>1, <1>2, <1>3, <1>4

LEMMA NoLostWakeupStep == SlotInv /\ NoLostWakeup /\ [Next]_vars => NoLostWakeup'
<1> SUFFICES ASSUME SlotInv, NoLostWakeup, [Next]_vars
             PROVE  NoLostWakeup'
  OBVIOUS
<1> USE DEF SlotInv
<1>1. fut \in [Req -> FutState] /\ value \in Nat /\ value + 1 \in Nat /\ 1 <= value + 1
  BY DEF TypeOK, FutState
\* Steps that neither free a unit nor make anyone wait.
<1>2. ASSUME UNCHANGED <<fut, value>>
      PROVE  NoLostWakeup'
  BY <1>2 DEF NoLostWakeup, InFut
<1>3. ASSUME NEW r \in Req, Finally(r)
      PROVE  NoLostWakeup'
  <2>1. CASE Wake(fut, value + 1, 1)
    BY <1>1, <2>1, WakeServes DEF NoLostWakeup
  <2>2. CASE UNCHANGED <<fut, value>>
    BY <1>2, <2>2
  <2>3. QED
    BY <1>3, <2>1, <2>2 DEF Finally, GiveBack, ReleaseSlot
<1>4. ASSUME NEW r \in Req, NEW v \in Nat, Wake([fut EXCEPT ![r] = "none"], v, v)
      PROVE  NoLostWakeup'
  <2> DEFINE f == [fut EXCEPT ![r] = "none"]
  <2>1. f \in [Req -> FutState] /\ Wake(f, v, v)
    BY <1>1, <1>4 DEF FutState
  <2> HIDE DEF f
  <2>2. QED
    BY <2>1, WakeServes DEF NoLostWakeup
<1>5. ASSUME NEW r \in Req, NEW cause \in Cause, TaskCancel(r, cause)
      PROVE  NoLostWakeup'
  BY <1>5, <1>1 DEF TaskCancel, NoLostWakeup, InFut
<1>6. ASSUME NEW r \in Req, AdmitAtOnce(r)
      PROVE  NoLostWakeup'
  BY <1>6, <1>1 DEF AdmitAtOnce, NoLostWakeup, InFut, Locked
<1>7. ASSUME NEW r \in Req, AdmitQueued(r)
      PROVE  NoLostWakeup'
  <2>1. InFut(fut', "granted") = InFut(fut, "granted")
    BY <1>7, <1>1 DEF AdmitQueued, InFut, Coupled
  <2>2. QED
    BY <1>7, <2>1, <1>1 DEF AdmitQueued, Locked, NoLostWakeup
<1>8. CASE UNCHANGED vars
  BY <1>8, <1>2 DEF vars
<1>9. CASE AllDone
  BY <1>9, <1>2 DEF AllDone, vars
<1>10. ASSUME NEW r \in Req, Environment(r)
       PROVE  NoLostWakeup'
  <2>1. CASE AppEnds(r) \/ ErrorBodySent(r)
    BY <2>1, <1>3 DEF AppEnds, ErrorBodySent
  <2>2. CASE CancelTask(r)
    BY <2>2, <1>5 DEF CancelTask, Cause
  <2>3. CASE AdmitAtOnce(r) \/ AdmitQueued(r)
    BY <2>3, <1>6, <1>7
  <2>4. CASE \/ Bypass(r) \/ RefuseHeader(r) \/ RefuseFull(r)
             \/ \E n \in 0 .. MaxBody, more \in BOOLEAN : ReadChunk(r, n, more)
             \/ \E n \in 1 .. MaxBody + 1 : ReadTooLarge(r, n)
             \/ ReadDisconnect(r) \/ AppTakesBody(r) \/ AppStartsResponse(r)
             \/ AppSends(r) \/ SendDone(r) \/ AppCatchesSendIdle(r) \/ ErrorHeaderSent(r)
    <3>1. UNCHANGED <<fut, value>>
      BY <2>4 DEF Bypass, RefuseHeader, RefuseFull, ReadChunk, ReadTooLarge, ReadDisconnect,
                  AppTakesBody, AppStartsResponse, AppSends, SendDone, AppCatchesSendIdle,
                  ErrorHeaderSent, lock
    <3>2. QED
      BY <3>1, <1>2
  <2>5. QED
    BY <1>10, <2>1, <2>2, <2>3, <2>4 DEF Environment
<1>11. ASSUME NEW r \in Req, Timers(r)
       PROVE  NoLostWakeup'
  BY <1>11, <1>5 DEF Timers, Expire, Cause
<1>12. ASSUME NEW r \in Req, Resume(r)
       PROVE  NoLostWakeup'
  <2>1. CASE ResumeAcquired(r)
    BY <2>1, <1>1, <1>4 DEF ResumeAcquired, AcquireReturns
  <2>2. CASE ResumeQueueTimeout(r) \/ ResumeCancelledQueued(r)
    <3>1. \E v \in Nat : Wake([fut EXCEPT ![r] = "none"], v, v)
      BY <2>2, <1>1 DEF ResumeQueueTimeout, ResumeCancelledQueued, LeaveQueue, AcquireCancelled
    <3>2. QED
      BY <3>1, <1>4
  <2>3. CASE ResumeCancelledActive(r) \/ ResumeSendIdle(r) \/ ErrorAborted(r)
    BY <2>3, <1>3 DEF ResumeCancelledActive, ResumeSendIdle, ErrorAborted
  <2>4. CASE ResumeWallTimeout(r) \/ ResumeBodyIdle(r)
    <3>1. Finally(r) \/ UNCHANGED <<fut, value>>
      BY <2>4 DEF ResumeWallTimeout, ResumeBodyIdle, TimedOut, lock
    <3>2. QED
      BY <3>1, <1>2, <1>3
  <2>5. QED
    BY <1>12, <2>1, <2>2, <2>3, <2>4 DEF Resume
<1>13. QED
  BY <1>8, <1>9, <1>10, <1>11, <1>12 DEF Next

\* A free unit never lies idle before a waiter for which nobody is on the way.
THEOREM NoWakeupIsLost == Spec => []NoLostWakeup
<1>1. Init => NoLostWakeup
  BY DEF Init, NoLostWakeup, InFut
<1>2. QED
  BY <1>1, SlotInvariant, NoLostWakeupStep, PTL DEF Spec

-----------------------------------------------------------------------------
\* Where a request stands tells how often its response was begun, and by whom.
StartsInv ==
  \A r \in Req :
    /\ phase[r] \notin {"serving", "sending"} => started[r] = FALSE
    /\ phase[r] \notin {"serving", "sending"} \cup Error => starts[r] = 0
    /\ phase[r] \in Error => starts[r] = 1
    /\ phase[r] \in {"serving", "sending"} => starts[r] = IF started[r] THEN 1 ELSE 0

LEMMA StartsInvStep == TypeOK /\ TypeOK' /\ StartsInv /\ [Next]_vars => StartsInv'
<1> SUFFICES ASSUME TypeOK, TypeOK', StartsInv, [Next]_vars
             PROVE  StartsInv'
  OBVIOUS
<1> USE DEF StartsInv, TypeOK, Active, Error
<1>1. ASSUME NEW r \in Req, Finally(r)
      PROVE  StartsInv'
  BY <1>1 DEF Finally
<1>2. ASSUME NEW r \in Req, BeginError(r), UNCHANGED started, ~started[r],
             phase[r] \in {"new", "queued", "reading", "serving", "sending"}
      PROVE  StartsInv'
  <2>1. starts[r] = 0
    BY <1>2
  <2>2. QED
    BY <1>2, <2>1 DEF BeginError
<1>3. CASE UNCHANGED vars \/ AllDone
  BY <1>3 DEF vars, AllDone
<1>4. ASSUME NEW r \in Req, Environment(r)
      PROVE  StartsInv'
  <2>1. CASE AppEnds(r) \/ ErrorBodySent(r)
    BY <2>1, <1>1 DEF AppEnds, ErrorBodySent
  <2>2. CASE RefuseHeader(r) \/ RefuseFull(r)
    BY <2>2, <1>2 DEF RefuseHeader, RefuseFull
  <2>3. CASE \E n \in 1 .. MaxBody + 1 : ReadTooLarge(r, n)
    BY <2>3, <1>2 DEF ReadTooLarge, Running
  <2>4. CASE AppStartsResponse(r)
    BY <2>4 DEF AppStartsResponse, Running
  <2>5. CASE \E n \in 0 .. MaxBody, more \in BOOLEAN : ReadChunk(r, n, more)
    BY <2>5 DEF ReadChunk, Running
  <2>6. CASE Bypass(r) \/ AdmitAtOnce(r) \/ AdmitQueued(r) \/ ReadDisconnect(r)
    BY <2>6 DEF Bypass, AdmitAtOnce, AdmitQueued, ReadDisconnect, Running
  <2>7. CASE CancelTask(r) \/ AppTakesBody(r)
    BY <2>7 DEF CancelTask, TaskCancel, AppTakesBody
  <2>8. CASE AppSends(r) \/ SendDone(r) \/ AppCatchesSendIdle(r) \/ ErrorHeaderSent(r)
    BY <2>8 DEF AppSends, SendDone, AppCatchesSendIdle, ErrorHeaderSent, Running
  <2>9. QED
    BY <1>4, <2>1, <2>2, <2>3, <2>4, <2>5, <2>6, <2>7, <2>8 DEF Environment
<1>5. ASSUME NEW r \in Req, Timers(r)
      PROVE  StartsInv'
  BY <1>5 DEF Timers, Expire, TaskCancel
<1>6. ASSUME NEW r \in Req, Resume(r)
      PROVE  StartsInv'
  <2>1. CASE ResumeAcquired(r)
    BY <2>1 DEF ResumeAcquired
  <2>2. CASE ResumeQueueTimeout(r)
    BY <2>2, <1>2 DEF ResumeQueueTimeout, LeaveQueue
  <2>3. CASE ResumeCancelledQueued(r)
    BY <2>3 DEF ResumeCancelledQueued, LeaveQueue
  <2>4. CASE ResumeCancelledActive(r) \/ ResumeSendIdle(r) \/ ErrorAborted(r)
    BY <2>4, <1>1 DEF ResumeCancelledActive, ResumeSendIdle, ErrorAborted
  <2>5. CASE ResumeWallTimeout(r) \/ ResumeBodyIdle(r)
    BY <2>5, <1>1, <1>2 DEF ResumeWallTimeout, ResumeBodyIdle, TimedOut
  <2>6. QED
    BY <1>6, <2>1, <2>2, <2>3, <2>4, <2>5 DEF Resume
<1>7. QED
  BY <1>3, <1>4, <1>5, <1>6 DEF Next

\* No response is begun twice: neither after the application began one, nor by
\* two errors for one call.
THEOREM ResponseStartsOnce == Spec => []OneResponseStart
<1>1. Init => StartsInv
  BY DEF Init, StartsInv, Error
<1>2. Spec => []StartsInv
  BY <1>1, TypeCorrect, StartsInvStep, PTL DEF Spec
<1>3. StartsInv /\ TypeOK => OneResponseStart
  BY DEF StartsInv, TypeOK, OneResponseStart, Error
<1>4. QED
  BY <1>2, <1>3, TypeCorrect, PTL

-----------------------------------------------------------------------------
\* Only a request with a slot has a body in the middleware, and a bounded one.
BodyInv == \A r \in Req : held[r] <= MaxBody /\ (held[r] > 0 => slot[r] = "held")

LEMMA BodyInvStep == SlotInv /\ SlotInv' /\ BodyInv /\ [Next]_vars => BodyInv'
<1> SUFFICES ASSUME SlotInv, SlotInv', BodyInv, [Next]_vars
             PROVE  BodyInv'
  OBVIOUS
<1> USE BodyAssumption DEF BodyInv, TypeOK, SlotInv
<1>1. ASSUME NEW r \in Req, Finally(r)
      PROVE  BodyInv'
  <2>1. held' = [held EXCEPT ![r] = 0] /\ \A q \in Req \ {r} : slot'[q] = slot[q]
    BY <1>1 DEF Finally, GiveBack
  <2>2. QED
    BY <2>1
<1>2. ASSUME UNCHANGED held, \A q \in Req : slot[q] = "held" => slot'[q] = "held"
      PROVE  BodyInv'
  BY <1>2
<1>3. CASE UNCHANGED vars \/ AllDone
  BY <1>3, <1>2 DEF vars, AllDone
<1>4. ASSUME NEW r \in Req, Environment(r)
      PROVE  BodyInv'
  <2>1. CASE AppEnds(r) \/ ErrorBodySent(r)
    BY <2>1, <1>1 DEF AppEnds, ErrorBodySent
  <2>2. CASE \E n \in 0 .. MaxBody, more \in BOOLEAN : ReadChunk(r, n, more)
    <3>1. slot[r] = "held"
      BY <2>2 DEF ReadChunk, Running, Coupled, Active
    <3>2. QED
      BY <2>2, <3>1 DEF ReadChunk
  <2>3. CASE AppTakesBody(r)
    BY <2>3 DEF AppTakesBody
  <2>4. CASE \/ AdmitAtOnce(r) \/ AdmitQueued(r) \/ Bypass(r) \/ RefuseHeader(r)
             \/ RefuseFull(r) \/ CancelTask(r)
    BY <2>4, <1>2 DEF AdmitAtOnce, AdmitQueued, Bypass, RefuseHeader, RefuseFull, CancelTask,
                      TaskCancel
  <2>5. CASE \/ \E n \in 1 .. MaxBody + 1 : ReadTooLarge(r, n)
             \/ ReadDisconnect(r) \/ AppStartsResponse(r) \/ AppSends(r) \/ SendDone(r)
             \/ AppCatchesSendIdle(r) \/ ErrorHeaderSent(r)
    BY <2>5, <1>2 DEF ReadTooLarge, ReadDisconnect, AppStartsResponse, AppSends, SendDone,
                      AppCatchesSendIdle, ErrorHeaderSent
  <2>6. QED
    BY <1>4, <2>1, <2>2, <2>3, <2>4, <2>5 DEF Environment
<1>5. ASSUME NEW r \in Req, Timers(r)
      PROVE  BodyInv'
  BY <1>5, <1>2 DEF Timers, Expire, TaskCancel
<1>6. ASSUME NEW r \in Req, Resume(r)
      PROVE  BodyInv'
  <2>1. CASE ResumeAcquired(r)
    BY <2>1, <1>2 DEF ResumeAcquired
  <2>2. CASE ResumeQueueTimeout(r) \/ ResumeCancelledQueued(r)
    BY <2>2, <1>2 DEF ResumeQueueTimeout, ResumeCancelledQueued, LeaveQueue
  <2>3. CASE ResumeCancelledActive(r) \/ ResumeSendIdle(r) \/ ErrorAborted(r)
    BY <2>3, <1>1 DEF ResumeCancelledActive, ResumeSendIdle, ErrorAborted
  <2>4. CASE ResumeWallTimeout(r) \/ ResumeBodyIdle(r)
    BY <2>4, <1>1, <1>2 DEF ResumeWallTimeout, ResumeBodyIdle, TimedOut
  <2>5. QED
    BY <1>6, <2>1, <2>2, <2>3, <2>4 DEF Resume
<1>7. QED
  BY <1>3, <1>4, <1>5, <1>6 DEF Next

\* The middleware stores at most MAX_ACTIVE bodies of at most MAX_BODY_BYTES.
THEOREM BodyStorageIsBounded == Spec => []BodyStorageBounded
<1>1. Init => BodyInv
  BY BodyAssumption DEF Init, BodyInv
<1>2. Spec => []BodyInv
  BY <1>1, SlotInvariant, BodyInvStep, PTL DEF Spec
<1>3. SlotInv /\ BodyInv => BodyStorageBounded
  <2> SUFFICES ASSUME SlotInv, BodyInv
               PROVE  BodyStorageBounded
    OBVIOUS
  <2> DEFINE Stored == {r \in Req : held[r] > 0}
  <2>1. Stored \subseteq Holders
    BY DEF BodyInv, Holders
  <2>2. Cardinality(Stored) <= Cardinality(Holders)
    BY <2>1, RequestSetsFinite, FS_Subset DEF Holders
  <2>3. Cardinality(Holders) <= MaxActive
    BY DEF SlotInv, GaugesExact, AdmissionBounded
  <2>4. Cardinality(Stored) \in Nat /\ Cardinality(Holders) \in Nat
    BY RequestSetsFinite DEF Holders
  <2>5. Cardinality(Stored) <= MaxActive
    BY <2>2, <2>3, <2>4, ActiveAssumption
  <2>6. QED
    BY <2>5 DEF BodyInv, BodyStorageBounded
<1>4. QED
  BY <1>2, <1>3, SlotInvariant, PTL

-----------------------------------------------------------------------------
(* The middleware implements SlotQueue for every number of requests, slots   *)
(* and queue places: a bounded set of holders, served in the order in which  *)
(* they came.                                                               *)

\* The abstract state of Queue, under names of this module.
StageOf == [r \in Req |-> IF fut[r] = "pending" THEN "waiting"
                          ELSE IF fut[r] = "granted" \/ slot[r] = "held"
                               THEN "holding" ELSE "out"]
PlaceOf == [r \in Req |-> IF fut[r] = "pending" THEN ticket[r] ELSE 0]
HoldersOf == InFut(fut, "granted") \cup Holders

\* Tickets are drawn from the admission counter: a newcomer's is the highest.
TicketInv == \A r \in Req : fut[r] = "pending" => ticket[r] < admitted

LEMMA AbstractState ==
  SlotInv => /\ Queue!Waiting = InFut(fut, "pending")
             /\ Queue!Holding = HoldersOf
             /\ HoldersOf \subseteq Req
             /\ Cardinality(HoldersOf) = MaxActive - value
             /\ value \in Nat
<1> SUFFICES ASSUME SlotInv
             PROVE  /\ Queue!Waiting = InFut(fut, "pending")
                    /\ Queue!Holding = HoldersOf
                    /\ HoldersOf \subseteq Req
                    /\ Cardinality(HoldersOf) = MaxActive - value
                    /\ value \in Nat
  OBVIOUS
<1>1. /\ InFut(fut, "granted") \subseteq Req /\ Holders \subseteq Req
      /\ InFut(fut, "granted") \cap Holders = {}
  BY DEF SlotInv, Coupled, InFut, Holders, Active, Error
<1>2. Cardinality(InFut(fut, "granted") \cap Holders) = 0
  BY <1>1, FS_EmptySet
<1>3. /\ IsFiniteSet(InFut(fut, "granted")) /\ IsFiniteSet(Holders)
      /\ Cardinality(InFut(fut, "granted")) \in Nat /\ Cardinality(Holders) \in Nat
  BY <1>1, RequestSetsFinite
<1>4. Cardinality(HoldersOf) = Cardinality(InFut(fut, "granted")) + Cardinality(Holders)
                               - Cardinality(InFut(fut, "granted") \cap Holders)
  BY <1>3, FS_Union DEF HoldersOf
<1>5. Cardinality(HoldersOf) = MaxActive - value
  BY <1>2, <1>3, <1>4, ActiveAssumption DEF SlotInv, SlotsConserved, TypeOK
<1>6. /\ Queue!Waiting = InFut(fut, "pending")
      /\ Queue!Holding = HoldersOf
  BY DEF Queue!Waiting, Queue!Holding, HoldersOf, InFut, Holders, SlotInv, Coupled, TypeOK,
         Active, Error
<1>7. QED
  BY <1>1, <1>5, <1>6 DEF HoldersOf, SlotInv, TypeOK

HoldersCounted == Cardinality(HoldersOf) = MaxActive - value /\ value \in Nat

LEMMA HoldersNext ==
  SlotInv' => Cardinality(HoldersOf') = MaxActive - value' /\ value' \in Nat
<1>1. SlotInv => HoldersCounted
  BY AbstractState DEF HoldersCounted
<1>2. SlotInv' => HoldersCounted'
  BY <1>1, PTL
<1>3. QED
  BY <1>2 DEF HoldersCounted

\* The instance's own copy of Cardinality is the same operator.
LEMMA SameCardinality == \A S : Queue!Cardinality(S) = Cardinality(S)
  BY DEF Queue!Cardinality, Cardinality

\* A step of Wake in which at most one request r gives up what it had is a Turn.
LEMMA WakeIsTurn ==
  ASSUME SlotInv, SlotInv', NEW r \in Req,
         NEW f \in [Req -> FutState], NEW v, NEW limit, Wake(f, v, limit),
         f[r] = "none", fut[r] # "pending",
         \A q \in Req \ {r} : f[q] = fut[q] /\ slot'[q] = slot[q] /\ ticket'[q] = ticket[q],
         slot'[r] = "held" => r \in HoldersOf
  PROVE  Queue!Next
<1>1. PICK W \in SUBSET InFut(f, "pending") :
        /\ \A a \in W, b \in InFut(f, "pending") \ W : ticket[a] < ticket[b]
        /\ fut' = [q \in Req |-> IF q \in W THEN "granted" ELSE f[q]]
  BY DEF Wake
<1> DEFINE L == IF r \in HoldersOf /\ slot'[r] # "held" THEN {r} ELSE {}
<1>2. InFut(f, "pending") = InFut(fut, "pending") /\ r \notin W /\ W \subseteq Req
  BY <1>1 DEF InFut
<1>3. /\ Queue!Waiting = InFut(fut, "pending") /\ Queue!Holding = HoldersOf
  BY AbstractState
<1>4. L \subseteq HoldersOf /\ Cardinality(L) <= 1
  <2>1. Cardinality({r}) = 1 /\ Cardinality({}) = 0
    BY FS_Singleton, FS_EmptySet
  <2>2. QED
    BY <2>1
<1>5. fut'[r] = "none"
  BY <1>1, <1>2
<1>6. (HoldersOf \ L) \cup W = HoldersOf'
  <2>1. \A q \in Req \ {r} : q \in HoldersOf' <=> q \in HoldersOf \/ q \in W
    BY <1>1, <1>2 DEF HoldersOf, InFut, Holders
  <2>2. r \in HoldersOf' <=> slot'[r] = "held"
    BY <1>5 DEF HoldersOf, InFut, Holders
  <2>3. HoldersOf \subseteq Req /\ HoldersOf' \subseteq Req
    BY DEF HoldersOf, InFut, Holders
  <2>4. QED
    BY <2>1, <2>2, <2>3, <1>2
<1>7. Cardinality(HoldersOf') <= MaxActive
  <2>1. Cardinality(HoldersOf') = MaxActive - value' /\ value' \in Nat
    BY HoldersNext
  <2>2. \A n \in Nat : MaxActive - n <= MaxActive
    BY ActiveAssumption
  <2>3. QED
    BY <2>1, <2>2, Zenon
<1>8. StageOf' = [q \in Req |-> IF q \in L THEN "out"
                                ELSE IF q \in W THEN "holding" ELSE StageOf[q]]
  <2>1. \A q \in Req \ {r} : StageOf'[q] = IF q \in W THEN "holding" ELSE StageOf[q]
    BY <1>1, <1>2 DEF StageOf, InFut
  <2>2. StageOf'[r] = IF r \in L THEN "out" ELSE StageOf[r]
    BY <1>5 DEF StageOf, HoldersOf, InFut, Holders
  <2>3. QED
    BY <2>1, <2>2, <1>2 DEF StageOf
<1>9. PlaceOf' = [q \in Req |-> IF q \in W THEN 0 ELSE PlaceOf[q]]
  BY <1>1, <1>2, <1>5 DEF PlaceOf, InFut
<1>10. \A s \in W, w \in InFut(fut, "pending") \ W : PlaceOf[s] < PlaceOf[w]
  BY <1>1, <1>2 DEF PlaceOf, InFut
<1>11. Queue!Turn(L, W)
  BY <1>2, <1>3, <1>4, <1>6, <1>7, <1>8, <1>9, <1>10, SameCardinality
     DEF Queue!Turn, StageOf, PlaceOf
<1>12. L \in SUBSET Req /\ W \in SUBSET Req
  BY <1>2
<1>13. QED
  BY <1>11, <1>12 DEF Queue!Next

\* Queue!Next follows from a step of one caller's own.
LEMMA OneCaller ==
  ASSUME NEW r \in Req, Queue!Arrive(r) \/ Queue!Enter(r) \/ Queue!GiveUp(r)
  PROVE  Queue!Next
  BY DEF Queue!Next

LEMMA FinallyTurns ==
  ASSUME SlotInv, SlotInv', NEW r \in Req, phase[r] \in Active \cup Error, Finally(r)
  PROVE  Queue!Next \/ UNCHANGED <<StageOf, PlaceOf>>
<1>1. CASE Acquired(r)
  <2>1. /\ slot' = [slot EXCEPT ![r] = "released"] /\ Wake(fut, value + 1, 1)
        /\ ticket' = ticket
    BY <1>1 DEF Finally, GiveBack, ReleaseSlot
  <2>2. fut[r] = "none" /\ fut \in [Req -> FutState] /\ slot'[r] = "released"
    BY <2>1 DEF SlotInv, Coupled, TypeOK, FutState, Active, Error
  <2>3. \A q \in Req \ {r} : slot'[q] = slot[q] /\ ticket'[q] = ticket[q]
    BY <2>1 DEF SlotInv, TypeOK
  <2>4. QED
    BY <2>1, <2>2, <2>3, WakeIsTurn
<1>2. CASE ~Acquired(r)
  BY <1>2 DEF Finally, StageOf, PlaceOf
<1>3. QED
  BY <1>1, <1>2

LEMMA LeaveQueueTurns ==
  ASSUME SlotInv, SlotInv', NEW r \in Req, NEW c, LeaveQueue(r, c)
  PROVE  Queue!Next
<1> DEFINE f == [fut EXCEPT ![r] = "none"]
<1>1. PICK v \in Nat : Wake(f, v, v)
  BY DEF LeaveQueue, AcquireCancelled, SlotInv, TypeOK
<1>2. /\ f \in [Req -> FutState] /\ f[r] = "none"
      /\ fut[r] # "pending" /\ slot'[r] = "none"
      /\ \A q \in Req \ {r} : f[q] = fut[q] /\ slot'[q] = slot[q] /\ ticket'[q] = ticket[q]
  BY DEF LeaveQueue, SlotInv, TypeOK, Coupled, FutState, Active, Error
<1> HIDE DEF f
<1>3. QED
  BY <1>1, <1>2, WakeIsTurn

LEMMA ResumeAcquiredTurns ==
  ASSUME SlotInv, SlotInv', NEW r \in Req, ResumeAcquired(r)
  PROVE  Queue!Next
<1> DEFINE f == [fut EXCEPT ![r] = "none"]
<1>1. Wake(f, value, value)
  BY DEF ResumeAcquired, AcquireReturns
<1>2. /\ f \in [Req -> FutState] /\ f[r] = "none"
      /\ fut[r] # "pending" /\ r \in HoldersOf
      /\ \A q \in Req \ {r} : f[q] = fut[q] /\ slot'[q] = slot[q] /\ ticket'[q] = ticket[q]
  BY DEF ResumeAcquired, SlotInv, TypeOK, FutState, HoldersOf, InFut
<1> HIDE DEF f
<1>3. QED
  BY <1>1, <1>2, WakeIsTurn

\* A newcomer that must wait goes to the end of the line.
LEMMA AdmitQueuedArrives ==
  ASSUME SlotInv, TicketInv, NEW r \in Req, AdmitQueued(r)
  PROVE  Queue!Next
<1>1. phase[r] = "new" /\ fut[r] = "none" /\ slot[r] # "held"
  BY DEF AdmitQueued, SlotInv, Coupled, Active, Error
<1>2. /\ fut' = [fut EXCEPT ![r] = "pending"] /\ slot' = slot
      /\ ticket' = [ticket EXCEPT ![r] = admitted] /\ admitted \in Nat
  BY DEF AdmitQueued, SlotInv, TypeOK
<1>3. /\ StageOf[r] = "out"
      /\ StageOf' = [StageOf EXCEPT ![r] = "waiting"]
      /\ PlaceOf' = [PlaceOf EXCEPT ![r] = admitted]
  BY <1>1, <1>2 DEF StageOf, PlaceOf, SlotInv, TypeOK
<1>4. PlaceOf'[r] = admitted /\ r \in Req
  BY <1>3 DEF PlaceOf
<1>5. \A w \in Queue!Waiting : PlaceOf[w] < admitted
  BY AbstractState DEF TicketInv, PlaceOf, InFut
<1>6. Queue!Arrive(r)
  BY <1>2, <1>3, <1>4, <1>5 DEF Queue!Arrive, StageOf, PlaceOf
<1>7. QED
  BY <1>6, OneCaller

\* A newcomer may take a slot at once only when nobody waits.
LEMMA AdmitAtOnceEnters ==
  ASSUME SlotInv, NEW r \in Req, AdmitAtOnce(r)
  PROVE  Queue!Next
<1>1. phase[r] = "new" /\ fut[r] = "none" /\ slot[r] # "held"
  BY DEF AdmitAtOnce, SlotInv, Coupled, Active, Error
<1>2. /\ slot' = [slot EXCEPT ![r] = "held"] /\ UNCHANGED <<fut, ticket>>
      /\ value # 0 /\ InFut(fut, "pending") = {}
  BY DEF AdmitAtOnce, Locked
<1>3. /\ StageOf[r] = "out"
      /\ StageOf' = [StageOf EXCEPT ![r] = "holding"]
      /\ PlaceOf' = PlaceOf
  BY <1>1, <1>2 DEF StageOf, PlaceOf, SlotInv, TypeOK
<1>4. Queue!Waiting = {} /\ Cardinality(Queue!Holding) < MaxActive
  <2>1. Cardinality(Queue!Holding) = MaxActive - value /\ value \in Nat
    BY AbstractState
  <2>2. \A n \in Nat : n # 0 => MaxActive - n < MaxActive
    BY ActiveAssumption
  <2>3. Cardinality(Queue!Holding) < MaxActive
    BY <2>1, <2>2, <1>2, Zenon
  <2>4. QED
    BY <2>3, <1>2, AbstractState
<1>5. Queue!Enter(r)
  BY <1>3, <1>4, SameCardinality DEF Queue!Enter, StageOf, PlaceOf
<1>6. QED
  BY <1>5, OneCaller

\* A cancelled waiter has given up; one already handed a slot keeps it for now.
LEMMA TaskCancelGivesUp ==
  ASSUME SlotInv, NEW r \in Req, NEW cause, TaskCancel(r, cause)
  PROVE  Queue!Next \/ UNCHANGED <<StageOf, PlaceOf>>
<1>1. CASE fut[r] = "pending"
  <2>1. slot[r] # "held"
    BY <1>1 DEF SlotInv, Coupled, Active, Error
  <2>2. fut' = [fut EXCEPT ![r] = "cancelled"] /\ UNCHANGED <<slot, ticket>>
    BY <1>1 DEF TaskCancel
  <2>3. /\ StageOf[r] = "waiting"
        /\ StageOf' = [StageOf EXCEPT ![r] = "out"]
        /\ PlaceOf' = [PlaceOf EXCEPT ![r] = 0]
    BY <1>1, <2>1, <2>2 DEF StageOf, PlaceOf, SlotInv, TypeOK
  <2>4. Queue!GiveUp(r)
    BY <2>3 DEF Queue!GiveUp, StageOf, PlaceOf
  <2>5. QED
    BY <2>4, OneCaller
<1>2. CASE fut[r] # "pending"
  BY <1>2 DEF TaskCancel, StageOf, PlaceOf
<1>3. QED
  BY <1>1, <1>2

LEMMA QueueStep ==
  SlotInv /\ SlotInv' /\ TicketInv /\ [Next]_vars => [Queue!Next]_(Queue!vars)
<1> SUFFICES ASSUME SlotInv, SlotInv', TicketInv, [Next]_vars
             PROVE  Queue!Next \/ UNCHANGED <<StageOf, PlaceOf>>
  BY DEF Queue!vars, StageOf, PlaceOf
<1>1. ASSUME UNCHANGED <<fut, slot, ticket>>
      PROVE  UNCHANGED <<StageOf, PlaceOf>>
  BY <1>1 DEF StageOf, PlaceOf
<1>2. CASE UNCHANGED vars \/ AllDone
  BY <1>2, <1>1 DEF vars, AllDone
<1>3. ASSUME NEW r \in Req, Environment(r)
      PROVE  Queue!Next \/ UNCHANGED <<StageOf, PlaceOf>>
  <2>1. CASE AppEnds(r) \/ ErrorBodySent(r)
    BY <2>1, FinallyTurns DEF AppEnds, ErrorBodySent, Running, Active, Error
  <2>2. CASE CancelTask(r)
    BY <2>2, TaskCancelGivesUp DEF CancelTask
  <2>3. CASE AdmitAtOnce(r) \/ AdmitQueued(r)
    BY <2>3, AdmitAtOnceEnters, AdmitQueuedArrives
  <2>4. CASE \/ Bypass(r) \/ RefuseHeader(r) \/ RefuseFull(r)
             \/ \E n \in 0 .. MaxBody, more \in BOOLEAN : ReadChunk(r, n, more)
             \/ \E n \in 1 .. MaxBody + 1 : ReadTooLarge(r, n)
             \/ ReadDisconnect(r) \/ AppTakesBody(r) \/ AppStartsResponse(r)
             \/ AppSends(r) \/ SendDone(r) \/ AppCatchesSendIdle(r) \/ ErrorHeaderSent(r)
    <3>1. UNCHANGED <<fut, slot, ticket>>
      BY <2>4 DEF Bypass, RefuseHeader, RefuseFull, ReadChunk, ReadTooLarge, ReadDisconnect,
                  AppTakesBody, AppStartsResponse, AppSends, SendDone, AppCatchesSendIdle,
                  ErrorHeaderSent, lock
    <3>2. QED
      BY <3>1, <1>1
  <2>5. QED
    BY <1>3, <2>1, <2>2, <2>3, <2>4 DEF Environment
<1>4. ASSUME NEW r \in Req, Timers(r)
      PROVE  Queue!Next \/ UNCHANGED <<StageOf, PlaceOf>>
  BY <1>4, TaskCancelGivesUp DEF Timers, Expire
<1>5. ASSUME NEW r \in Req, Resume(r)
      PROVE  Queue!Next \/ UNCHANGED <<StageOf, PlaceOf>>
  <2>1. CASE ResumeAcquired(r)
    BY <2>1, ResumeAcquiredTurns
  <2>2. CASE ResumeQueueTimeout(r) \/ ResumeCancelledQueued(r)
    BY <2>2, LeaveQueueTurns DEF ResumeQueueTimeout, ResumeCancelledQueued
  <2>3. CASE ResumeCancelledActive(r) \/ ResumeSendIdle(r) \/ ErrorAborted(r)
    BY <2>3, FinallyTurns DEF ResumeCancelledActive, ResumeSendIdle, ErrorAborted, Active, Error
  <2>4. CASE ResumeWallTimeout(r) \/ ResumeBodyIdle(r)
    <3>1. Finally(r) \/ UNCHANGED <<fut, slot, ticket>>
      BY <2>4 DEF ResumeWallTimeout, ResumeBodyIdle, TimedOut, lock
    <3>2. phase[r] \in Active \cup Error
      BY <2>4 DEF ResumeWallTimeout, ResumeBodyIdle, Active
    <3>3. QED
      BY <3>1, <3>2, <1>1, FinallyTurns
  <2>5. QED
    BY <1>5, <2>1, <2>2, <2>3, <2>4 DEF Resume
<1>6. QED
  BY <1>2, <1>3, <1>4, <1>5 DEF Next

-----------------------------------------------------------------------------
LEMMA TicketInvStep == SlotInv /\ TicketInv /\ [Next]_vars => TicketInv'
<1> SUFFICES ASSUME SlotInv, TicketInv, [Next]_vars
             PROVE  TicketInv'
  OBVIOUS
<1> USE DEF SlotInv, TypeOK
\* Most steps leave no new waiter and draw no ticket.
<1>1. ASSUME \A q \in Req : fut'[q] = "pending" => fut[q] = "pending" /\ ticket'[q] = ticket[q],
             admitted' = admitted \/ admitted' = admitted + 1
      PROVE  TicketInv'
  BY <1>1 DEF TicketInv
<1>2. ASSUME NEW r \in Req, Finally(r)
      PROVE  TicketInv'
  <2>1. \A q \in Req : fut'[q] = "pending" => fut[q] = "pending"
    BY <1>2 DEF Finally, GiveBack, ReleaseSlot, Wake
  <2>2. ticket' = ticket /\ admitted' = admitted
    BY <1>2 DEF Finally
  <2>3. QED
    BY <2>1, <2>2, <1>1
<1>3. ASSUME NEW r \in Req, NEW v, Wake([fut EXCEPT ![r] = "none"], v, v),
             ticket' = [ticket EXCEPT ![r] = 0], admitted' = admitted
      PROVE  TicketInv'
  <2>1. \A q \in Req : fut'[q] = "pending" => fut[q] = "pending" /\ q # r
    BY <1>3 DEF Wake
  <2>2. QED
    BY <2>1, <1>3, <1>1
<1>4. ASSUME NEW r \in Req, NEW cause, TaskCancel(r, cause)
      PROVE  TicketInv'
  BY <1>4, <1>1 DEF TaskCancel, counters
<1>5. CASE UNCHANGED vars \/ AllDone
  BY <1>5, <1>1 DEF vars, AllDone
<1>6. ASSUME NEW r \in Req, Environment(r)
      PROVE  TicketInv'
  <2>1. CASE AppEnds(r) \/ ErrorBodySent(r)
    BY <2>1, <1>2 DEF AppEnds, ErrorBodySent
  <2>2. CASE CancelTask(r)
    BY <2>2, <1>4 DEF CancelTask
  <2>3. CASE AdmitQueued(r)
    BY <2>3 DEF AdmitQueued, TicketInv
  <2>4. CASE AdmitAtOnce(r)
    BY <2>4, <1>1 DEF AdmitAtOnce
  <2>5. CASE \/ Bypass(r) \/ RefuseHeader(r) \/ RefuseFull(r)
             \/ \E n \in 0 .. MaxBody, more \in BOOLEAN : ReadChunk(r, n, more)
             \/ \E n \in 1 .. MaxBody + 1 : ReadTooLarge(r, n)
             \/ ReadDisconnect(r) \/ AppTakesBody(r) \/ AppStartsResponse(r)
             \/ AppSends(r) \/ SendDone(r) \/ AppCatchesSendIdle(r) \/ ErrorHeaderSent(r)
    <3>1. UNCHANGED <<fut, ticket, admitted>>
      BY <2>5 DEF Bypass, RefuseHeader, RefuseFull, ReadChunk, ReadTooLarge, ReadDisconnect,
                  AppTakesBody, AppStartsResponse, AppSends, SendDone, AppCatchesSendIdle,
                  ErrorHeaderSent, lock, counters
    <3>2. QED
      BY <3>1, <1>1
  <2>6. QED
    BY <1>6, <2>1, <2>2, <2>3, <2>4, <2>5 DEF Environment
<1>7. ASSUME NEW r \in Req, Timers(r)
      PROVE  TicketInv'
  BY <1>7, <1>4 DEF Timers, Expire
<1>8. ASSUME NEW r \in Req, Resume(r)
      PROVE  TicketInv'
  <2>1. CASE ResumeAcquired(r)
    BY <2>1, <1>3 DEF ResumeAcquired, AcquireReturns
  <2>2. CASE ResumeQueueTimeout(r) \/ ResumeCancelledQueued(r)
    BY <2>2, <1>3 DEF ResumeQueueTimeout, ResumeCancelledQueued, LeaveQueue, AcquireCancelled
  <2>3. CASE ResumeCancelledActive(r) \/ ResumeSendIdle(r) \/ ErrorAborted(r)
    BY <2>3, <1>2 DEF ResumeCancelledActive, ResumeSendIdle, ErrorAborted
  <2>4. CASE ResumeWallTimeout(r) \/ ResumeBodyIdle(r)
    <3>1. Finally(r) \/ UNCHANGED <<fut, ticket, admitted>>
      BY <2>4 DEF ResumeWallTimeout, ResumeBodyIdle, TimedOut, lock, counters
    <3>2. QED
      BY <3>1, <1>1, <1>2
  <2>5. QED
    BY <1>8, <2>1, <2>2, <2>3, <2>4 DEF Resume
<1>9. QED
  BY <1>5, <1>6, <1>7, <1>8 DEF Next

\* The middleware serves a bounded number of requests in arrival order, whatever
\* timers and cancellations do to the requests that wait.
THEOREM AdmissionImplementsSlotQueue == Spec => ImplementsSlotQueue
<1>1. Init => Queue!Init /\ TicketInv
  BY DEF Init, Queue!Init, TicketInv
<1>2. Spec => []TicketInv
  BY <1>1, SlotInvariant, TicketInvStep, PTL DEF Spec
<1>3. QED
  BY <1>1, <1>2, SlotInvariant, QueueStep, PTL DEF Spec, ImplementsSlotQueue, Queue!Spec

-----------------------------------------------------------------------------
(* What the implementation of SlotQueue says of two requests that wait.       *)

\* Of two futures in the semaphore's line the later one is never resolved in a
\* step that leaves the earlier one waiting (Semaphore.release and _wake_up_next,
\* with every cancellation and timeout of admission in between).
FirstComeFirst ==
  [][\A a, b \in Req :
       fut[a] = "pending" /\ fut[b] = "pending" /\ ticket[a] < ticket[b] /\ fut'[b] = "granted"
         => fut'[a] # "pending"]_vars

LEMMA QueueOrder ==
  ASSUME SlotInv, SlotInv', Queue!Next,
         NEW a \in Req, NEW b \in Req, fut[a] = "pending", fut[b] = "pending",
         ticket[a] < ticket[b], fut'[b] = "granted"
  PROVE  fut'[a] # "pending"
<1> DEFINE st == StageOf  pl == PlaceOf
<1>1. /\ st[a] = "waiting" /\ st[b] = "waiting" /\ st'[b] = "holding"
      /\ fut'[a] = "pending" => st'[a] = "waiting"
      /\ pl[a] = ticket[a] /\ pl[b] = ticket[b] /\ ticket[a] \in Nat /\ ticket[b] \in Nat
  BY DEF StageOf, PlaceOf, SlotInv, TypeOK
<1>2. /\ Queue!Waiting = {c \in Req : st[c] = "waiting"}
      /\ Queue!Holding = {c \in Req : st[c] = "holding"}
  BY DEF Queue!Waiting, Queue!Holding, StageOf
<1>3. st \in [Req -> {"out", "waiting", "holding"}]
  BY DEF StageOf
<1>4. ASSUME NEW c \in Req, Queue!Arrive(c) \/ Queue!Enter(c) \/ Queue!GiveUp(c)
      PROVE  FALSE
  <2>1. \/ st' = [st EXCEPT ![c] = "waiting"]
        \/ st[c] = "out" /\ st' = [st EXCEPT ![c] = "holding"]
        \/ st' = [st EXCEPT ![c] = "out"]
    BY <1>4 DEF Queue!Arrive, Queue!Enter, Queue!GiveUp, StageOf
  <2> HIDE DEF st
  <2> QED
    BY <1>1, <1>3, <2>1
<1>5. ASSUME NEW leaving, NEW served, Queue!Turn(leaving, served)
      PROVE  fut'[a] # "pending"
  <2>1. /\ leaving \subseteq Queue!Holding /\ served \subseteq Queue!Waiting
        /\ \A s \in served, w \in Queue!Waiting \ served : pl[s] < pl[w]
        /\ st' = [c \in Req |-> IF c \in leaving THEN "out"
                                ELSE IF c \in served THEN "holding" ELSE st[c]]
    BY <1>5 DEF Queue!Turn, StageOf, PlaceOf
  <2> HIDE DEF st, pl
  <2>2. b \in served /\ a \notin leaving
    BY <1>1, <1>2, <2>1
  <2>3. ~(pl[b] < pl[a])
    BY <1>1
  <2>4. a \in served
    BY <1>1, <1>2, <2>1, <2>2, <2>3
  <2>5. st'[a] = "holding"
    BY <2>1, <2>2, <2>4
  <2> QED
    BY <1>1, <2>5
<1> QED
  BY <1>4, <1>5 DEF Queue!Next

\* Slots are handed out in arrival order.
THEOREM FirstComesFirst == Spec => FirstComeFirst
<1>1. SlotInv /\ SlotInv' /\ TicketInv /\ [Next]_vars
        => [\A a, b \in Req :
              fut[a] = "pending" /\ fut[b] = "pending" /\ ticket[a] < ticket[b]
                /\ fut'[b] = "granted" => fut'[a] # "pending"]_vars
  <2> SUFFICES ASSUME SlotInv, SlotInv', TicketInv, [Next]_vars, NEW a \in Req, NEW b \in Req,
                      fut[a] = "pending", fut[b] = "pending", ticket[a] < ticket[b],
                      fut'[b] = "granted"
               PROVE  fut'[a] # "pending"
    OBVIOUS
  <2>1. Queue!Next \/ UNCHANGED Queue!vars
    BY QueueStep
  <2>2. CASE UNCHANGED Queue!vars
    <3>1. StageOf' = StageOf
      BY <2>2 DEF Queue!vars, StageOf
    <3> QED
      BY <3>1 DEF StageOf
  <2> QED
    BY <2>1, <2>2, QueueOrder
<1>2. Spec => []TicketInv
  <2>1. Init => TicketInv
    BY DEF Init, TicketInv
  <2> QED
    BY <2>1, SlotInvariant, TicketInvStep, PTL DEF Spec
<1> QED
  BY <1>1, <1>2, SlotInvariant, PTL DEF Spec, FirstComeFirst
=============================================================================
