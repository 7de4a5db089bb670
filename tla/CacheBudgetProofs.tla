-------------------------- MODULE CacheBudgetProofs --------------------------
(***************************************************************************)
(* Proofs about CacheBudget for every number of reservations, peaks,        *)
(* addresses and restore threads, whether or not threads may fail to start. *)
(***************************************************************************)
EXTENDS CacheBudget, FiniteSetTheorems, TLAPS

\* The snapshots the saver has still to return the budget of.
Snaps == (Queued \cup {saving}) \ {None}

\* Two entries of a queue never share an address or a ticket.
Distinct(q) ==
  \A i, j \in 1..Len(q) :
    i # j /\ q[i] # None /\ q[j] # None => q[i].id # q[j].id /\ q[i].spool # q[j].spool

ProducerInv ==
  /\ cur # NoRes => cur \in produced \ queued
  /\ prod = "capture" <=> cur # NoRes
  /\ produced \subseteq charged /\ queued \subseteq charged
  /\ prod \in {"reserve", "capture", "start", "enqueue"} => plans > 0
  /\ prod = "idle" => produced = {} /\ queued = {}
  /\ prod \in {"idle", "leave"} => local = None
  /\ local # None => local.spool \in produced
  /\ prod \in {"start", "enqueue"} =>
       /\ local # None /\ local.spool \notin queued
       /\ tickets[local.id] = local.spool
       /\ \A s \in Snaps : s.id # local.id

SaverInv ==
  /\ saver \in {"committing", "committed"} <=> saving # None
  /\ \A s \in Snaps :
       /\ s.spool \in charged
       /\ tickets[s.id] \in {s.spool, NoRes}
       /\ s.spool \in produced => s.spool \in queued
  /\ Distinct(queue)
  /\ saving # None => \A s \in Queued : s.id # saving.id /\ s.spool # saving.spool

LoaderInv ==
  /\ stuck \subseteq charged
  /\ stuck \cap (produced \cup queued) = {}
  /\ \A s \in Snaps : s.spool \notin stuck
  /\ \A l \in Loader :
       /\ loan[l] = NoRes <=> load[l] = "idle"
       /\ loan[l] # NoRes => /\ loan[l] \in charged
                             /\ loan[l] \notin stuck \cup produced \cup queued
                             /\ \A s \in Snaps : s.spool # loan[l]
                             /\ \A m \in Loader \ {l} : loan[m] # loan[l]

\* The counter, with the finiteness its arithmetic needs.
CounterInv == ReservedExact /\ IsFiniteSet(Units(charged))

Owners == ProducerInv /\ SaverInv /\ LoaderInv

BudgetInv == TypeOK /\ CounterInv /\ Owners

LEMMA NoneIsNoSnapshot == None \notin Snapshot
  BY ResAssumption DEF None, Snapshot

-----------------------------------------------------------------------------

\* The units of one reservation, and of a set with one added or removed.
LEMMA UnitsOfOne ==
  ASSUME NEW r \in Res
  PROVE  /\ IsFiniteSet({r} \X (1..Peak[r]))
         /\ Cardinality({r} \X (1..Peak[r])) = Peak[r]
<1>1. Peak[r] \in Nat \ {0}
  BY PeakAssumption
<1>2. IsFiniteSet(1..Peak[r]) /\ Cardinality(1..Peak[r]) = Peak[r]
  <2>1. \A n \in Nat : IsFiniteSet(1..n) /\ Cardinality(1..n) = n
    BY FS_Interval
  <2> QED
    BY <1>1, <2>1
<1>3. IsFiniteSet({r}) /\ Cardinality({r}) = 1
  BY FS_Singleton
<1>4. /\ IsFiniteSet({r} \X (1..Peak[r]))
      /\ Cardinality({r} \X (1..Peak[r])) = Cardinality({r}) * Cardinality(1..Peak[r])
  BY <1>2, <1>3, FS_Product, Zenon
<1>5. 1 * Peak[r] = Peak[r]
  BY <1>1
<1> QED
  BY <1>2, <1>3, <1>4, <1>5, Zenon

LEMMA UnitsAdd ==
  ASSUME NEW S, IsFiniteSet(Units(S)), NEW r \in Res, r \notin S
  PROVE  /\ IsFiniteSet(Units(S \cup {r}))
         /\ Cardinality(Units(S \cup {r})) = Cardinality(Units(S)) + Peak[r]
<1> DEFINE One == {r} \X (1..Peak[r])
<1>1. Units(S \cup {r}) = Units(S) \cup One
  BY DEF Units
<1>2. Units(S) \cap One = {}
  BY DEF Units
<1>3. Cardinality(Units(S) \cap One) = 0
  BY <1>2, FS_EmptySet
<1>4. IsFiniteSet(One) /\ Cardinality(One) = Peak[r]
  BY UnitsOfOne
<1>5. /\ IsFiniteSet(Units(S) \cup One)
      /\ Cardinality(Units(S) \cup One) =
           Cardinality(Units(S)) + Cardinality(One) - Cardinality(Units(S) \cap One)
  BY <1>4, FS_Union
<1>6. Cardinality(Units(S)) \in Nat /\ Peak[r] \in Nat
  BY FS_CardinalityType, PeakAssumption
<1>7. Cardinality(Units(S \cup {r})) = Cardinality(Units(S)) + Peak[r] - 0
  BY <1>1, <1>3, <1>4, <1>5, Zenon
<1>8. IsFiniteSet(Units(S \cup {r}))
  BY <1>1, <1>5, Zenon
<1> QED
  BY <1>6, <1>7, <1>8

LEMMA UnitsRemove ==
  ASSUME NEW S, IsFiniteSet(Units(S)), NEW r \in Res, r \in S
  PROVE  /\ IsFiniteSet(Units(S \ {r}))
         /\ Cardinality(Units(S)) = Cardinality(Units(S \ {r})) + Peak[r]
<1>1. Units(S \ {r}) \subseteq Units(S)
  BY DEF Units
<1>2. IsFiniteSet(Units(S \ {r}))
  BY <1>1, FS_Subset
<1>3. (S \ {r}) \cup {r} = S
  OBVIOUS
<1> QED
  BY <1>2, <1>3, UnitsAdd

\* try_reserve and _release keep the counter equal to what is charged.
LEMMA TryReserveCounts ==
  ASSUME TypeOK, CounterInv, NEW r \in Res, TryReserve(r)
  PROVE  CounterInv' /\ reserved' \in Nat /\ charged' \subseteq Res
<1>1. /\ IsFiniteSet(Units(charged \cup {r}))
      /\ Cardinality(Units(charged \cup {r})) = Cardinality(Units(charged)) + Peak[r]
  BY UnitsAdd DEF TryReserve, CounterInv
<1>2. PICK available \in Readings : Fits(r, available)
  BY DEF TryReserve
<1>3. reserved' = reserved + Peak[r] /\ charged' = charged \cup {r}
  BY DEF TryReserve
<1>4. Peak[r] \in Nat /\ MaxBytes \in Nat /\ reserved \in Nat
  BY PeakAssumption, LimitsAssumption DEF TypeOK
<1>5. IsFiniteSet(Units(charged'))
  BY <1>1, <1>3
<1>6. reserved' = Cardinality(Units(charged')) /\ reserved' <= MaxBytes
  BY <1>1, <1>2, <1>3, <1>4 DEF CounterInv, ReservedExact, Fits
<1>7. CounterInv'
  BY <1>5, <1>6 DEF CounterInv, ReservedExact, Units
<1> QED
  BY <1>3, <1>4, <1>7 DEF TypeOK

LEMMA ReleaseCounts ==
  ASSUME TypeOK, CounterInv, NEW r \in Res, Release(r)
  PROVE  CounterInv' /\ reserved' \in Nat /\ charged' \subseteq Res
<1>1. CASE r \notin charged
  <2>1. reserved' = reserved /\ charged' = charged
    BY <1>1 DEF Release
  <2> QED
    BY <2>1 DEF CounterInv, ReservedExact, Units, TypeOK
<1>2. CASE r \in charged
  <2>1. /\ IsFiniteSet(Units(charged \ {r}))
        /\ Cardinality(Units(charged)) = Cardinality(Units(charged \ {r})) + Peak[r]
    BY <1>2, UnitsRemove DEF CounterInv
  <2>2. reserved' = reserved - Peak[r] /\ charged' = charged \ {r}
    BY <1>2 DEF Release
  <2>3. Cardinality(Units(charged \ {r})) \in Nat /\ Peak[r] \in Nat /\ MaxBytes \in Nat
    BY <2>1, FS_CardinalityType, PeakAssumption, LimitsAssumption
  <2>4. IsFiniteSet(Units(charged'))
    BY <2>1, <2>2
  <2>5. reserved' = Cardinality(Units(charged')) /\ reserved' <= MaxBytes
    BY <2>1, <2>2, <2>3 DEF CounterInv, ReservedExact
  <2>6. CounterInv'
    BY <2>4, <2>5 DEF CounterInv, ReservedExact, Units
  <2> QED
    BY <2>2, <2>3, <2>5, <2>6 DEF TypeOK
<1> QED
  BY <1>1, <1>2

LEMMA SameBudgetCounts ==
  ASSUME CounterInv, UNCHANGED budget
  PROVE  CounterInv'
BY DEF CounterInv, ReservedExact, Units, budget

-----------------------------------------------------------------------------

\* What the queue holds after a put and after a get.
LEMMA PutEntry ==
  ASSUME TypeOK, NEW e \in Snapshot \cup {None}, queue' = Append(queue, e), Distinct(queue),
         e # None => \A s \in Queued : s.id # e.id /\ s.spool # e.spool
  PROVE  /\ queue' \in Seq(Snapshot \cup {None})
         /\ Queued' = Queued \cup ({e} \ {None})
         /\ Distinct(queue')
<1> DEFINE T == Snapshot \cup {None}
<1>1. queue \in Seq(T)
  BY DEF TypeOK
<1>2. queue' \in Seq(T)
  BY <1>1
<1>3. /\ Len(queue) \in Nat
      /\ Len(queue') = Len(queue) + 1
      /\ \A i \in 1..Len(queue) : queue'[i] = queue[i]
      /\ queue'[Len(queue) + 1] = e
  BY <1>1
<1>4. Queued' = Queued \cup ({e} \ {None})
  BY <1>3 DEF Queued
<1>5. ASSUME NEW i \in 1..Len(queue'), NEW j \in 1..Len(queue'),
             i # j, queue'[i] # None, queue'[j] # None
      PROVE  queue'[i].id # queue'[j].id /\ queue'[i].spool # queue'[j].spool
  <2>1. CASE i \in 1..Len(queue) /\ j \in 1..Len(queue)
    BY <1>3, <1>5, <2>1 DEF Distinct
  <2>2. CASE i = Len(queue) + 1
    <3>1. j \in 1..Len(queue) /\ queue'[j] = queue[j] /\ queue'[i] = e
      BY <1>3, <1>5, <2>2
    <3>2. queue[j] \in Queued /\ e # None
      BY <1>5, <3>1 DEF Queued
    <3> QED
      BY <3>1, <3>2
  <2>3. CASE j = Len(queue) + 1
    <3>1. i \in 1..Len(queue) /\ queue'[i] = queue[i] /\ queue'[j] = e
      BY <1>3, <1>5, <2>3
    <3>2. queue[i] \in Queued /\ e # None
      BY <1>5, <3>1 DEF Queued
    <3> QED
      BY <3>1, <3>2
  <2> QED
    BY <1>3, <2>1, <2>2, <2>3
<1> QED
  BY <1>2, <1>4, <1>5 DEF Distinct

LEMMA GetEntry ==
  ASSUME TypeOK, queue # <<>>, queue' = Tail(queue), Distinct(queue)
  PROVE  /\ queue' \in Seq(Snapshot \cup {None})
         /\ Head(queue) \in Snapshot \cup {None}
         /\ Queued = Queued' \cup ({Head(queue)} \ {None})
         /\ Distinct(queue')
         /\ Head(queue) # None =>
              \A s \in Queued' : s.id # Head(queue).id /\ s.spool # Head(queue).spool
<1> DEFINE T == Snapshot \cup {None}
<1>1. queue \in Seq(T)
  BY DEF TypeOK
<1>2. queue' \in Seq(T) /\ Head(queue) \in T
  BY <1>1
<1>3. /\ Len(queue) \in Nat \ {0}
      /\ Len(queue') = Len(queue) - 1
      /\ \A i \in 1..Len(queue') : queue'[i] = queue[i + 1]
      /\ queue[1] = Head(queue)
  BY <1>1
<1>4. \A i \in 1..Len(queue') : i + 1 \in 1..Len(queue) /\ i + 1 # 1
  BY <1>3
<1>5. \A i \in 1..Len(queue) : i = 1 \/ (i - 1 \in 1..Len(queue') /\ queue[i] = queue'[i - 1])
  BY <1>3
<1>6. Queued = Queued' \cup ({Head(queue)} \ {None})
  <2>1. ASSUME NEW s \in Queued PROVE s \in Queued' \cup ({Head(queue)} \ {None})
    <3>1. PICK i \in 1..Len(queue) : queue[i] = s /\ s # None
      BY DEF Queued
    <3>2. CASE i = 1
      BY <1>3, <3>1, <3>2
    <3>3. CASE i - 1 \in 1..Len(queue') /\ queue[i] = queue'[i - 1]
      BY <3>1, <3>3 DEF Queued
    <3> QED
      BY <1>5, <3>2, <3>3
  <2>2. ASSUME NEW s \in Queued' PROVE s \in Queued
    <3>1. PICK i \in 1..Len(queue') : queue'[i] = s /\ s # None
      BY DEF Queued
    <3> QED
      BY <1>3, <1>4, <3>1 DEF Queued
  <2>3. Head(queue) # None => Head(queue) \in Queued
    <3>1. 1 \in 1..Len(queue)
      BY <1>3
    <3> QED
      BY <1>3, <3>1 DEF Queued
  <2> QED
    BY <2>1, <2>2, <2>3
<1>7. ASSUME NEW i \in 1..Len(queue'), NEW j \in 1..Len(queue'),
             i # j, queue'[i] # None, queue'[j] # None
      PROVE  queue'[i].id # queue'[j].id /\ queue'[i].spool # queue'[j].spool
  <2>1. i + 1 # j + 1 /\ queue[i + 1] # None /\ queue[j + 1] # None
    BY <1>3, <1>7
  <2> QED
    BY <1>3, <1>4, <2>1 DEF Distinct
<1>8. ASSUME NEW s \in Queued', Head(queue) # None
      PROVE  s.id # Head(queue).id /\ s.spool # Head(queue).spool
  <2>1. PICK i \in 1..Len(queue') : s = queue'[i] /\ s # None
    BY DEF Queued
  <2>2. s = queue[i + 1] /\ i + 1 \in 1..Len(queue) /\ i + 1 # 1 /\ 1 \in 1..Len(queue)
    BY <1>3, <1>4, <2>1
  <2> QED
    BY <1>3, <1>8, <2>1, <2>2 DEF Distinct
<1> QED
  BY <1>2, <1>6, <1>7, <1>8 DEF Distinct

-----------------------------------------------------------------------------

\* Every step keeps the counter equal to what is charged.
LEMMA StepCounts == BudgetInv /\ [Next]_vars => CounterInv' /\ reserved' \in Nat /\ charged' \subseteq Res
<1> SUFFICES ASSUME BudgetInv, [Next]_vars PROVE CounterInv' /\ reserved' \in Nat /\ charged' \subseteq Res
  OBVIOUS
<1>a. TypeOK /\ CounterInv
  BY DEF BudgetInv
<1>b. reserved \in Nat /\ charged \subseteq Res
  BY <1>a DEF TypeOK
<1> USE <1>a, <1>b
<1>1. CASE BeginSave
  BY <1>1, SameBudgetCounts DEF BeginSave, budget, handoff, restores, control
<1>2. CASE Skip
  BY <1>2, SameBudgetCounts DEF Skip, budget, handoff, restores, control
<1>3. CASE Admit
  BY <1>3, SameBudgetCounts DEF Admit, budget, handoff, restores
<1>4. ASSUME NEW r \in Res, ReserveStore(r)
      PROVE  CounterInv' /\ reserved' \in Nat /\ charged' \subseteq Res
  BY <1>4, TryReserveCounts DEF ReserveStore
<1>5. ASSUME NEW r \in Res, RefuseStore(r)
      PROVE  CounterInv' /\ reserved' \in Nat /\ charged' \subseteq Res
  BY <1>5, SameBudgetCounts DEF RefuseStore, FailStore, budget, handoff, restores
<1>6. ASSUME NEW a \in Addr, Capture(a)
      PROVE  CounterInv' /\ reserved' \in Nat /\ charged' \subseteq Res
  BY <1>6, SameBudgetCounts DEF Capture, budget, handoff, restores, control
<1>7. CASE CaptureFails
  BY <1>7, SameBudgetCounts DEF CaptureFails, FailStore, budget, handoff, restores
<1>8. CASE EnsureSaver
  BY <1>8, SameBudgetCounts DEF EnsureSaver, budget, restores, control
<1>9. CASE NoSaver
  BY <1>9, SameBudgetCounts DEF NoSaver, FailStore, budget, handoff, restores
<1>10. CASE Enqueue
  BY <1>10, SameBudgetCounts DEF Enqueue, budget, restores, control
<1>11. CASE EndPlans
  BY <1>11, SameBudgetCounts DEF EndPlans, budget, handoff, restores, control
<1>12. ASSUME NEW t \in Res, ReturnTicket(t)
      PROVE  CounterInv' /\ reserved' \in Nat /\ charged' \subseteq Res
  <2>1. CASE t \in queued
    BY <1>12, <2>1, SameBudgetCounts DEF ReturnTicket, budget
  <2>2. CASE t \notin queued
    BY <1>12, <2>2, ReleaseCounts DEF ReturnTicket
  <2> QED
    BY <2>1, <2>2
<1>13. CASE EndSave
  BY <1>13, SameBudgetCounts DEF EndSave, budget, handoff, restores, control
<1>14. CASE SaverGets
  BY <1>14, SameBudgetCounts DEF SaverGets, budget, producer, restores, control
<1>15. CASE SaverCommits
  BY <1>15, SameBudgetCounts DEF SaverCommits, budget, producer, restores
<1>16. CASE SaverReleases
  <2>1. CASE tickets[saving.id] = NoRes
    BY <1>16, <2>1, SameBudgetCounts DEF SaverReleases, budget
  <2>2. CASE tickets[saving.id] # NoRes
    <3>1. tickets[saving.id] \in Res
      BY <1>16, <2>2, NoneIsNoSnapshot
      DEF SaverReleases, BudgetInv, Owners, SaverInv, TypeOK, Snapshot
    <3> QED
      BY <1>16, <2>2, <3>1, ReleaseCounts DEF SaverReleases
  <2> QED
    BY <2>1, <2>2
<1>17. ASSUME NEW l \in Loader, NEW r \in Res, ReserveRestore(l, r)
      PROVE  CounterInv' /\ reserved' \in Nat /\ charged' \subseteq Res
  BY <1>17, TryReserveCounts DEF ReserveRestore
<1>18. ASSUME NEW l \in Loader, NEW ok \in BOOLEAN, OpenSnapshot(l, ok)
      PROVE  CounterInv' /\ reserved' \in Nat /\ charged' \subseteq Res
  BY <1>18, SameBudgetCounts DEF OpenSnapshot, budget, producer, handoff, control
<1>19. ASSUME NEW l \in Loader, Placed(l)
      PROVE  CounterInv' /\ reserved' \in Nat /\ charged' \subseteq Res
  BY <1>19, SameBudgetCounts DEF Placed, budget, producer, handoff, control
<1>20. ASSUME NEW l \in Loader, Fence(l)
      PROVE  CounterInv' /\ reserved' \in Nat /\ charged' \subseteq Res
  <2>1. loan[l] \in Res
    BY <1>20 DEF Fence, BudgetInv, Owners, LoaderInv, TypeOK
  <2> QED
    BY <1>20, <2>1, ReleaseCounts DEF Fence
<1>21. ASSUME NEW l \in Loader, FenceFails(l)
      PROVE  CounterInv' /\ reserved' \in Nat /\ charged' \subseteq Res
  BY <1>21, SameBudgetCounts DEF FenceFails, EndRestore, budget, producer, handoff, control
<1>22. CASE BeginShutdown
  BY <1>22, SameBudgetCounts DEF BeginShutdown, budget, producer, handoff, restores
<1>23. CASE SendSentinel
  BY <1>23, SameBudgetCounts DEF SendSentinel, budget, producer, restores
<1>24. ASSUME UNCHANGED vars
      PROVE  CounterInv' /\ reserved' \in Nat /\ charged' \subseteq Res
  BY <1>24, SameBudgetCounts
  DEF vars, FailStore, EndRestore, vars, budget, producer, handoff, restores, control
<1> QED
  BY <1>1, <1>2, <1>3, <1>4, <1>5, <1>6, <1>7, <1>8, <1>9, <1>10, <1>11, <1>12, <1>13, <1>14, <1>15, <1>16, <1>17, <1>18, <1>19, <1>20, <1>21, <1>22, <1>23, <1>24
  DEF Next, Producer, Saver, Restore, Shutdown

-----------------------------------------------------------------------------

\* The types of everything but the counter.
Typed ==
  /\ prod \in {"idle", "next", "reserve", "capture", "start", "enqueue", "leave"}
  /\ plans \in 0..MaxPlans
  /\ cur \in Res \cup {NoRes} /\ local \in Snapshot \cup {None}
  /\ produced \subseteq Res /\ queued \subseteq Res /\ spools \subseteq Res /\ stuck \subseteq Res
  /\ tickets \in [Addr -> Res \cup {NoRes}]
  /\ idOf \in [Res -> Addr \cup {NoAddr}]
  /\ queue \in Seq(Snapshot \cup {None}) /\ saving \in Snapshot \cup {None}
  /\ saver \in {"none", "waiting", "committing", "committed", "exited", "died"}
  /\ inflight \in {0, 1} /\ accepting \in BOOLEAN /\ stream \in BOOLEAN
  /\ stop \in {"no", "waiting", "sent", "late"}
  /\ load \in [Loader -> {"idle", "open", "placing", "fence"}]
  /\ loan \in [Loader -> Res \cup {NoRes}]

LEMMA TypedIsTyped == TypeOK <=> reserved \in Nat /\ charged \subseteq Res /\ Typed
BY DEF TypeOK, Typed

LEMMA TypedKept ==
  ASSUME Typed, stop' = "waiting", accepting' = FALSE,
         UNCHANGED <<prod, plans, cur, local, produced, queued, spools, stuck>>,
         UNCHANGED <<tickets, idOf, queue, saving, saver, inflight, stream, load, loan>>
  PROVE  Typed'
<1>1. /\ (prod' \in {"idle", "next", "reserve", "capture", "start", "enqueue", "leave"})
      /\ plans' \in 0..MaxPlans
      /\ cur' \in Res \cup {NoRes} /\ local' \in Snapshot \cup {None}
      /\ produced' \subseteq Res /\ queued' \subseteq Res
      /\ spools' \subseteq Res /\ stuck' \subseteq Res
  BY DEF Typed
<1>2. /\ tickets' \in [Addr -> Res \cup {NoRes}] /\ idOf' \in [Res -> Addr \cup {NoAddr}]
      /\ queue' \in Seq(Snapshot \cup {None}) /\ saving' \in Snapshot \cup {None}
      /\ saver' \in {"none", "waiting", "committing", "committed", "exited", "died"}
      /\ inflight' \in {0, 1} /\ stream' \in BOOLEAN
      /\ load' \in [Loader -> {"idle", "open", "placing", "fence"}]
      /\ loan' \in [Loader -> Res \cup {NoRes}]
  BY DEF Typed
<1> QED
  BY <1>1, <1>2 DEF Typed

LEMMA StepTyped == BudgetInv /\ [Next]_vars => Typed'
<1> SUFFICES ASSUME BudgetInv, [Next]_vars PROVE Typed'
  OBVIOUS
<1>a. Typed
  BY DEF BudgetInv, TypeOK, Typed
<1> USE <1>a, PlansAssumption, NoneIsNoSnapshot DEF Typed
<1>1. CASE BeginSave
  BY <1>1 DEF BeginSave, budget, handoff, restores, control
<1>2. CASE Skip
  BY <1>2 DEF Skip, budget, handoff, restores, control
<1>3. CASE Admit
  BY <1>3 DEF Admit, budget, handoff, restores
<1>4. ASSUME NEW r \in Res, ReserveStore(r)
      PROVE  Typed'
  BY <1>4 DEF ReserveStore, handoff, restores, control
<1>5. ASSUME NEW r \in Res, RefuseStore(r)
      PROVE  Typed'
  <2>1. plans > 0
    BY <1>5 DEF RefuseStore, BudgetInv, Owners, ProducerInv
  <2> QED
    BY <1>5, <2>1 DEF RefuseStore, FailStore, budget, handoff, restores
<1>6. ASSUME NEW a \in Addr, Capture(a)
      PROVE  Typed'
  <2>1. cur \in Res
    BY <1>6 DEF Capture, BudgetInv, Owners, ProducerInv
  <2>2. [id |-> a, spool |-> cur] \in Snapshot
    BY <2>1 DEF Snapshot
  <2> QED
    BY <1>6, <2>1, <2>2 DEF Capture, handoff, restores, control
<1>7. CASE CaptureFails
  <2>1. plans > 0 /\ cur \in Res
    BY <1>7 DEF CaptureFails, BudgetInv, Owners, ProducerInv
  <2> QED
    BY <1>7, <2>1 DEF CaptureFails, FailStore, budget, handoff, restores
<1>8. CASE EnsureSaver
  BY <1>8 DEF EnsureSaver, budget, restores, control
<1>9. CASE NoSaver
  <2>1. plans > 0
    BY <1>9 DEF NoSaver, BudgetInv, Owners, ProducerInv
  <2> QED
    BY <1>9, <2>1 DEF NoSaver, FailStore, budget, handoff, restores
<1>10. CASE Enqueue
  <2>1. local \in Snapshot /\ Distinct(queue)
    BY <1>10 DEF Enqueue, BudgetInv, Owners, ProducerInv, SaverInv
  <2>2. queue' \in Seq(Snapshot \cup {None})
    BY <1>10, <2>1 DEF Enqueue
  <2>3. tickets[local.id] \in Res
    BY <1>10, <2>1 DEF Enqueue, BudgetInv, Owners, ProducerInv, Snapshot
  <2>4. plans' \in 0..MaxPlans
    BY <1>10, PlansAssumption DEF Enqueue, BudgetInv, Owners, ProducerInv
  <2> QED
    BY <1>10, <2>2, <2>3, <2>4 DEF Enqueue, restores, control
<1>11. CASE EndPlans
  BY <1>11 DEF EndPlans, budget, handoff, restores, control
<1>12. ASSUME NEW t \in Res, ReturnTicket(t)
      PROVE  Typed'
  BY <1>12 DEF ReturnTicket, budget, handoff, restores, control
<1>13. CASE EndSave
  BY <1>13 DEF EndSave, budget, handoff, restores, control
<1>14. CASE SaverGets
  <2>1. queue' \in Seq(Snapshot \cup {None}) /\ Head(queue) \in Snapshot \cup {None}
    BY <1>14 DEF SaverGets
  <2> QED
    BY <1>14, <2>1 DEF SaverGets, producer, restores, control
<1>15. CASE SaverCommits
  BY <1>15 DEF SaverCommits, budget, producer, restores
<1>16. CASE SaverReleases
  BY <1>16 DEF SaverReleases, budget, producer, restores, control
<1>17. ASSUME NEW l \in Loader, NEW r \in Res, ReserveRestore(l, r)
      PROVE  Typed'
  BY <1>17 DEF ReserveRestore, producer, handoff, control
<1>18. ASSUME NEW l \in Loader, NEW ok \in BOOLEAN, OpenSnapshot(l, ok)
      PROVE  Typed'
  BY <1>18 DEF OpenSnapshot, budget, producer, handoff, control
<1>19. ASSUME NEW l \in Loader, Placed(l)
      PROVE  Typed'
  BY <1>19 DEF Placed, budget, producer, handoff, control
<1>20. ASSUME NEW l \in Loader, Fence(l)
      PROVE  Typed'
  BY <1>20 DEF Fence, EndRestore, producer, handoff, control
<1>21. ASSUME NEW l \in Loader, FenceFails(l)
      PROVE  Typed'
  <2>1. loan[l] \in Res
    BY <1>21 DEF FenceFails, BudgetInv, Owners, LoaderInv
  <2> QED
    BY <1>21, <2>1 DEF FenceFails, EndRestore, budget, producer, handoff, control
<1>22. CASE BeginShutdown
  <2> HIDE DEF Typed
  <2>1. /\ stop' = "waiting" /\ accepting' = FALSE
        /\ UNCHANGED <<prod, plans, cur, local, produced, queued, spools, stuck>>
        /\ UNCHANGED <<tickets, idOf, queue, saving, saver, inflight, stream, load, loan>>
    BY <1>22 DEF BeginShutdown, budget, producer, handoff, restores
  <2> QED
    BY <1>a, <2>1, TypedKept
<1>23. CASE SendSentinel
  <2>1. queue' \in Seq(Snapshot \cup {None})
    BY <1>23 DEF SendSentinel
  <2> QED
    BY <1>23, <2>1 DEF SendSentinel, producer, restores
<1>24. ASSUME UNCHANGED vars
      PROVE  Typed'
  BY <1>24 DEF vars, FailStore, EndRestore, vars, budget, producer, handoff, restores, control
<1> QED
  BY <1>1, <1>2, <1>3, <1>4, <1>5, <1>6, <1>7, <1>8, <1>9, <1>10, <1>11, <1>12, <1>13, <1>14, <1>15, <1>16, <1>17, <1>18, <1>19, <1>20, <1>21, <1>22, <1>23, <1>24
  DEF Next, Producer, Saver, Restore, Shutdown

-----------------------------------------------------------------------------

\* How the snapshots in flight change: only by five actions.
LEMMA SnapsKept ==
  ASSUME Distinct(queue), UNCHANGED <<queue, saving>>
  PROVE  Snaps' = Snaps /\ Queued' = Queued /\ Distinct(queue')
BY DEF Snaps, Queued

LEMMA SnapsPut ==
  ASSUME BudgetInv, Enqueue
  PROVE  /\ Snaps' = Snaps \cup {local} /\ Queued' = Queued \cup {local}
         /\ Distinct(queue')
         /\ local \in Snapshot /\ local.spool \in produced /\ local.spool \notin queued
         /\ queued' = queued \cup {local.spool}
         /\ tickets[local.id] = local.spool
         /\ \A s \in Snaps : s.id # local.id /\ s.spool # local.spool
<1>1. /\ local \in Snapshot /\ local # None /\ local.spool \in produced /\ local.spool \notin queued
      /\ tickets[local.id] = local.spool
      /\ \A s \in Snaps : s.id # local.id
  BY DEF Enqueue, BudgetInv, Owners, ProducerInv, TypeOK
<1>2. \A s \in Snaps : s.spool # local.spool
  BY <1>1 DEF BudgetInv, Owners, SaverInv
<1>3. Queued' = Queued \cup {local} /\ Distinct(queue')
  <2>1. \A s \in Queued : s.id # local.id /\ s.spool # local.spool
    BY <1>1, <1>2 DEF Snaps, Queued
  <2>2. TypeOK /\ Distinct(queue) /\ queue' = Append(queue, local)
    BY DEF Enqueue, BudgetInv, Owners, SaverInv
  <2> QED
    BY <1>1, <2>1, <2>2, PutEntry
<1>4. Snaps' = Snaps \cup {local}
  BY <1>1, <1>3 DEF Snaps, Enqueue
<1> QED
  BY <1>1, <1>2, <1>3, <1>4 DEF Enqueue

LEMMA SnapsSentinel ==
  ASSUME BudgetInv, SendSentinel
  PROVE  Snaps' = Snaps /\ Queued' = Queued /\ Distinct(queue')
<1>1. TypeOK /\ Distinct(queue) /\ saving' = saving
  BY DEF SendSentinel, BudgetInv, Owners, SaverInv
<1>2. CASE queue' = queue
  BY <1>1, <1>2, SnapsKept
<1>3. CASE queue' = Append(queue, None)
  <2>1. Queued' = Queued /\ Distinct(queue')
    BY <1>1, <1>3, PutEntry
  <2> QED
    BY <1>1, <2>1 DEF Snaps
<1> QED
  BY <1>2, <1>3 DEF SendSentinel

LEMMA SnapsGet ==
  ASSUME BudgetInv, SaverGets
  PROVE  /\ Snaps' = Snaps /\ Queued' \subseteq Queued
         /\ Distinct(queue')
         /\ saving' # None => \A s \in Queued' : s.id # saving'.id /\ s.spool # saving'.spool
         /\ saver' = "committing" <=> saving' # None
<1>1. TypeOK /\ Distinct(queue) /\ saving = None
  BY DEF SaverGets, BudgetInv, Owners, SaverInv
<1>2. /\ Queued = Queued' \cup ({Head(queue)} \ {None})
      /\ Distinct(queue')
      /\ Head(queue) # None =>
           \A s \in Queued' : s.id # Head(queue).id /\ s.spool # Head(queue).spool
  BY <1>1, GetEntry DEF SaverGets
<1>3. saving' = Head(queue)
  BY <1>1 DEF SaverGets
<1>4. saver' = "committing" <=> saving' # None
  BY <1>3 DEF SaverGets
<1>5. Snaps' = Snaps
  BY <1>1, <1>2, <1>3 DEF Snaps, Queued
<1> QED
  BY <1>2, <1>3, <1>4, <1>5

LEMMA SnapsReturned ==
  ASSUME BudgetInv, SaverReleases
  PROVE  /\ saving \in Snapshot /\ saving \in Snaps
         /\ Snaps' = Queued /\ Queued' = Queued /\ Queued \subseteq Snaps
         /\ \A s \in Queued : s.id # saving.id /\ s.spool # saving.spool
         /\ Distinct(queue')
         /\ tickets[saving.id] \in {saving.spool, NoRes} /\ saving.spool \in charged
<1>1. saving # None /\ Distinct(queue) /\ saving \in Snapshot /\ queue' = queue /\ saving' = None
  BY DEF SaverReleases, BudgetInv, Owners, SaverInv, TypeOK
<1>2. saving \in Snaps /\ Queued \subseteq Snaps /\ Queued' = Queued /\ Snaps' = Queued
  BY <1>1 DEF Snaps, Queued
<1> QED
  BY <1>1, <1>2 DEF BudgetInv, Owners, SaverInv

-----------------------------------------------------------------------------

\* Every step keeps each part of the ownership invariant.
LEMMA StepProducer == BudgetInv /\ [Next]_vars => ProducerInv'
<1> SUFFICES ASSUME BudgetInv, [Next]_vars PROVE ProducerInv'
  OBVIOUS
<1>a. TypeOK /\ ProducerInv /\ SaverInv /\ LoaderInv /\ Distinct(queue)
  BY DEF BudgetInv, Owners, SaverInv
<1> USE NoneIsNoSnapshot, ResAssumption
<1>1. CASE BeginSave
  BY <1>a, <1>1, SnapsKept DEF ProducerInv, BeginSave, TypeOK, budget, handoff, restores, control
<1>2. CASE Skip
  BY <1>a, <1>2, SnapsKept DEF ProducerInv, Skip, TypeOK, budget, handoff, restores, control
<1>3. CASE Admit
  BY <1>a, <1>3, SnapsKept DEF ProducerInv, Admit, TypeOK, budget, handoff, restores
<1>4. ASSUME NEW r \in Res, ReserveStore(r)
      PROVE  ProducerInv'
  BY <1>a, <1>4, SnapsKept
  DEF ProducerInv, SaverInv, LoaderInv, ReserveStore, TryReserve, TypeOK, handoff, restores,
      control
<1>5. ASSUME NEW r \in Res, RefuseStore(r)
      PROVE  ProducerInv'
  BY <1>a, <1>5, SnapsKept
  DEF ProducerInv, RefuseStore, FailStore, TypeOK, budget, handoff, restores
<1>6. ASSUME NEW a \in Addr, Capture(a)
      PROVE  ProducerInv'
  <2>1. /\ local' = [id |-> a, spool |-> cur] /\ local' \in Snapshot
        /\ local'.id = a /\ local'.spool = cur /\ tickets'[a] = cur
        /\ \A b \in Addr \ {a} : tickets'[b] = tickets[b]
        /\ cur \in produced \ queued /\ cur' = NoRes
    BY <1>a, <1>6 DEF Capture, ProducerInv, Snapshot, TypeOK
  <2>2. \A s \in Snaps : s.id # a /\ s \in Snapshot /\ s.id \in Addr
    BY <1>a, <1>6 DEF Capture, Free, Referenced, Snaps, Queued, TypeOK, Snapshot
  <2>3. Snaps' = Snaps /\ Queued' = Queued /\ Distinct(queue')
    BY <1>a, <1>6, SnapsKept DEF Capture, handoff
  <2> QED
    BY <1>a, <1>6, <2>1, <2>2, <2>3 DEF Capture, ProducerInv, budget, handoff, restores
<1>7. CASE CaptureFails
  BY <1>a, <1>7, SnapsKept
  DEF ProducerInv, CaptureFails, FailStore, TypeOK, budget, handoff, restores
<1>8. CASE EnsureSaver
  BY <1>a, <1>8, SnapsKept DEF ProducerInv, EnsureSaver, TypeOK, budget, restores, control
<1>9. CASE NoSaver
  BY <1>a, <1>9, SnapsKept DEF ProducerInv, NoSaver, FailStore, TypeOK, budget, handoff, restores
<1>10. CASE Enqueue
  BY <1>a, <1>10, SnapsPut DEF ProducerInv, Enqueue, TypeOK, budget, restores, control
<1>11. CASE EndPlans
  BY <1>a, <1>11, SnapsKept DEF ProducerInv, EndPlans, TypeOK, budget, handoff, restores, control
<1>12. ASSUME NEW t \in Res, ReturnTicket(t)
      PROVE  ProducerInv'
  BY <1>a, <1>12, SnapsKept
  DEF ProducerInv, SaverInv, LoaderInv, ReturnTicket, Release, TypeOK, budget, handoff,
      restores, control
<1>13. CASE EndSave
  BY <1>a, <1>13, SnapsKept
  DEF ProducerInv, SaverInv, LoaderInv, EndSave, TypeOK, budget, handoff, restores, control
<1>14. CASE SaverGets
  BY <1>a, <1>14, SnapsGet DEF ProducerInv, SaverGets, TypeOK, budget, producer, restores, control
<1>15. CASE SaverCommits
  BY <1>a, <1>15, SnapsKept DEF ProducerInv, SaverCommits, TypeOK, budget, producer, restores
<1>16. CASE SaverReleases
  BY <1>a, <1>16, SnapsReturned
  DEF ProducerInv, SaverInv, LoaderInv, SaverReleases, Release, TypeOK, budget, producer,
      restores, control
<1>17. ASSUME NEW l \in Loader, NEW r \in Res, ReserveRestore(l, r)
      PROVE  ProducerInv'
  BY <1>a, <1>17, SnapsKept
  DEF ProducerInv, SaverInv, LoaderInv, ReserveRestore, TryReserve, TypeOK, producer, handoff,
      control
<1>18. ASSUME NEW l \in Loader, NEW ok \in BOOLEAN, OpenSnapshot(l, ok)
      PROVE  ProducerInv'
  BY <1>a, <1>18, SnapsKept
  DEF ProducerInv, OpenSnapshot, TypeOK, budget, producer, handoff, control
<1>19. ASSUME NEW l \in Loader, Placed(l)
      PROVE  ProducerInv'
  BY <1>a, <1>19, SnapsKept DEF ProducerInv, Placed, TypeOK, budget, producer, handoff, control
<1>20. ASSUME NEW l \in Loader, Fence(l)
      PROVE  ProducerInv'
  BY <1>a, <1>20, SnapsKept
  DEF ProducerInv, SaverInv, LoaderInv, Fence, EndRestore, Release, TypeOK, producer, handoff,
      control
<1>21. ASSUME NEW l \in Loader, FenceFails(l)
      PROVE  ProducerInv'
  BY <1>a, <1>21, SnapsKept
  DEF ProducerInv, SaverInv, LoaderInv, FenceFails, EndRestore, TypeOK, budget, producer,
      handoff, control
<1>22. CASE BeginShutdown
  BY <1>a, <1>22, SnapsKept
  DEF ProducerInv, BeginShutdown, TypeOK, budget, producer, handoff, restores
<1>23. CASE SendSentinel
  BY <1>a, <1>23, SnapsSentinel DEF ProducerInv, SendSentinel, TypeOK, budget, producer, restores
<1>24. ASSUME UNCHANGED vars
      PROVE  ProducerInv'
  BY <1>a, <1>24, SnapsKept
  DEF ProducerInv, vars, FailStore, EndRestore, TryReserve, Release, TypeOK, vars, budget,
      producer, handoff, restores, control
<1> QED
  BY <1>1, <1>2, <1>3, <1>4, <1>5, <1>6, <1>7, <1>8, <1>9, <1>10, <1>11, <1>12, <1>13, <1>14, <1>15, <1>16, <1>17, <1>18, <1>19, <1>20, <1>21, <1>22, <1>23, <1>24
  DEF Next, Producer, Saver, Restore, Shutdown

-----------------------------------------------------------------------------

\* Every step keeps each part of the ownership invariant.
LEMMA StepLoader == BudgetInv /\ [Next]_vars => LoaderInv'
<1> SUFFICES ASSUME BudgetInv, [Next]_vars PROVE LoaderInv'
  OBVIOUS
<1>a. TypeOK /\ ProducerInv /\ SaverInv /\ LoaderInv /\ Distinct(queue)
  BY DEF BudgetInv, Owners, SaverInv
<1> USE NoneIsNoSnapshot, ResAssumption
<1>1. CASE BeginSave
  BY <1>a, <1>1, SnapsKept DEF LoaderInv, BeginSave, TypeOK, budget, handoff, restores, control
<1>2. CASE Skip
  BY <1>a, <1>2, SnapsKept DEF LoaderInv, Skip, TypeOK, budget, handoff, restores, control
<1>3. CASE Admit
  BY <1>a, <1>3, SnapsKept DEF LoaderInv, Admit, TypeOK, budget, handoff, restores
<1>4. ASSUME NEW r \in Res, ReserveStore(r)
      PROVE  LoaderInv'
  BY <1>a, <1>4, SnapsKept
  DEF ProducerInv, SaverInv, LoaderInv, ReserveStore, TryReserve, TypeOK, handoff, restores,
      control
<1>5. ASSUME NEW r \in Res, RefuseStore(r)
      PROVE  LoaderInv'
  BY <1>a, <1>5, SnapsKept DEF LoaderInv, RefuseStore, FailStore, TypeOK, budget, handoff, restores
<1>6. ASSUME NEW a \in Addr, Capture(a)
      PROVE  LoaderInv'
  <2>1. /\ local' = [id |-> a, spool |-> cur] /\ local' \in Snapshot
        /\ local'.id = a /\ local'.spool = cur /\ tickets'[a] = cur
        /\ \A b \in Addr \ {a} : tickets'[b] = tickets[b]
        /\ cur \in produced \ queued /\ cur' = NoRes
    BY <1>a, <1>6 DEF Capture, ProducerInv, Snapshot, TypeOK
  <2>2. \A s \in Snaps : s.id # a /\ s \in Snapshot /\ s.id \in Addr
    BY <1>a, <1>6 DEF Capture, Free, Referenced, Snaps, Queued, TypeOK, Snapshot
  <2>3. Snaps' = Snaps /\ Queued' = Queued /\ Distinct(queue')
    BY <1>a, <1>6, SnapsKept DEF Capture, handoff
  <2> QED
    BY <1>a, <1>6, <2>1, <2>2, <2>3 DEF Capture, LoaderInv, budget, handoff, restores
<1>7. CASE CaptureFails
  BY <1>a, <1>7, SnapsKept DEF LoaderInv, CaptureFails, FailStore, TypeOK, budget, handoff, restores
<1>8. CASE EnsureSaver
  BY <1>a, <1>8, SnapsKept DEF LoaderInv, EnsureSaver, TypeOK, budget, restores, control
<1>9. CASE NoSaver
  BY <1>a, <1>9, SnapsKept DEF LoaderInv, NoSaver, FailStore, TypeOK, budget, handoff, restores
<1>10. CASE Enqueue
  BY <1>a, <1>10, SnapsPut DEF LoaderInv, Enqueue, TypeOK, budget, restores, control
<1>11. CASE EndPlans
  BY <1>a, <1>11, SnapsKept DEF LoaderInv, EndPlans, TypeOK, budget, handoff, restores, control
<1>12. ASSUME NEW t \in Res, ReturnTicket(t)
      PROVE  LoaderInv'
  BY <1>a, <1>12, SnapsKept
  DEF ProducerInv, SaverInv, LoaderInv, ReturnTicket, Release, TypeOK, budget, handoff,
      restores, control
<1>13. CASE EndSave
  BY <1>a, <1>13, SnapsKept
  DEF ProducerInv, SaverInv, LoaderInv, EndSave, TypeOK, budget, handoff, restores, control
<1>14. CASE SaverGets
  BY <1>a, <1>14, SnapsGet DEF LoaderInv, SaverGets, TypeOK, budget, producer, restores, control
<1>15. CASE SaverCommits
  BY <1>a, <1>15, SnapsKept DEF LoaderInv, SaverCommits, TypeOK, budget, producer, restores
<1>16. CASE SaverReleases
  BY <1>a, <1>16, SnapsReturned
  DEF ProducerInv, SaverInv, LoaderInv, SaverReleases, Release, TypeOK, budget, producer,
      restores, control
<1>17. ASSUME NEW l \in Loader, NEW r \in Res, ReserveRestore(l, r)
      PROVE  LoaderInv'
  BY <1>a, <1>17, SnapsKept
  DEF ProducerInv, SaverInv, LoaderInv, ReserveRestore, TryReserve, TypeOK, producer, handoff,
      control
<1>18. ASSUME NEW l \in Loader, NEW ok \in BOOLEAN, OpenSnapshot(l, ok)
      PROVE  LoaderInv'
  BY <1>a, <1>18, SnapsKept DEF LoaderInv, OpenSnapshot, TypeOK, budget, producer, handoff, control
<1>19. ASSUME NEW l \in Loader, Placed(l)
      PROVE  LoaderInv'
  BY <1>a, <1>19, SnapsKept DEF LoaderInv, Placed, TypeOK, budget, producer, handoff, control
<1>20. ASSUME NEW l \in Loader, Fence(l)
      PROVE  LoaderInv'
  BY <1>a, <1>20, SnapsKept
  DEF ProducerInv, SaverInv, LoaderInv, Fence, EndRestore, Release, TypeOK, producer, handoff,
      control
<1>21. ASSUME NEW l \in Loader, FenceFails(l)
      PROVE  LoaderInv'
  BY <1>a, <1>21, SnapsKept
  DEF ProducerInv, SaverInv, LoaderInv, FenceFails, EndRestore, TypeOK, budget, producer,
      handoff, control
<1>22. CASE BeginShutdown
  BY <1>a, <1>22, SnapsKept
  DEF LoaderInv, BeginShutdown, TypeOK, budget, producer, handoff, restores
<1>23. CASE SendSentinel
  BY <1>a, <1>23, SnapsSentinel DEF LoaderInv, SendSentinel, TypeOK, budget, producer, restores
<1>24. ASSUME UNCHANGED vars
      PROVE  LoaderInv'
  BY <1>a, <1>24, SnapsKept
  DEF LoaderInv, vars, FailStore, EndRestore, TryReserve, Release, TypeOK, vars, budget,
      producer, handoff, restores, control
<1> QED
  BY <1>1, <1>2, <1>3, <1>4, <1>5, <1>6, <1>7, <1>8, <1>9, <1>10, <1>11, <1>12, <1>13, <1>14, <1>15, <1>16, <1>17, <1>18, <1>19, <1>20, <1>21, <1>22, <1>23, <1>24
  DEF Next, Producer, Saver, Restore, Shutdown

-----------------------------------------------------------------------------

\* Every step keeps each part of the ownership invariant.
LEMMA StepSaver == BudgetInv /\ [Next]_vars => SaverInv'
<1> SUFFICES ASSUME BudgetInv, [Next]_vars PROVE SaverInv'
  OBVIOUS
<1>a. TypeOK /\ ProducerInv /\ SaverInv /\ LoaderInv /\ Distinct(queue)
  BY DEF BudgetInv, Owners, SaverInv
<1> USE NoneIsNoSnapshot, ResAssumption
<1>1. CASE BeginSave
  BY <1>a, <1>1, SnapsKept DEF SaverInv, BeginSave, TypeOK, budget, handoff, restores, control
<1>2. CASE Skip
  BY <1>a, <1>2, SnapsKept DEF SaverInv, Skip, TypeOK, budget, handoff, restores, control
<1>3. CASE Admit
  BY <1>a, <1>3, SnapsKept DEF SaverInv, Admit, TypeOK, budget, handoff, restores
<1>4. ASSUME NEW r \in Res, ReserveStore(r)
      PROVE  SaverInv'
  BY <1>a, <1>4, SnapsKept
  DEF ProducerInv, SaverInv, LoaderInv, ReserveStore, TryReserve, TypeOK, handoff, restores,
      control
<1>5. ASSUME NEW r \in Res, RefuseStore(r)
      PROVE  SaverInv'
  BY <1>a, <1>5, SnapsKept DEF SaverInv, RefuseStore, FailStore, TypeOK, budget, handoff, restores
<1>6. ASSUME NEW a \in Addr, Capture(a)
      PROVE  SaverInv'
  <2>1. /\ local' = [id |-> a, spool |-> cur] /\ local' \in Snapshot
        /\ local'.id = a /\ local'.spool = cur /\ tickets'[a] = cur
        /\ \A b \in Addr \ {a} : tickets'[b] = tickets[b]
        /\ cur \in produced \ queued /\ cur' = NoRes
    BY <1>a, <1>6 DEF Capture, ProducerInv, Snapshot, TypeOK
  <2>2. \A s \in Snaps : s.id # a /\ s \in Snapshot /\ s.id \in Addr
    BY <1>a, <1>6 DEF Capture, Free, Referenced, Snaps, Queued, TypeOK, Snapshot
  <2>3. Snaps' = Snaps /\ Queued' = Queued /\ Distinct(queue')
    BY <1>a, <1>6, SnapsKept DEF Capture, handoff
  <2> QED
    BY <1>a, <1>6, <2>1, <2>2, <2>3 DEF Capture, SaverInv, budget, handoff, restores
<1>7. CASE CaptureFails
  BY <1>a, <1>7, SnapsKept DEF SaverInv, CaptureFails, FailStore, TypeOK, budget, handoff, restores
<1>8. CASE EnsureSaver
  BY <1>a, <1>8, SnapsKept DEF SaverInv, EnsureSaver, TypeOK, budget, restores, control
<1>9. CASE NoSaver
  BY <1>a, <1>9, SnapsKept DEF SaverInv, NoSaver, FailStore, TypeOK, budget, handoff, restores
<1>10. CASE Enqueue
  <2>1. local # None /\ local.spool \in charged
    BY <1>a, SnapsPut, <1>10 DEF ProducerInv
  <2>2. saver' = saver /\ saving' = saving /\ tickets' = tickets /\ charged' = charged
        /\ produced' = produced
    BY <1>10 DEF Enqueue, budget
  <2>3. \A s \in Snaps' : /\ s.spool \in charged'
                          /\ tickets'[s.id] \in {s.spool, NoRes}
                          /\ s.spool \in produced' => s.spool \in queued'
    BY <1>a, <1>10, <2>1, <2>2, SnapsPut DEF SaverInv
  <2>4. saving' # None => \A s \in Queued' : s.id # saving'.id /\ s.spool # saving'.spool
    <3>1. saving # None => saving \in Snaps
      BY DEF Snaps
    <3> QED
      BY <1>a, <1>10, <2>2, <3>1, SnapsPut DEF SaverInv
  <2> QED
    BY <1>a, <1>10, <2>2, <2>3, <2>4, SnapsPut DEF SaverInv
<1>11. CASE EndPlans
  BY <1>a, <1>11, SnapsKept DEF SaverInv, EndPlans, TypeOK, budget, handoff, restores, control
<1>12. ASSUME NEW t \in Res, ReturnTicket(t)
      PROVE  SaverInv'
  <2>1. Snaps' = Snaps /\ Queued' = Queued /\ Distinct(queue') /\ saver' = saver
        /\ saving' = saving /\ produced' = produced \ {t} /\ queued' = queued
    BY <1>a, <1>12, SnapsKept DEF ReturnTicket, handoff
  <2>2. \A s \in Snaps : s.id \in Addr
    BY <1>a DEF Snaps, Queued, TypeOK, Snapshot
  <2>3. CASE t \in queued
    BY <1>a, <1>12, <2>1, <2>3 DEF ReturnTicket, SaverInv, budget
  <2>4. CASE t \notin queued
    <3>1. /\ charged' = charged \ {t}
          /\ \A b \in Addr : tickets'[b] \in {tickets[b], NoRes}
      BY <1>12, <2>4 DEF ReturnTicket, Release
    <3>2. \A s \in Snaps : s.spool # t
      BY <1>a, <1>12, <2>4 DEF ReturnTicket, SaverInv
    <3> QED
      BY <1>a, <2>1, <2>2, <3>1, <3>2 DEF SaverInv
  <2> QED
    BY <2>3, <2>4
<1>13. CASE EndSave
  BY <1>a, <1>13, SnapsKept
  DEF ProducerInv, SaverInv, LoaderInv, EndSave, TypeOK, budget, handoff, restores, control
<1>14. CASE SaverGets
  BY <1>a, <1>14, SnapsGet DEF SaverInv, SaverGets, TypeOK, budget, producer, restores, control
<1>15. CASE SaverCommits
  BY <1>a, <1>15, SnapsKept DEF SaverInv, SaverCommits, TypeOK, budget, producer, restores
<1>16. CASE SaverReleases
  <2>1. saving' = None /\ saver' \in {"died", "waiting"} /\ produced' = {}
    BY <1>a, <1>16 DEF SaverReleases, producer, ProducerInv
  <2>2. /\ charged \ {saving.spool} \subseteq charged'
        /\ \A b \in Addr : b # saving.id => tickets'[b] = tickets[b]
    BY <1>a, <1>16, SnapsReturned DEF SaverReleases, Release, budget, TypeOK
  <2>3. \A s \in Queued : s.id \in Addr
    BY <1>a DEF Queued, TypeOK, Snapshot
  <2> QED
    BY <1>a, <1>16, <2>1, <2>2, <2>3, SnapsReturned DEF SaverInv
<1>17. ASSUME NEW l \in Loader, NEW r \in Res, ReserveRestore(l, r)
      PROVE  SaverInv'
  BY <1>a, <1>17, SnapsKept
  DEF ProducerInv, SaverInv, LoaderInv, ReserveRestore, TryReserve, TypeOK, producer, handoff,
      control
<1>18. ASSUME NEW l \in Loader, NEW ok \in BOOLEAN, OpenSnapshot(l, ok)
      PROVE  SaverInv'
  BY <1>a, <1>18, SnapsKept DEF SaverInv, OpenSnapshot, TypeOK, budget, producer, handoff, control
<1>19. ASSUME NEW l \in Loader, Placed(l)
      PROVE  SaverInv'
  BY <1>a, <1>19, SnapsKept DEF SaverInv, Placed, TypeOK, budget, producer, handoff, control
<1>20. ASSUME NEW l \in Loader, Fence(l)
      PROVE  SaverInv'
  BY <1>a, <1>20, SnapsKept
  DEF ProducerInv, SaverInv, LoaderInv, Fence, EndRestore, Release, TypeOK, producer, handoff,
      control
<1>21. ASSUME NEW l \in Loader, FenceFails(l)
      PROVE  SaverInv'
  BY <1>a, <1>21, SnapsKept
  DEF ProducerInv, SaverInv, LoaderInv, FenceFails, EndRestore, TypeOK, budget, producer,
      handoff, control
<1>22. CASE BeginShutdown
  BY <1>a, <1>22, SnapsKept DEF SaverInv, BeginShutdown, TypeOK, budget, producer, handoff, restores
<1>23. CASE SendSentinel
  BY <1>a, <1>23, SnapsSentinel DEF SaverInv, SendSentinel, TypeOK, budget, producer, restores
<1>24. ASSUME UNCHANGED vars
      PROVE  SaverInv'
  BY <1>a, <1>24, SnapsKept
  DEF SaverInv, vars, FailStore, EndRestore, TryReserve, Release, TypeOK, vars, budget,
      producer, handoff, restores, control
<1> QED
  BY <1>1, <1>2, <1>3, <1>4, <1>5, <1>6, <1>7, <1>8, <1>9, <1>10, <1>11, <1>12, <1>13, <1>14, <1>15, <1>16, <1>17, <1>18, <1>19, <1>20, <1>21, <1>22, <1>23, <1>24
  DEF Next, Producer, Saver, Restore, Shutdown

-----------------------------------------------------------------------------

LEMMA InitBudget == Init => BudgetInv
<1> SUFFICES ASSUME Init PROVE BudgetInv
  OBVIOUS
<1>1. Units({}) = {}
  BY DEF Units
<1>2. CounterInv
  <2>1. reserved = 0 /\ Units(charged) = {}
    BY <1>1 DEF Init
  <2>2. IsFiniteSet(Units(charged)) /\ Cardinality(Units(charged)) = 0
    BY <2>1, FS_EmptySet
  <2> QED
    BY <2>1, <2>2, LimitsAssumption DEF CounterInv, ReservedExact
<1>3. TypeOK
  <2>1. queue \in Seq(Snapshot \cup {None})
    BY DEF Init
  <2>2. plans \in 0..MaxPlans /\ reserved \in Nat
    BY PlansAssumption DEF Init
  <2>3. local \in Snapshot \cup {None} /\ saving \in Snapshot \cup {None}
    BY DEF Init
  <2>4. /\ charged \subseteq Res /\ cur \in Res \cup {NoRes} /\ produced \subseteq Res
        /\ queued \subseteq Res /\ spools \subseteq Res /\ stuck \subseteq Res
        /\ inflight \in {0, 1} /\ accepting \in BOOLEAN /\ stream \in BOOLEAN
    BY DEF Init
  <2>5. /\ tickets \in [Addr -> Res \cup {NoRes}] /\ idOf \in [Res -> Addr \cup {NoAddr}]
        /\ load \in [Loader -> {"idle", "open", "placing", "fence"}]
        /\ loan \in [Loader -> Res \cup {NoRes}]
    BY DEF Init
  <2> QED
    BY <2>1, <2>2, <2>3, <2>4, <2>5 DEF Init, TypeOK
<1>4. Snaps = {} /\ Queued = {}
  BY DEF Init, Snaps, Queued
<1>5. Owners
  BY <1>4, ResAssumption DEF Init, Owners, ProducerInv, SaverInv, LoaderInv, Distinct
<1> QED
  BY <1>2, <1>3, <1>5 DEF BudgetInv

\* Every reachable state satisfies the inductive invariant: the counter is the
\* sum of the live reservations, and each reservation has one owner (a ticket
\* of the call, a snapshot in flight, a restore thread or a failed fence).
THEOREM BudgetInvariant == Spec => []BudgetInv
<1>1. BudgetInv /\ [Next]_vars => BudgetInv'
  BY StepCounts, StepTyped, TypedIsTyped, StepProducer, StepSaver, StepLoader
  DEF BudgetInv, Owners, TypeOK, Typed
<1> QED
  BY <1>1, InitBudget, PTL DEF Spec

\* The types hold in every reachable state.
THEOREM BudgetTypeCorrect == Spec => []TypeOK
<1>1. BudgetInv => TypeOK
  BY DEF BudgetInv
<1> QED
  BY <1>1, BudgetInvariant, PTL

\* The counter never drifts from the live reservations nor exceeds the cap, for
\* any number of threads, peaks, failures and readings of MemAvailable.
THEOREM ReservedIsExact == Spec => []ReservedExact
<1>1. BudgetInv => ReservedExact
  BY DEF BudgetInv, CounterInv
<1> QED
  BY <1>1, BudgetInvariant, PTL

\* No reservation is given back while its bytes may be referenced, even when
\* threads fail to start and snapshot addresses are used again.
THEOREM BudgetIsHeld == Spec => []BudgetHeld
<1>1. BudgetInv => BudgetHeld
  <2> SUFFICES ASSUME BudgetInv, NEW r \in InUse PROVE r \in charged
    BY DEF BudgetHeld
  <2>1. CASE r = cur
    BY <2>1 DEF InUse, BudgetInv, Owners, ProducerInv
  <2>2. CASE \E s \in Referenced : r = s.spool
    <3>1. PICK s \in Referenced : r = s.spool
      BY <2>2
    <3>2. s # None
      BY <3>1 DEF InUse, None
    <3>3. s = local \/ s \in Snaps
      BY <3>1, <3>2 DEF Referenced, Snaps, Queued
    <3> QED
      BY <3>1, <3>2, <3>3 DEF BudgetInv, Owners, ProducerInv, SaverInv
  <2>3. CASE \E l \in Loader : r = loan[l]
    BY <2>3 DEF InUse, BudgetInv, Owners, LoaderInv
  <2>4. CASE r \in stuck
    BY <2>4 DEF BudgetInv, Owners, LoaderInv
  <2> QED
    BY <2>1, <2>2, <2>3, <2>4 DEF InUse
<1> QED
  BY <1>1, BudgetInvariant, PTL

-----------------------------------------------------------------------------

\* Who may return a reservation: the call in progress, the saver, a restore
\* thread, or nobody any more (a failed fence).
OwnerIds == produced \cup {s.spool : s \in Snaps} \cup {loan[l] : l \in Loader} \cup stuck

\* A ticket the call has queued is one of a snapshot in flight.
OrphanInv ==
  /\ \A t \in produced \cap queued : \E s \in Snaps : s.spool = t
  /\ saver # "died" => charged \subseteq OwnerIds

LEMMA StepOrphan == BudgetInv /\ BudgetInv' /\ OrphanInv /\ [Next]_vars => OrphanInv'
<1> SUFFICES ASSUME BudgetInv, BudgetInv', OrphanInv, [Next]_vars PROVE OrphanInv'
  OBVIOUS
<1>a. TypeOK /\ ProducerInv /\ SaverInv /\ LoaderInv /\ Distinct(queue)
  BY DEF BudgetInv, Owners, SaverInv
<1> USE NoneIsNoSnapshot, ResAssumption
<1>1. CASE BeginSave
  <2>1. Snaps' = Snaps /\ saver' = saver
    BY <1>a, <1>1, SnapsKept DEF BeginSave, budget, handoff, restores, control
  <2> QED
    BY <1>a, <1>1, <2>1
    DEF OrphanInv, OwnerIds, ProducerInv, LoaderInv, BeginSave, TypeOK, budget, handoff,
        restores, control
<1>2. CASE Skip
  <2>1. Snaps' = Snaps /\ saver' = saver
    BY <1>a, <1>2, SnapsKept DEF Skip, budget, handoff, restores, control
  <2> QED
    BY <1>a, <1>2, <2>1
    DEF OrphanInv, OwnerIds, ProducerInv, LoaderInv, Skip, TypeOK, budget, handoff, restores,
        control
<1>3. CASE Admit
  <2>1. Snaps' = Snaps /\ saver' = saver
    BY <1>a, <1>3, SnapsKept DEF Admit, budget, handoff, restores
  <2> QED
    BY <1>a, <1>3, <2>1
    DEF OrphanInv, OwnerIds, ProducerInv, LoaderInv, Admit, TypeOK, budget, handoff, restores
<1>4. ASSUME NEW r \in Res, ReserveStore(r)
      PROVE  OrphanInv'
  <2>1. Snaps' = Snaps /\ saver' = saver
    BY <1>a, <1>4, SnapsKept DEF ReserveStore, handoff, restores, control
  <2> QED
    BY <1>a, <1>4, <2>1
    DEF OrphanInv, OwnerIds, ProducerInv, LoaderInv, ReserveStore, TryReserve, TypeOK, handoff,
        restores, control
<1>5. ASSUME NEW r \in Res, RefuseStore(r)
      PROVE  OrphanInv'
  <2>1. Snaps' = Snaps /\ saver' = saver
    BY <1>a, <1>5, SnapsKept DEF RefuseStore, FailStore, budget, handoff, restores
  <2> QED
    BY <1>a, <1>5, <2>1
    DEF OrphanInv, OwnerIds, ProducerInv, LoaderInv, RefuseStore, FailStore, TypeOK, budget,
        handoff, restores
<1>6. ASSUME NEW a \in Addr, Capture(a)
      PROVE  OrphanInv'
  <2>1. Snaps' = Snaps /\ saver' = saver
    BY <1>a, <1>6, SnapsKept DEF Capture, budget, handoff, restores, control
  <2> QED
    BY <1>a, <1>6, <2>1
    DEF OrphanInv, OwnerIds, ProducerInv, LoaderInv, Capture, TypeOK, budget, handoff, restores,
        control
<1>7. CASE CaptureFails
  <2>1. Snaps' = Snaps /\ saver' = saver
    BY <1>a, <1>7, SnapsKept DEF CaptureFails, FailStore, budget, handoff, restores
  <2> QED
    BY <1>a, <1>7, <2>1
    DEF OrphanInv, OwnerIds, ProducerInv, LoaderInv, CaptureFails, FailStore, TypeOK, budget,
        handoff, restores
<1>8. CASE EnsureSaver
  <2>1. Snaps' = Snaps /\ (saver' = "died" <=> saver = "died")
    BY <1>a, <1>8, SnapsKept DEF EnsureSaver, budget, restores, control
  <2> QED
    BY <1>a, <1>8, <2>1
    DEF OrphanInv, OwnerIds, ProducerInv, LoaderInv, EnsureSaver, TypeOK, budget, restores,
        control
<1>9. CASE NoSaver
  <2>1. Snaps' = Snaps /\ saver' = saver
    BY <1>a, <1>9, SnapsKept DEF NoSaver, FailStore, budget, handoff, restores
  <2> QED
    BY <1>a, <1>9, <2>1
    DEF OrphanInv, OwnerIds, ProducerInv, LoaderInv, NoSaver, FailStore, TypeOK, budget,
        handoff, restores
<1>10. CASE Enqueue
  BY <1>a, <1>10, SnapsPut DEF OrphanInv, OwnerIds, Enqueue, budget, restores, control
<1>11. CASE EndPlans
  <2>1. Snaps' = Snaps /\ saver' = saver
    BY <1>a, <1>11, SnapsKept DEF EndPlans, budget, handoff, restores, control
  <2> QED
    BY <1>a, <1>11, <2>1
    DEF OrphanInv, OwnerIds, ProducerInv, LoaderInv, EndPlans, TypeOK, budget, handoff,
        restores, control
<1>12. ASSUME NEW t \in Res, ReturnTicket(t)
      PROVE  OrphanInv'
  <2>1. Snaps' = Snaps /\ saver' = saver
    BY <1>a, <1>12, SnapsKept DEF ReturnTicket, budget, handoff, restores, control
  <2> QED
    BY <1>a, <1>12, <2>1
    DEF OrphanInv, OwnerIds, ProducerInv, LoaderInv, ReturnTicket, Release, TypeOK, budget,
        handoff, restores, control
<1>13. CASE EndSave
  <2>1. Snaps' = Snaps /\ saver' = saver
    BY <1>a, <1>13, SnapsKept DEF EndSave, budget, handoff, restores, control
  <2> QED
    BY <1>a, <1>13, <2>1
    DEF OrphanInv, OwnerIds, ProducerInv, LoaderInv, EndSave, TypeOK, budget, handoff, restores,
        control
<1>14. CASE SaverGets
  BY <1>a, <1>14, SnapsGet DEF OrphanInv, OwnerIds, SaverGets, budget, producer, restores, control
<1>15. CASE SaverCommits
  <2>1. Snaps' = Snaps /\ saver' # "died" /\ saver # "died"
    BY <1>a, <1>15, SnapsKept DEF SaverCommits, budget, producer, restores
  <2> QED
    BY <1>a, <1>15, <2>1
    DEF OrphanInv, OwnerIds, ProducerInv, LoaderInv, SaverCommits, TypeOK, budget, producer,
        restores
<1>16. CASE SaverReleases
  <2>1. produced = {} /\ produced' = {} /\ loan' = loan /\ stuck' = stuck /\ saver # "died"
    BY <1>a, <1>16 DEF SaverReleases, ProducerInv, producer, restores
  <2>2. saver' # "died" => charged' = charged \ {saving.spool}
    BY <1>a, <1>16, SnapsReturned DEF SaverReleases, Release
  <2>3. Snaps \subseteq Snaps' \cup {saving}
    BY <1>16, SnapsReturned DEF Snaps
  <2> QED
    BY <2>1, <2>2, <2>3 DEF OrphanInv, OwnerIds
<1>17. ASSUME NEW l \in Loader, NEW r \in Res, ReserveRestore(l, r)
      PROVE  OrphanInv'
  <2>1. Snaps' = Snaps /\ saver' = saver
    BY <1>a, <1>17, SnapsKept DEF ReserveRestore, producer, handoff, control
  <2> QED
    BY <1>a, <1>17, <2>1
    DEF OrphanInv, OwnerIds, ProducerInv, LoaderInv, ReserveRestore, TryReserve, TypeOK,
        producer, handoff, control
<1>18. ASSUME NEW l \in Loader, NEW ok \in BOOLEAN, OpenSnapshot(l, ok)
      PROVE  OrphanInv'
  <2>1. Snaps' = Snaps /\ saver' = saver
    BY <1>a, <1>18, SnapsKept DEF OpenSnapshot, budget, producer, handoff, control
  <2> QED
    BY <1>a, <1>18, <2>1
    DEF OrphanInv, OwnerIds, ProducerInv, LoaderInv, OpenSnapshot, TypeOK, budget, producer,
        handoff, control
<1>19. ASSUME NEW l \in Loader, Placed(l)
      PROVE  OrphanInv'
  <2>1. Snaps' = Snaps /\ saver' = saver
    BY <1>a, <1>19, SnapsKept DEF Placed, budget, producer, handoff, control
  <2> QED
    BY <1>a, <1>19, <2>1
    DEF OrphanInv, OwnerIds, ProducerInv, LoaderInv, Placed, TypeOK, budget, producer, handoff,
        control
<1>20. ASSUME NEW l \in Loader, Fence(l)
      PROVE  OrphanInv'
  <2>1. Snaps' = Snaps /\ saver' = saver
    BY <1>a, <1>20, SnapsKept DEF Fence, EndRestore, producer, handoff, control
  <2> QED
    BY <1>a, <1>20, <2>1
    DEF OrphanInv, OwnerIds, ProducerInv, LoaderInv, Fence, EndRestore, Release, TypeOK,
        producer, handoff, control
<1>21. ASSUME NEW l \in Loader, FenceFails(l)
      PROVE  OrphanInv'
  <2>1. Snaps' = Snaps /\ saver' = saver
    BY <1>a, <1>21, SnapsKept DEF FenceFails, EndRestore, budget, producer, handoff, control
  <2> QED
    BY <1>a, <1>21, <2>1
    DEF OrphanInv, OwnerIds, ProducerInv, LoaderInv, FenceFails, EndRestore, TypeOK, budget,
        producer, handoff, control
<1>22. CASE BeginShutdown
  <2>1. Snaps' = Snaps /\ saver' = saver
    BY <1>a, <1>22, SnapsKept DEF BeginShutdown, budget, producer, handoff, restores
  <2> QED
    BY <1>a, <1>22, <2>1
    DEF OrphanInv, OwnerIds, ProducerInv, LoaderInv, BeginShutdown, TypeOK, budget, producer,
        handoff, restores
<1>23. CASE SendSentinel
  BY <1>a, <1>23, SnapsSentinel DEF OrphanInv, OwnerIds, SendSentinel, budget, producer, restores
<1>24. ASSUME UNCHANGED vars
      PROVE  OrphanInv'
  <2>1. Snaps' = Snaps /\ saver' = saver
    BY <1>a, <1>24, SnapsKept
    DEF vars, FailStore, EndRestore, vars, budget, producer, handoff, restores, control
  <2> QED
    BY <1>a, <1>24, <2>1
    DEF OrphanInv, OwnerIds, ProducerInv, LoaderInv, vars, FailStore, EndRestore, TryReserve,
        Release, TypeOK, vars, budget, producer, handoff, restores, control
<1> QED
  BY <1>1, <1>2, <1>3, <1>4, <1>5, <1>6, <1>7, <1>8, <1>9, <1>10, <1>11, <1>12, <1>13, <1>14, <1>15, <1>16, <1>17, <1>18, <1>19, <1>20, <1>21, <1>22, <1>23, <1>24
  DEF Next, Producer, Saver, Restore, Shutdown

-----------------------------------------------------------------------------

\* An open spool belongs to a store, so no restore gives its budget back.
SpoolInv ==
  /\ SpoolsOwned
  /\ prod \in {"start", "enqueue"} => local.spool \in spools
  /\ \A l \in Loader : loan[l] # NoRes => loan[l] \notin spools

LEMMA StepSpool == BudgetInv /\ SpoolInv /\ [Next]_vars => SpoolInv'
<1> SUFFICES ASSUME BudgetInv, SpoolInv, [Next]_vars PROVE SpoolInv'
  OBVIOUS
<1>a. TypeOK /\ ProducerInv /\ SaverInv /\ LoaderInv /\ Distinct(queue)
  BY DEF BudgetInv, Owners, SaverInv
<1> USE NoneIsNoSnapshot, ResAssumption
<1>1. CASE BeginSave
  <2>1. Queued' = Queued /\ saving' = saving
    BY <1>a, <1>1, SnapsKept DEF BeginSave, budget, handoff, restores, control
  <2> QED
    BY <1>a, <1>1, <2>1
    DEF SpoolInv, SpoolsOwned, ProducerInv, LoaderInv, BeginSave, TypeOK, budget, handoff,
        restores, control
<1>2. CASE Skip
  <2>1. Queued' = Queued /\ saving' = saving
    BY <1>a, <1>2, SnapsKept DEF Skip, budget, handoff, restores, control
  <2> QED
    BY <1>a, <1>2, <2>1
    DEF SpoolInv, SpoolsOwned, ProducerInv, LoaderInv, Skip, TypeOK, budget, handoff, restores,
        control
<1>3. CASE Admit
  <2>1. Queued' = Queued /\ saving' = saving
    BY <1>a, <1>3, SnapsKept DEF Admit, budget, handoff, restores
  <2> QED
    BY <1>a, <1>3, <2>1
    DEF SpoolInv, SpoolsOwned, ProducerInv, LoaderInv, Admit, TypeOK, budget, handoff, restores
<1>4. ASSUME NEW r \in Res, ReserveStore(r)
      PROVE  SpoolInv'
  <2>1. Queued' = Queued /\ saving' = saving
    BY <1>a, <1>4, SnapsKept DEF ReserveStore, handoff, restores, control
  <2> QED
    BY <1>a, <1>4, <2>1
    DEF SpoolInv, SpoolsOwned, ProducerInv, LoaderInv, ReserveStore, TryReserve, TypeOK,
        handoff, restores, control
<1>5. ASSUME NEW r \in Res, RefuseStore(r)
      PROVE  SpoolInv'
  <2>1. Queued' = Queued /\ saving' = saving
    BY <1>a, <1>5, SnapsKept DEF RefuseStore, FailStore, budget, handoff, restores
  <2> QED
    BY <1>a, <1>5, <2>1
    DEF SpoolInv, SpoolsOwned, ProducerInv, LoaderInv, RefuseStore, FailStore, TypeOK, budget,
        handoff, restores
<1>6. ASSUME NEW a \in Addr, Capture(a)
      PROVE  SpoolInv'
  <2>1. Queued' = Queued /\ saving' = saving
    BY <1>a, <1>6, SnapsKept DEF Capture, handoff
  <2>2. /\ local'.spool = cur /\ cur \in charged /\ spools' = spools \cup {cur}
        /\ \A l \in Loader : loan[l] # cur
    BY <1>a, <1>6 DEF Capture, ProducerInv, LoaderInv
  <2> QED
    BY <1>6, <2>1, <2>2 DEF SpoolInv, SpoolsOwned, Capture, budget, handoff, restores, control
<1>7. CASE CaptureFails
  <2>1. Queued' = Queued /\ saving' = saving
    BY <1>a, <1>7, SnapsKept DEF CaptureFails, FailStore, budget, handoff, restores
  <2> QED
    BY <1>a, <1>7, <2>1
    DEF SpoolInv, SpoolsOwned, ProducerInv, LoaderInv, CaptureFails, FailStore, TypeOK, budget,
        handoff, restores
<1>8. CASE EnsureSaver
  <2>1. Queued' = Queued /\ saving' = saving
    BY <1>a, <1>8, SnapsKept DEF EnsureSaver, budget, restores, control
  <2> QED
    BY <1>a, <1>8, <2>1
    DEF SpoolInv, SpoolsOwned, ProducerInv, LoaderInv, EnsureSaver, TypeOK, budget, restores,
        control
<1>9. CASE NoSaver
  <2>1. Queued' = Queued /\ saving' = saving
    BY <1>a, <1>9, SnapsKept DEF NoSaver, FailStore, budget, handoff, restores
  <2> QED
    BY <1>a, <1>9, <2>1
    DEF SpoolInv, SpoolsOwned, ProducerInv, LoaderInv, NoSaver, FailStore, TypeOK, budget,
        handoff, restores
<1>10. CASE Enqueue
  <2>1. Queued' = Queued \cup {local} /\ local.spool \in spools /\ spools' = spools
    BY <1>10, SnapsPut DEF SpoolInv, Enqueue
  <2> QED
    BY <1>10, <2>1 DEF SpoolInv, SpoolsOwned, Enqueue, budget, restores
<1>11. CASE EndPlans
  <2>1. Queued' = Queued /\ saving' = saving
    BY <1>a, <1>11, SnapsKept DEF EndPlans, budget, handoff, restores, control
  <2> QED
    BY <1>a, <1>11, <2>1
    DEF SpoolInv, SpoolsOwned, ProducerInv, LoaderInv, EndPlans, TypeOK, budget, handoff,
        restores, control
<1>12. ASSUME NEW t \in Res, ReturnTicket(t)
      PROVE  SpoolInv'
  <2>1. Queued' = Queued /\ saving' = saving /\ saver' = saver /\ prod' = "leave"
    BY <1>a, <1>12, SnapsKept DEF ReturnTicket, handoff
  <2>2. CASE t \in queued
    BY <1>12, <2>1, <2>2 DEF SpoolInv, SpoolsOwned, ReturnTicket, budget, restores
  <2>3. CASE t \notin queued
    <3>1. \A s \in Snaps : s.spool # t
      BY <1>a, <1>12, <2>3 DEF ReturnTicket, SaverInv
    <3>2. \A s \in Queued : s.spool # t
      BY <3>1 DEF Snaps, Queued
    <3>3. saver = "committing" => saving.spool # t
      BY <1>a, <3>1 DEF SaverInv, Snaps
    <3> QED
      BY <1>12, <2>1, <2>3, <3>2, <3>3 DEF SpoolInv, SpoolsOwned, ReturnTicket, Release, restores
  <2> QED
    BY <2>2, <2>3
<1>13. CASE EndSave
  <2>1. Queued' = Queued /\ saving' = saving
    BY <1>a, <1>13, SnapsKept DEF EndSave, budget, handoff, restores, control
  <2> QED
    BY <1>a, <1>13, <2>1
    DEF SpoolInv, SpoolsOwned, ProducerInv, LoaderInv, EndSave, TypeOK, budget, handoff,
        restores, control
<1>14. CASE SaverGets
  <2>1. Head(queue) # None => Head(queue) \in Queued
    BY <1>a, <1>14, GetEntry DEF SaverGets
  <2> QED
    BY <1>a, <1>14, <2>1, SnapsGet
    DEF SpoolInv, SpoolsOwned, SaverGets, budget, producer, restores, control
<1>15. CASE SaverCommits
  <2>1. Queued' = Queued /\ saving' = saving /\ spools' = spools \ {saving.spool}
    BY <1>a, <1>15, SnapsKept DEF SaverCommits
  <2>2. saving # None /\ saving \in Snaps
    BY <1>a, <1>15 DEF SaverCommits, SaverInv, Snaps
  <2>3. \A s \in Queued : s.spool # saving.spool
    BY <1>a, <2>2 DEF SaverInv
  <2>4. prod \in {"start", "enqueue"} => local.spool # saving.spool
    BY <1>a, <2>2 DEF SaverInv, ProducerInv
  <2> QED
    BY <1>a, <1>15, <2>1, <2>3, <2>4
    DEF SpoolInv, SpoolsOwned, SaverCommits, budget, producer, restores
<1>16. CASE SaverReleases
  <2>1. Queued' = Queued /\ prod' = "idle" /\ saver' \in {"died", "waiting"}
    BY <1>16, SnapsReturned DEF SaverReleases, producer
  <2>2. /\ charged \ {saving.spool} \subseteq charged'
        /\ spools' = spools \ {saving.spool} \/ (spools' = spools /\ charged' = charged)
    BY <1>16, SnapsReturned DEF SaverReleases, Release, budget
  <2>3. \A s \in Queued : s.spool # saving.spool
    BY <1>16, SnapsReturned
  <2> QED
    BY <1>16, <2>1, <2>2, <2>3 DEF SpoolInv, SpoolsOwned, SaverReleases, restores
<1>17. ASSUME NEW l \in Loader, NEW r \in Res, ReserveRestore(l, r)
      PROVE  SpoolInv'
  <2>1. Queued' = Queued /\ saving' = saving
    BY <1>a, <1>17, SnapsKept DEF ReserveRestore, producer, handoff, control
  <2> QED
    BY <1>a, <1>17, <2>1
    DEF SpoolInv, SpoolsOwned, ProducerInv, LoaderInv, ReserveRestore, TryReserve, TypeOK,
        producer, handoff, control
<1>18. ASSUME NEW l \in Loader, NEW ok \in BOOLEAN, OpenSnapshot(l, ok)
      PROVE  SpoolInv'
  <2>1. Queued' = Queued /\ saving' = saving
    BY <1>a, <1>18, SnapsKept DEF OpenSnapshot, budget, producer, handoff, control
  <2> QED
    BY <1>a, <1>18, <2>1
    DEF SpoolInv, SpoolsOwned, ProducerInv, LoaderInv, OpenSnapshot, TypeOK, budget, producer,
        handoff, control
<1>19. ASSUME NEW l \in Loader, Placed(l)
      PROVE  SpoolInv'
  <2>1. Queued' = Queued /\ saving' = saving
    BY <1>a, <1>19, SnapsKept DEF Placed, budget, producer, handoff, control
  <2> QED
    BY <1>a, <1>19, <2>1
    DEF SpoolInv, SpoolsOwned, ProducerInv, LoaderInv, Placed, TypeOK, budget, producer,
        handoff, control
<1>20. ASSUME NEW l \in Loader, Fence(l)
      PROVE  SpoolInv'
  <2>1. Queued' = Queued /\ saving' = saving /\ spools' = spools /\ charged' = charged \ {loan[l]}
    BY <1>a, <1>20, SnapsKept DEF Fence, handoff, Release
  <2>2. loan[l] \notin spools
    BY <1>a, <1>20 DEF SpoolInv, Fence, LoaderInv
  <2>3. \A m \in Loader : loan'[m] \in {loan[m], NoRes}
    BY <1>a, <1>20 DEF Fence, EndRestore, TypeOK
  <2> QED
    BY <1>20, <2>1, <2>2, <2>3 DEF SpoolInv, SpoolsOwned, Fence, producer, handoff
<1>21. ASSUME NEW l \in Loader, FenceFails(l)
      PROVE  SpoolInv'
  <2>1. Queued' = Queued /\ saving' = saving
    BY <1>a, <1>21, SnapsKept DEF FenceFails, EndRestore, budget, producer, handoff, control
  <2> QED
    BY <1>a, <1>21, <2>1
    DEF SpoolInv, SpoolsOwned, ProducerInv, LoaderInv, FenceFails, EndRestore, TypeOK, budget,
        producer, handoff, control
<1>22. CASE BeginShutdown
  <2>1. Queued' = Queued /\ saving' = saving
    BY <1>a, <1>22, SnapsKept DEF BeginShutdown, budget, producer, handoff, restores
  <2> QED
    BY <1>a, <1>22, <2>1
    DEF SpoolInv, SpoolsOwned, ProducerInv, LoaderInv, BeginShutdown, TypeOK, budget, producer,
        handoff, restores
<1>23. CASE SendSentinel
  BY <1>a, <1>23, SnapsSentinel DEF SpoolInv, SpoolsOwned, SendSentinel, budget, producer, restores
<1>24. ASSUME UNCHANGED vars
      PROVE  SpoolInv'
  <2>1. Queued' = Queued /\ saving' = saving
    BY <1>a, <1>24, SnapsKept
    DEF vars, FailStore, EndRestore, vars, budget, producer, handoff, restores, control
  <2> QED
    BY <1>a, <1>24, <2>1
    DEF SpoolInv, SpoolsOwned, ProducerInv, LoaderInv, vars, FailStore, EndRestore, TryReserve,
        Release, TypeOK, vars, budget, producer, handoff, restores, control
<1> QED
  BY <1>1, <1>2, <1>3, <1>4, <1>5, <1>6, <1>7, <1>8, <1>9, <1>10, <1>11, <1>12, <1>13, <1>14, <1>15, <1>16, <1>17, <1>18, <1>19, <1>20, <1>21, <1>22, <1>23, <1>24
  DEF Next, Producer, Saver, Restore, Shutdown

-----------------------------------------------------------------------------

\* While the saver lives, whatever is charged has an owner that returns it.
THEOREM NothingIsOrphaned == Spec => []NothingOrphaned
<1>1. Init => OrphanInv
  BY DEF Init, OrphanInv, OwnerIds, Snaps, Queued
<1>2. BudgetInv /\ BudgetInv' /\ OrphanInv /\ [Next]_vars => OrphanInv'
  BY StepOrphan
<1>3. BudgetInv /\ OrphanInv => NothingOrphaned
  <2> SUFFICES ASSUME BudgetInv, OrphanInv, saver # "died", NEW r \in charged
               PROVE  r \in InUse \cup produced
    BY DEF NothingOrphaned
  <2>1. r \in OwnerIds /\ r # NoRes
    BY ResAssumption DEF OrphanInv, BudgetInv, TypeOK
  <2>2. Snaps \subseteq Referenced
    BY DEF Snaps, Queued, Referenced
  <2> QED
    BY <2>1, <2>2 DEF OwnerIds, InUse
<1> QED
  BY <1>1, <1>2, <1>3, BudgetInvariant, PTL DEF Spec

\* The staging file of a snapshot outlives every path to its commit, and each
\* open file has a charged ticket that closes it.
THEOREM SpoolsAreOwned == Spec => []SpoolsOwned
<1>1. Init => SpoolInv
  BY DEF Init, SpoolInv, SpoolsOwned, Queued
<1>2. BudgetInv /\ SpoolInv /\ [Next]_vars => SpoolInv'
  BY StepSpool
<1>3. SpoolInv => SpoolsOwned
  BY DEF SpoolInv
<1> QED
  BY <1>1, <1>2, <1>3, BudgetInvariant, PTL DEF Spec

-----------------------------------------------------------------------------

\* The claim on the store, with the finiteness its count needs.
ClaimInv == OneStoreInFlight /\ IsFiniteSet(Queued)

LEMMA StepClaim == BudgetInv /\ ClaimInv /\ [Next]_vars => ClaimInv'
<1> SUFFICES ASSUME BudgetInv, ClaimInv, [Next]_vars PROVE ClaimInv'
  OBVIOUS
<1>a. TypeOK /\ ProducerInv /\ SaverInv /\ Distinct(queue)
  BY DEF BudgetInv, Owners, SaverInv
<1>b. IsFiniteSet(Queued) /\ Cardinality(Queued) \in Nat /\ inflight \in {0, 1}
  BY <1>a, FS_CardinalityType DEF ClaimInv, TypeOK
<1>1. CASE BeginSave
  <2>1. Queued' = Queued
    BY <1>a, <1>1, SnapsKept DEF BeginSave, budget, handoff, restores, control
  <2> QED
    BY <1>b, <1>1, <2>1
    DEF ClaimInv, OneStoreInFlight, BeginSave, budget, handoff, restores, control
<1>2. CASE Skip
  <2>1. Queued' = Queued
    BY <1>a, <1>2, SnapsKept DEF Skip, budget, handoff, restores, control
  <2> QED
    BY <1>b, <1>2, <2>1 DEF ClaimInv, OneStoreInFlight, Skip, budget, handoff, restores, control
<1>3. CASE Admit
  <2>1. Queued' = Queued
    BY <1>a, <1>3, SnapsKept DEF Admit, budget, handoff, restores
  <2> QED
    BY <1>b, <1>3, <2>1 DEF ClaimInv, OneStoreInFlight, Admit, budget, handoff, restores
<1>4. ASSUME NEW r \in Res, ReserveStore(r)
      PROVE  ClaimInv'
  <2>1. Queued' = Queued
    BY <1>a, <1>4, SnapsKept DEF ReserveStore, handoff, restores, control
  <2> QED
    BY <1>b, <1>4, <2>1 DEF ClaimInv, OneStoreInFlight, ReserveStore, handoff, restores, control
<1>5. ASSUME NEW r \in Res, RefuseStore(r)
      PROVE  ClaimInv'
  <2>1. Queued' = Queued
    BY <1>a, <1>5, SnapsKept DEF RefuseStore, FailStore, budget, handoff, restores
  <2> QED
    BY <1>b, <1>5, <2>1
    DEF ClaimInv, OneStoreInFlight, RefuseStore, FailStore, budget, handoff, restores
<1>6. ASSUME NEW a \in Addr, Capture(a)
      PROVE  ClaimInv'
  <2>1. Queued' = Queued
    BY <1>a, <1>6, SnapsKept DEF Capture, budget, handoff, restores, control
  <2> QED
    BY <1>b, <1>6, <2>1 DEF ClaimInv, OneStoreInFlight, Capture, budget, handoff, restores, control
<1>7. CASE CaptureFails
  <2>1. Queued' = Queued
    BY <1>a, <1>7, SnapsKept DEF CaptureFails, FailStore, budget, handoff, restores
  <2> QED
    BY <1>b, <1>7, <2>1
    DEF ClaimInv, OneStoreInFlight, CaptureFails, FailStore, budget, handoff, restores
<1>8. CASE EnsureSaver
  <2>1. Queued' = Queued
    BY <1>a, <1>8, SnapsKept DEF EnsureSaver, budget, restores, control
  <2> QED
    BY <1>b, <1>8, <2>1 DEF ClaimInv, OneStoreInFlight, EnsureSaver, budget, restores, control
<1>9. CASE NoSaver
  <2>1. Queued' = Queued
    BY <1>a, <1>9, SnapsKept DEF NoSaver, FailStore, budget, handoff, restores
  <2> QED
    BY <1>b, <1>9, <2>1
    DEF ClaimInv, OneStoreInFlight, NoSaver, FailStore, budget, handoff, restores
<1>10. CASE Enqueue
  <2>1. Queued' = Queued \cup {local} /\ local \notin Queued
    <3>1. \A s \in Queued : s \in Snaps
      BY DEF Snaps, Queued
    <3> QED
      BY <1>10, <3>1, SnapsPut
  <2>2. IsFiniteSet(Queued') /\ Cardinality(Queued') = Cardinality(Queued) + 1
    BY <1>b, <2>1, FS_AddElement
  <2> QED
    BY <1>b, <1>10, <2>2 DEF ClaimInv, OneStoreInFlight, Enqueue, control
<1>11. CASE EndPlans
  <2>1. Queued' = Queued
    BY <1>a, <1>11, SnapsKept DEF EndPlans, budget, handoff, restores, control
  <2> QED
    BY <1>b, <1>11, <2>1
    DEF ClaimInv, OneStoreInFlight, EndPlans, budget, handoff, restores, control
<1>12. ASSUME NEW t \in Res, ReturnTicket(t)
      PROVE  ClaimInv'
  <2>1. Queued' = Queued
    BY <1>a, <1>12, SnapsKept DEF ReturnTicket, budget, handoff, restores, control
  <2> QED
    BY <1>b, <1>12, <2>1
    DEF ClaimInv, OneStoreInFlight, ReturnTicket, budget, handoff, restores, control
<1>13. CASE EndSave
  <2>1. Queued' = Queued
    BY <1>a, <1>13, SnapsKept DEF EndSave, budget, handoff, restores, control
  <2> QED
    BY <1>b, <1>13, <2>1 DEF ClaimInv, OneStoreInFlight, EndSave, budget, handoff, restores, control
<1>14. CASE SaverGets
  <2>1. /\ Queued = Queued' \cup ({Head(queue)} \ {None})
        /\ Head(queue) # None => Head(queue) \notin Queued'
    BY <1>a, <1>14, GetEntry DEF SaverGets
  <2>2. CASE Head(queue) = None
    <3>1. Queued' = Queued
      BY <2>1, <2>2
    <3> QED
      BY <1>b, <1>14, <2>2, <3>1 DEF ClaimInv, OneStoreInFlight, SaverGets, producer, control
  <2>3. CASE Head(queue) # None
    <3>1. Head(queue) \in Queued /\ Queued' = Queued \ {Head(queue)}
      BY <2>1, <2>3
    <3>2. IsFiniteSet(Queued') /\ Cardinality(Queued') = Cardinality(Queued) - 1
      BY <1>b, <3>1, FS_RemoveElement
    <3>3. prod' = prod /\ inflight' = inflight /\ saver = "waiting" /\ saver' = "committing"
      BY <1>14, <2>3 DEF SaverGets, producer, control
    <3> QED
      BY <1>b, <3>2, <3>3 DEF ClaimInv, OneStoreInFlight
  <2> QED
    BY <2>2, <2>3
<1>15. CASE SaverCommits
  <2>1. Queued' = Queued
    BY <1>a, <1>15, SnapsKept DEF SaverCommits, budget, producer, restores
  <2> QED
    BY <1>b, <1>15, <2>1 DEF ClaimInv, OneStoreInFlight, SaverCommits, budget, producer, restores
<1>16. CASE SaverReleases
  BY <1>b, <1>16, SnapsReturned DEF ClaimInv, OneStoreInFlight, SaverReleases, producer, control
<1>17. ASSUME NEW l \in Loader, NEW r \in Res, ReserveRestore(l, r)
      PROVE  ClaimInv'
  <2>1. Queued' = Queued
    BY <1>a, <1>17, SnapsKept DEF ReserveRestore, producer, handoff, control
  <2> QED
    BY <1>b, <1>17, <2>1 DEF ClaimInv, OneStoreInFlight, ReserveRestore, producer, handoff, control
<1>18. ASSUME NEW l \in Loader, NEW ok \in BOOLEAN, OpenSnapshot(l, ok)
      PROVE  ClaimInv'
  <2>1. Queued' = Queued
    BY <1>a, <1>18, SnapsKept DEF OpenSnapshot, budget, producer, handoff, control
  <2> QED
    BY <1>b, <1>18, <2>1
    DEF ClaimInv, OneStoreInFlight, OpenSnapshot, budget, producer, handoff, control
<1>19. ASSUME NEW l \in Loader, Placed(l)
      PROVE  ClaimInv'
  <2>1. Queued' = Queued
    BY <1>a, <1>19, SnapsKept DEF Placed, budget, producer, handoff, control
  <2> QED
    BY <1>b, <1>19, <2>1 DEF ClaimInv, OneStoreInFlight, Placed, budget, producer, handoff, control
<1>20. ASSUME NEW l \in Loader, Fence(l)
      PROVE  ClaimInv'
  <2>1. Queued' = Queued
    BY <1>a, <1>20, SnapsKept DEF Fence, EndRestore, producer, handoff, control
  <2> QED
    BY <1>b, <1>20, <2>1
    DEF ClaimInv, OneStoreInFlight, Fence, EndRestore, producer, handoff, control
<1>21. ASSUME NEW l \in Loader, FenceFails(l)
      PROVE  ClaimInv'
  <2>1. Queued' = Queued
    BY <1>a, <1>21, SnapsKept DEF FenceFails, EndRestore, budget, producer, handoff, control
  <2> QED
    BY <1>b, <1>21, <2>1
    DEF ClaimInv, OneStoreInFlight, FenceFails, EndRestore, budget, producer, handoff, control
<1>22. CASE BeginShutdown
  <2>1. Queued' = Queued
    BY <1>a, <1>22, SnapsKept DEF BeginShutdown, budget, producer, handoff, restores
  <2> QED
    BY <1>b, <1>22, <2>1
    DEF ClaimInv, OneStoreInFlight, BeginShutdown, budget, producer, handoff, restores
<1>23. CASE SendSentinel
  BY <1>b, <1>23, SnapsSentinel DEF ClaimInv, OneStoreInFlight, SendSentinel, producer
<1>24. ASSUME UNCHANGED vars
      PROVE  ClaimInv'
  <2>1. Queued' = Queued
    BY <1>a, <1>24, SnapsKept
    DEF vars, FailStore, EndRestore, vars, budget, producer, handoff, restores, control
  <2> QED
    BY <1>b, <1>24, <2>1
    DEF ClaimInv, OneStoreInFlight, vars, FailStore, EndRestore, vars, budget, producer,
        handoff, restores, control
<1> QED
  BY <1>1, <1>2, <1>3, <1>4, <1>5, <1>6, <1>7, <1>8, <1>9, <1>10, <1>11, <1>12, <1>13, <1>14, <1>15, <1>16, <1>17, <1>18, <1>19, <1>20, <1>21, <1>22, <1>23, <1>24
  DEF Next, Producer, Saver, Restore, Shutdown

LEMMA InitClaim == Init => ClaimInv
<1> SUFFICES ASSUME Init PROVE ClaimInv
  OBVIOUS
<1>1. Queued = {}
  BY DEF Init, Queued
<1>2. IsFiniteSet(Queued) /\ Cardinality(Queued) = 0
  BY <1>1, FS_EmptySet
<1> QED
  BY <1>2 DEF Init, ClaimInv, OneStoreInFlight

\* There is never more than the one store that holds the claim, although the
\* saver gives the claim up before it has given back the budget.
THEOREM StoresAreSerial == Spec => []OneStoreInFlight
<1>1. ClaimInv => OneStoreInFlight
  BY DEF ClaimInv
<1> QED
  BY <1>1, InitClaim, StepClaim, BudgetInvariant, PTL DEF Spec

-----------------------------------------------------------------------------

\* No sentinel before shutdown sends it, and none but it after a clean wait.
NoSentinel(q) == \A i \in 1..Len(q) : q[i] # None

DrainInv ==
  /\ accepting <=> stop = "no"
  /\ stop \in {"no", "waiting"} => saver # "exited" /\ NoSentinel(queue)
  /\ stop = "sent" => /\ inflight = 0
                      /\ queue \in {<<>>, <<None>>}
                      /\ saver = "exited" => queue = <<>>

LEMMA StepDrain == BudgetInv /\ ClaimInv /\ DrainInv /\ [Next]_vars => DrainInv'
<1> SUFFICES ASSUME BudgetInv, ClaimInv, DrainInv, [Next]_vars PROVE DrainInv'
  OBVIOUS
<1>a. queue \in Seq(Snapshot \cup {None}) /\ inflight \in {0, 1} /\ Cardinality(Queued) \in Nat
  BY FS_CardinalityType DEF BudgetInv, TypeOK, ClaimInv
<1>b. inflight = 0 => Queued = {} /\ prod \notin {"reserve", "capture", "start", "enqueue"}
  <2>1. inflight = 0 => Cardinality(Queued) = 0 /\ prod \notin {"reserve", "capture", "start", "enqueue"}
    BY <1>a DEF ClaimInv, OneStoreInFlight
  <2> QED
    BY <2>1, FS_EmptySet DEF ClaimInv
<1>c. inflight = 0 /\ NoSentinel(queue) => queue = <<>>
  <2> SUFFICES ASSUME inflight = 0, NoSentinel(queue) PROVE Len(queue) = 0
    BY <1>a
  <2>1. \A i \in 1..Len(queue) : FALSE
    BY <1>b DEF NoSentinel, Queued
  <2>2. Len(queue) \in Nat
    BY <1>a
  <2> QED
    BY <2>1, <2>2
<1>1. CASE BeginSave
  BY <1>b, <1>1 DEF DrainInv, BeginSave, budget, handoff, restores, control
<1>2. CASE Skip
  BY <1>b, <1>2 DEF DrainInv, Skip, budget, handoff, restores, control
<1>3. CASE Admit
  BY <1>b, <1>3 DEF DrainInv, Admit, budget, handoff, restores
<1>4. ASSUME NEW r \in Res, ReserveStore(r)
      PROVE  DrainInv'
  BY <1>b, <1>4 DEF DrainInv, ReserveStore, handoff, restores, control
<1>5. ASSUME NEW r \in Res, RefuseStore(r)
      PROVE  DrainInv'
  BY <1>b, <1>5 DEF DrainInv, RefuseStore, FailStore, budget, handoff, restores
<1>6. ASSUME NEW a \in Addr, Capture(a)
      PROVE  DrainInv'
  BY <1>b, <1>6 DEF DrainInv, Capture, budget, handoff, restores, control
<1>7. CASE CaptureFails
  BY <1>b, <1>7 DEF DrainInv, CaptureFails, FailStore, budget, handoff, restores
<1>8. CASE EnsureSaver
  BY <1>b, <1>8 DEF DrainInv, EnsureSaver, budget, restores, control
<1>9. CASE NoSaver
  BY <1>b, <1>9 DEF DrainInv, NoSaver, FailStore, budget, handoff, restores
<1>10. CASE Enqueue
  <2>1. stop # "sent"
    BY <1>b, <1>10 DEF DrainInv, Enqueue
  <2>2. local # None /\ local \in Snapshot \cup {None}
    BY <1>10 DEF Enqueue, BudgetInv, Owners, ProducerInv, TypeOK
  <2>3. NoSentinel(queue) => NoSentinel(queue')
    BY <1>a, <1>10, <2>2 DEF Enqueue, NoSentinel
  <2> QED
    BY <1>10, <2>1, <2>3 DEF DrainInv, Enqueue, control
<1>11. CASE EndPlans
  BY <1>b, <1>11 DEF DrainInv, EndPlans, budget, handoff, restores, control
<1>12. ASSUME NEW t \in Res, ReturnTicket(t)
      PROVE  DrainInv'
  BY <1>b, <1>12 DEF DrainInv, ReturnTicket, budget, handoff, restores, control
<1>13. CASE EndSave
  BY <1>b, <1>13 DEF DrainInv, EndSave, budget, handoff, restores, control
<1>14. CASE SaverGets
  <2>1. CASE stop = "sent"
    <3>1. queue = <<None>>
      BY <1>14, <2>1 DEF DrainInv, SaverGets
    <3>2. queue' = <<>>
      BY <1>14, <3>1 DEF SaverGets
    <3> QED
      BY <1>14, <2>1, <3>2 DEF DrainInv, SaverGets, control
  <2>2. CASE stop \in {"no", "waiting"}
    <3>1. NoSentinel(queue)
      BY <2>2 DEF DrainInv
    <3>2. Head(queue) # None /\ NoSentinel(queue')
      BY <1>a, <1>14, <3>1 DEF SaverGets, NoSentinel
    <3> QED
      BY <1>14, <2>2, <3>2 DEF DrainInv, SaverGets, control
  <2>3. CASE stop \notin {"no", "waiting", "sent"}
    BY <1>14, <2>3 DEF DrainInv, SaverGets, control
  <2> QED
    BY <2>1, <2>2, <2>3
<1>15. CASE SaverCommits
  BY <1>b, <1>15 DEF DrainInv, SaverCommits, budget, producer, restores
<1>16. CASE SaverReleases
  BY <1>b, <1>16 DEF DrainInv, SaverReleases, budget, producer, restores, control
<1>17. ASSUME NEW l \in Loader, NEW r \in Res, ReserveRestore(l, r)
      PROVE  DrainInv'
  BY <1>b, <1>17 DEF DrainInv, ReserveRestore, producer, handoff, control
<1>18. ASSUME NEW l \in Loader, NEW ok \in BOOLEAN, OpenSnapshot(l, ok)
      PROVE  DrainInv'
  BY <1>b, <1>18 DEF DrainInv, OpenSnapshot, budget, producer, handoff, control
<1>19. ASSUME NEW l \in Loader, Placed(l)
      PROVE  DrainInv'
  BY <1>b, <1>19 DEF DrainInv, Placed, budget, producer, handoff, control
<1>20. ASSUME NEW l \in Loader, Fence(l)
      PROVE  DrainInv'
  BY <1>b, <1>20 DEF DrainInv, Fence, EndRestore, producer, handoff, control
<1>21. ASSUME NEW l \in Loader, FenceFails(l)
      PROVE  DrainInv'
  BY <1>b, <1>21 DEF DrainInv, FenceFails, EndRestore, budget, producer, handoff, control
<1>22. CASE BeginShutdown
  BY <1>b, <1>22 DEF DrainInv, BeginShutdown, budget, producer, handoff, restores
<1>23. CASE SendSentinel
  <2>1. CASE inflight = 0
    <3>1. queue = <<>>
      BY <1>c, <1>23, <2>1 DEF DrainInv, SendSentinel
    <3>2. queue' \in {<<>>, <<None>>}
      BY <1>23, <3>1 DEF SendSentinel
    <3> QED
      BY <1>23, <2>1, <3>2 DEF DrainInv, SendSentinel
  <2>2. CASE inflight # 0
    BY <1>23, <2>2 DEF DrainInv, SendSentinel
  <2> QED
    BY <2>1, <2>2
<1>24. ASSUME UNCHANGED vars
      PROVE  DrainInv'
  BY <1>b, <1>24
  DEF DrainInv, vars, FailStore, EndRestore, vars, budget, producer, handoff, restores, control
<1> QED
  BY <1>1, <1>2, <1>3, <1>4, <1>5, <1>6, <1>7, <1>8, <1>9, <1>10, <1>11, <1>12, <1>13, <1>14, <1>15, <1>16, <1>17, <1>18, <1>19, <1>20, <1>21, <1>22, <1>23, <1>24
  DEF Next, Producer, Saver, Restore, Shutdown

\* A shutdown that did not time out leaves no snapshot unsaved and no budget of
\* a store charged when the saver has ended.
THEOREM ShutdownDrains == Spec => []DrainedBeforeExit
<1>1. Init => DrainInv
  BY DEF Init, DrainInv, NoSentinel
<1>2. BudgetInv /\ ClaimInv /\ DrainInv /\ [Next]_vars => DrainInv'
  BY StepDrain
<1>3. BudgetInv /\ OrphanInv /\ DrainInv => DrainedBeforeExit
  <2> SUFFICES ASSUME BudgetInv, OrphanInv, DrainInv, stop = "sent", saver = "exited"
               PROVE  /\ queue = <<>>
                      /\ charged \subseteq produced \cup {loan[l] : l \in Loader} \cup stuck
    BY DEF DrainedBeforeExit
  <2>1. queue = <<>> /\ saving = None
    BY DEF DrainInv, BudgetInv, Owners, SaverInv
  <2>2. Snaps = {}
    BY <2>1 DEF Snaps, Queued
  <2> QED
    BY <2>1, <2>2 DEF OrphanInv, OwnerIds
<1>4. Spec => []OrphanInv
  <2>1. Init => OrphanInv
    BY DEF Init, OrphanInv, OwnerIds, Snaps, Queued
  <2> QED
    BY <2>1, StepOrphan, BudgetInvariant, PTL DEF Spec
<1>5. Spec => []ClaimInv
  <2>1. Init => ClaimInv
    BY InitClaim
  <2> QED
    BY <2>1, StepClaim, BudgetInvariant, PTL DEF Spec
<1> QED
  BY <1>1, <1>2, <1>3, <1>4, <1>5, BudgetInvariant, PTL DEF Spec

-----------------------------------------------------------------------------

\* A snapshot finds its own ticket: while the saver may still pop it, nothing
\* has dropped the entry at its address.  An address is used twice within a call
\* only after a store of that call has failed, and as long as threads start,
\* nothing is queued in that call any more.
AliveInv ==
  /\ saver # "died"
  /\ saver = "none" => Snaps = {} /\ prod # "enqueue"
  /\ saver # "exited" => \A s \in Snaps : tickets[s.id] = s.spool
  /\ prod # "leave" => \A t \in Res : idOf[t] # NoAddr => t \in produced
  /\ SaverAlive \/ (saver = "none" /\ accepting) =>
       \A t \in produced \ queued :
         idOf[t] # NoAddr => prod \in {"start", "enqueue"} /\ local.spool = t

LEMMA StepAlive ==
  StartMayFail = FALSE /\ BudgetInv /\ AliveInv /\ [Next]_vars => AliveInv'
<1> SUFFICES ASSUME StartMayFail = FALSE, BudgetInv, AliveInv, [Next]_vars PROVE AliveInv'
  OBVIOUS
<1>a. TypeOK /\ ProducerInv /\ SaverInv /\ Distinct(queue)
  BY DEF BudgetInv, Owners, SaverInv
<1> USE NoneIsNoSnapshot, ResAssumption
<1>1. CASE BeginSave
  BY <1>a, <1>1, SnapsKept
  DEF AliveInv, SaverAlive, ProducerInv, BeginSave, TypeOK, budget, handoff, restores, control
<1>2. CASE Skip
  BY <1>a, <1>2, SnapsKept
  DEF AliveInv, SaverAlive, Skip, TypeOK, budget, handoff, restores, control
<1>3. CASE Admit
  BY <1>a, <1>3, SnapsKept DEF AliveInv, SaverAlive, Admit, TypeOK, budget, handoff, restores
<1>4. ASSUME NEW r \in Res, ReserveStore(r)
      PROVE  AliveInv'
  BY <1>a, <1>4, SnapsKept
  DEF AliveInv, SaverAlive, ProducerInv, ReserveStore, TryReserve, TypeOK, handoff, restores,
      control
<1>5. ASSUME NEW r \in Res, RefuseStore(r)
      PROVE  AliveInv'
  BY <1>a, <1>5, SnapsKept
  DEF AliveInv, SaverAlive, RefuseStore, FailStore, TypeOK, budget, handoff, restores
<1>6. ASSUME NEW a \in Addr, Capture(a)
      PROVE  AliveInv'
  <2>1. /\ local' = [id |-> a, spool |-> cur] /\ local'.spool = cur
        /\ tickets'[a] = cur /\ \A b \in Addr \ {a} : tickets'[b] = tickets[b]
        /\ idOf'[cur] = a /\ \A t \in Res \ {cur} : idOf'[t] = idOf[t]
        /\ cur \in produced /\ cur \in Res /\ prod' = "start"
        /\ UNCHANGED <<produced, queued, saver, accepting>>
    BY <1>a, <1>6 DEF Capture, ProducerInv, Snapshot, TypeOK, handoff, control
  <2>2. \A s \in Snaps : s.id # a /\ s \in Snapshot /\ s.id \in Addr
    BY <1>a, <1>6 DEF Capture, Free, Referenced, Snaps, Queued, TypeOK, Snapshot
  <2>3. Snaps' = Snaps
    BY <1>a, <1>6, SnapsKept DEF Capture, handoff
  <2>4. saver' # "exited" => \A s \in Snaps' : tickets'[s.id] = s.spool
    BY <2>1, <2>2, <2>3 DEF AliveInv
  <2>5. \A t \in produced' \ queued' : t # cur => idOf'[t] = idOf[t]
    BY <1>a, <2>1 DEF TypeOK
  <2>6. SaverAlive' \/ (saver' = "none" /\ accepting') =>
          \A t \in produced' \ queued' :
            idOf'[t] # NoAddr => prod' \in {"start", "enqueue"} /\ local'.spool = t
    BY <1>6, <2>1, <2>5 DEF AliveInv, SaverAlive, Capture
  <2> QED
    BY <1>6, <2>1, <2>3, <2>4, <2>6 DEF AliveInv, Capture
<1>7. CASE CaptureFails
  BY <1>a, <1>7, SnapsKept
  DEF AliveInv, SaverAlive, CaptureFails, FailStore, TypeOK, budget, handoff, restores
<1>8. CASE EnsureSaver
  <2>1. Snaps' = Snaps
    BY <1>8 DEF EnsureSaver, Snaps, Queued
  <2> QED
    BY <1>a, <1>8, <2>1 DEF AliveInv, SaverAlive, EnsureSaver, TypeOK, budget, restores, control
<1>9. CASE NoSaver
  BY <1>a, <1>9, SnapsKept
  DEF AliveInv, SaverAlive, NoSaver, FailStore, TypeOK, budget, handoff, restores
<1>10. CASE Enqueue
  <2>1. /\ Snaps' = Snaps \cup {local} /\ queued' = queued \cup {local.spool}
        /\ tickets[local.id] = local.spool /\ tickets' = tickets
    BY <1>10, SnapsPut DEF Enqueue
  <2> QED
    BY <1>a, <1>10, <2>1 DEF AliveInv, SaverAlive, Enqueue, TypeOK, budget, restores, control
<1>11. CASE EndPlans
  BY <1>a, <1>11, SnapsKept
  DEF AliveInv, SaverAlive, EndPlans, TypeOK, budget, handoff, restores, control
<1>12. ASSUME NEW t \in Res, ReturnTicket(t)
      PROVE  AliveInv'
  <2>1. Snaps' = Snaps
    BY <1>a, <1>12, SnapsKept DEF ReturnTicket, handoff
  <2>2. \A s \in Snaps : s \in Snapshot /\ s.id \in Addr
    BY <1>a DEF Snaps, Queued, TypeOK, Snapshot
  <2>3. saver' # "exited" => \A s \in Snaps' : tickets'[s.id] = s.spool
    <3> SUFFICES ASSUME saver # "exited", NEW s \in Snaps PROVE tickets'[s.id] = s.spool
      BY <1>12, <2>1 DEF ReturnTicket, handoff
    <3>1. SaverAlive /\ tickets[s.id] = s.spool /\ s.id \in Addr
      BY <1>a, <2>2 DEF AliveInv, SaverAlive, TypeOK
    <3>2. t \in queued \/ idOf[t] = NoAddr
      BY <1>12, <3>1 DEF AliveInv, ReturnTicket
    <3> QED
      BY <1>12, <3>1, <3>2 DEF ReturnTicket
  <2> QED
    BY <1>12, <2>1, <2>3 DEF AliveInv, SaverAlive, ReturnTicket, handoff, control
<1>13. CASE EndSave
  <2>1. \A t \in Res : idOf'[t] = NoAddr
    BY <1>13 DEF EndSave
  <2> QED
    BY <1>a, <1>13, <2>1, SnapsKept
    DEF AliveInv, SaverAlive, EndSave, TypeOK, budget, handoff, restores, control
<1>14. CASE SaverGets
  BY <1>a, <1>14, SnapsGet
  DEF AliveInv, SaverAlive, SaverGets, TypeOK, budget, producer, restores, control
<1>15. CASE SaverCommits
  BY <1>a, <1>15, SnapsKept
  DEF AliveInv, SaverAlive, SaverInv, SaverCommits, TypeOK, budget, producer, restores
<1>16. CASE SaverReleases
  <2>1. /\ saving \in Snapshot /\ saving \in Snaps
        /\ Snaps' = Queued /\ Queued \subseteq Snaps
        /\ \A s \in Queued : s.id # saving.id
    BY <1>16, SnapsReturned
  <2>2. tickets[saving.id] # NoRes
    BY <1>16, <2>1 DEF AliveInv, SaverReleases, Snapshot
  <2>3. /\ saver' = "waiting" /\ tickets' = [tickets EXCEPT ![saving.id] = NoRes]
        /\ UNCHANGED <<producer, control>>
    BY <1>16, <2>2 DEF SaverReleases
  <2>4. \A s \in Snaps' : tickets'[s.id] = s.spool
    <3> SUFFICES ASSUME NEW s \in Queued PROVE tickets'[s.id] = s.spool
      BY <2>1
    <3>1. s \in Snaps /\ s.id # saving.id /\ s.id \in Addr
      BY <1>a, <2>1 DEF Queued, TypeOK, Snapshot
    <3> QED
      BY <1>a, <1>16, <2>3, <3>1 DEF AliveInv, SaverReleases, TypeOK
  <2> QED
    BY <1>16, <2>3, <2>4 DEF AliveInv, SaverAlive, SaverReleases, producer, control
<1>17. ASSUME NEW l \in Loader, NEW r \in Res, ReserveRestore(l, r)
      PROVE  AliveInv'
  BY <1>a, <1>17, SnapsKept DEF AliveInv, SaverAlive, ReserveRestore, TypeOK, producer, handoff, control
<1>18. ASSUME NEW l \in Loader, NEW ok \in BOOLEAN, OpenSnapshot(l, ok)
      PROVE  AliveInv'
  BY <1>a, <1>18, SnapsKept DEF AliveInv, SaverAlive, OpenSnapshot, TypeOK, producer, handoff, control
<1>19. ASSUME NEW l \in Loader, Placed(l)
      PROVE  AliveInv'
  BY <1>a, <1>19, SnapsKept DEF AliveInv, SaverAlive, Placed, TypeOK, producer, handoff, control
<1>20. ASSUME NEW l \in Loader, Fence(l)
      PROVE  AliveInv'
  BY <1>a, <1>20, SnapsKept DEF AliveInv, SaverAlive, Fence, TypeOK, producer, handoff, control
<1>21. ASSUME NEW l \in Loader, FenceFails(l)
      PROVE  AliveInv'
  BY <1>a, <1>21, SnapsKept DEF AliveInv, SaverAlive, FenceFails, TypeOK, producer, handoff, control
<1>22. CASE BeginShutdown
  BY <1>a, <1>22, SnapsKept DEF AliveInv, SaverAlive, BeginShutdown, TypeOK, producer, handoff
<1>23. CASE SendSentinel
  BY <1>a, <1>23, SnapsSentinel DEF AliveInv, SaverAlive, SendSentinel, TypeOK, producer
<1>24. ASSUME UNCHANGED vars
      PROVE  AliveInv'
  BY <1>a, <1>24, SnapsKept
  DEF AliveInv, SaverAlive, vars, TypeOK, budget, producer, handoff, restores, control
<1> QED
  BY <1>1, <1>2, <1>3, <1>4, <1>5, <1>6, <1>7, <1>8, <1>9, <1>10, <1>11, <1>12, <1>13, <1>14, <1>15, <1>16, <1>17, <1>18, <1>19, <1>20, <1>21, <1>22, <1>23, <1>24
  DEF Next, Producer, Saver, Restore, Shutdown

\* As long as threads start, the saver ends by the sentinel only: no snapshot it
\* pops has lost its ticket to another one that lay at the same address.
THEOREM SaverNeverDies ==
  ASSUME StartMayFail = FALSE
  PROVE  Spec => []SaverSurvives
<1>1. Init => AliveInv
  <2> SUFFICES ASSUME Init PROVE AliveInv
    OBVIOUS
  <2>1. Snaps = {}
    BY DEF Init, Snaps, Queued
  <2> QED
    BY <2>1 DEF Init, AliveInv, SaverAlive
<1>2. BudgetInv /\ AliveInv /\ [Next]_vars => AliveInv'
  BY StepAlive
<1>3. AliveInv => SaverSurvives
  BY DEF AliveInv, SaverSurvives
<1> QED
  BY <1>1, <1>2, <1>3, BudgetInvariant, PTL DEF Spec
=============================================================================
