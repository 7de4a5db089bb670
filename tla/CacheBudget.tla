----------------------------- MODULE CacheBudget -----------------------------
(***************************************************************************)
(* Host-memory admission of the SparkCache connector: MemoryBudget, and the  *)
(* ownership of its reservations in bounded_connector.py.  Three kinds of    *)
(* thread share the budget: the worker thread inside wait_for_save, the      *)
(* background saver, and the restore threads; a fourth may call shutdown.    *)
(*                                                                           *)
(* A reservation says that the bytes behind it may still be referenced.  The *)
(* code never knows that from one place: the producer's frame, the queue,    *)
(* the saver's frame and the CUDA stream each keep a snapshot or a buffer    *)
(* alive, and the saver finds the ticket by the ADDRESS of the snapshot.     *)
(***************************************************************************)
EXTENDS Integers, Sequences, FiniteSets

CONSTANTS
  Res,          \* MemoryReservation objects, one per budgeted operation
  Peak,         \* the peak each of them is charged
  Addr,         \* addresses a snapshot object may have: id(snapshot)
  Loader,       \* the restore threads
  MaxBytes,     \* spark_cache_cpu_budget_bytes
  MinAvailable, \* spark_cache_min_available_bytes
  Readings,     \* what /proc/meminfo may say; -1 is an unusable answer
  MaxPlans,     \* a bound: store plans in the metadata of one step
  StartMayFail, \* thread.start() may raise "can't start new thread"
  NoRes, NoAddr \* None

ASSUME ResAssumption      == IsFiniteSet(Res) /\ NoRes \notin Res /\ NoAddr \notin Addr
ASSUME PeakAssumption     == Peak \in [Res -> Nat \ {0}]
ASSUME LimitsAssumption   == MaxBytes \in Nat \ {0} /\ MinAvailable \in Nat \ {0}
ASSUME ReadingsAssumption == Readings \subseteq Int
ASSUME PlansAssumption    == MaxPlans \in Nat \ {0} /\ StartMayFail \in BOOLEAN

\* A snapshot object: its address, and the ticket whose spool it carries.
Snapshot == [id : Addr, spool : Res]
None     == [id |-> NoAddr, spool |-> NoRes]

VARIABLES
  reserved,   \* MemoryBudget._reserved_bytes
  charged,    \* the reservations whose _released is False
  prod,       \* where the producer is inside wait_for_save; "idle" outside
  plans,      \* store plans it has still to visit
  cur,        \* the ticket _snapshot_store is working on
  local,      \* the producer frame's local variable snapshot
  produced,   \* _cpu_producer_tickets
  tickets,    \* _cpu_store_tickets: address -> ticket
  idOf,       \* ticket.snapshot_id
  queued,     \* the tickets with queued = True
  spools,     \* the tickets whose spool file is open
  queue,      \* _store_queue; None is the sentinel of shutdown
  saver,      \* the thread _store_thread: "none" until it is started
  saving,     \* the saver's local variable snapshot
  inflight,   \* _store_inflight
  accepting,  \* _store_accepting
  stop,       \* progress of shutdown(); "late" once its wait timed out
  load,       \* what each restore thread is doing
  loan,       \* the reservation each restore thread holds
  stream,     \* _load_stream was created
  stuck       \* reservations left charged by a failing CUDA fence

budget   == <<reserved, charged>>
producer == <<prod, plans, cur, local, produced, idOf, queued>>
handoff  == <<queue, saver, saving>>
restores == <<load, loan, stream, stuck>>
control  == <<inflight, accepting, stop>>
vars == <<budget, producer, tickets, spools, handoff, restores, control>>

TypeOK ==
  /\ reserved \in Nat
  /\ charged \subseteq Res
  /\ prod \in {"idle", "next", "reserve", "capture", "start", "enqueue", "leave"}
  /\ plans \in 0..MaxPlans
  /\ cur \in Res \cup {NoRes}
  /\ local \in Snapshot \cup {None}
  /\ produced \subseteq Res
  /\ tickets \in [Addr -> Res \cup {NoRes}]
  /\ idOf \in [Res -> Addr \cup {NoAddr}]
  /\ queued \subseteq Res
  /\ spools \subseteq Res
  /\ queue \in Seq(Snapshot \cup {None})
  /\ saver \in {"none", "waiting", "committing", "committed", "exited", "died"}
  /\ saving \in Snapshot \cup {None}
  /\ inflight \in {0, 1}
  /\ accepting \in BOOLEAN
  /\ stop \in {"no", "waiting", "sent", "late"}
  /\ load \in [Loader -> {"idle", "open", "placing", "fence"}]
  /\ loan \in [Loader -> Res \cup {NoRes}]
  /\ stream \in BOOLEAN
  /\ stuck \subseteq Res

Init ==
  /\ reserved = 0 /\ charged = {}
  /\ prod = "idle" /\ plans = 0 /\ cur = NoRes /\ local = None /\ produced = {}
  /\ tickets = [a \in Addr |-> NoRes]
  /\ idOf = [r \in Res |-> NoAddr]
  /\ queued = {} /\ spools = {}
  /\ queue = <<>> /\ saver = "none" /\ saving = None
  /\ inflight = 0 /\ accepting = TRUE /\ stop = "no"
  /\ load = [l \in Loader |-> "idle"] /\ loan = [l \in Loader |-> NoRes]
  /\ stream = FALSE /\ stuck = {}

-----------------------------------------------------------------------------
(* MemoryBudget: each call holds the budget's own lock from end to end.      *)

\* The units charged for the reservations in S.
Units(S) == UNION {{r} \X (1..Peak[r]) : r \in S}

FitsAlone(r, available) ==       \* mutant: each operation has the cap to itself
  /\ available >= 0
  /\ Peak[r] <= MaxBytes
  /\ available - (reserved + Peak[r]) >= MinAvailable

\* try_reserve of a peak, against one reading of MemAvailable.
Fits(r, available) ==
  /\ available >= 0
  /\ reserved + Peak[r] <= MaxBytes
  /\ available - (reserved + Peak[r]) >= MinAvailable

TryReserve(r) ==
  /\ r \notin charged
  /\ \E available \in Readings : Fits(r, available)
  /\ reserved' = reserved + Peak[r]
  /\ charged' = charged \cup {r}

Refused(r) == r \notin charged /\ \E available \in Readings : ~Fits(r, available)

\* _release: a second release of the same reservation has no effect.
Release(r) ==
  /\ reserved' = IF r \in charged THEN reserved - Peak[r] ELSE reserved
  /\ charged' = charged \ {r}

-----------------------------------------------------------------------------
(* wait_for_save: the producer holds _cpu_store_lock from "next" to "leave". *)

BeginSave ==
  /\ prod = "idle"
  /\ prod' = "next"
  /\ plans' \in 0..MaxPlans
  /\ produced' = {}
  /\ UNCHANGED <<budget, cur, local, idOf, queued, tickets, spools, handoff, restores, control>>

\* A plan whose digest is held is skipped, and so is one that meets a busy
\* saver or a shutdown; otherwise the one store in flight is claimed.
Skip ==
  /\ prod = "next" /\ plans > 0
  /\ plans' = plans - 1
  /\ UNCHANGED <<budget, prod, cur, local, produced, idOf, queued, tickets, spools,
                 handoff, restores, control>>

AdmitWhileBusy ==                \* mutant: the store in flight is not looked at
  /\ prod = "next" /\ plans > 0
  /\ accepting
  /\ inflight' = 1
  /\ prod' = "reserve"
  /\ UNCHANGED <<budget, plans, cur, local, produced, idOf, queued, tickets, spools,
                 handoff, restores, accepting, stop>>

Admit ==
  /\ prod = "next" /\ plans > 0
  /\ accepting /\ inflight = 0
  /\ inflight' = 1
  /\ prod' = "reserve"
  /\ UNCHANGED <<budget, plans, cur, local, produced, idOf, queued, tickets, spools,
                 handoff, restores, accepting, stop>>

\* _finish_store(committed=False) from an except clause, and the next plan.
FailStore ==
  /\ inflight' = 0
  /\ prod' = "next"
  /\ plans' = plans - 1
  /\ cur' = NoRes
  /\ UNCHANGED <<accepting, stop>>

\* _snapshot_store up to the capture: a new ticket around a new reservation.
ReserveStore(r) ==
  /\ prod = "reserve"
  /\ TryReserve(r)
  /\ prod' = "capture"
  /\ cur' = r
  /\ produced' = produced \cup {r}
  /\ UNCHANGED <<plans, local, idOf, queued, tickets, spools, handoff, restores, control>>

RefuseStore(r) ==
  /\ prod = "reserve"
  /\ Refused(r)
  /\ FailStore
  /\ UNCHANGED <<budget, local, produced, idOf, queued, tickets, spools, handoff, restores>>

\* The addresses of the snapshot objects something still refers to.
Referenced == {local, saving} \cup {queue[i] : i \in 1..Len(queue)}
Free(a) == \A s \in Referenced : s.id # a

\* The pages are detached to a spool; the new snapshot may lie wherever no
\* live object does.  Only then does it replace the frame's previous one.
Capture(a) ==
  /\ prod = "capture"
  /\ Free(a)
  /\ local' = [id |-> a, spool |-> cur]
  /\ idOf' = [idOf EXCEPT ![cur] = a]
  /\ tickets' = [tickets EXCEPT ![a] = cur]
  /\ spools' = spools \cup {cur}
  /\ cur' = NoRes
  /\ prod' = "start"
  /\ UNCHANGED <<budget, plans, produced, queued, handoff, restores, control>>

CaptureFailsKeepsClaim ==        \* mutant: the except clause forgets _finish_store
  /\ prod = "capture"
  /\ spools' \in {spools, spools \cup {cur}}
  /\ prod' = "next" /\ plans' = plans - 1 /\ cur' = NoRes
  /\ UNCHANGED <<budget, local, produced, idOf, queued, tickets, handoff, restores, control>>

\* The spool cannot be opened, or fails while it is filled and stays open.
CaptureFails ==
  /\ prod = "capture"
  /\ spools' \in {spools, spools \cup {cur}}
  /\ FailStore
  /\ UNCHANGED <<budget, local, produced, idOf, queued, tickets, handoff, restores>>

\* _ensure_store_thread: the thread is alive, or is started now, ...
SaverAlive == saver \in {"waiting", "committing", "committed"}

EnsureSaver ==
  /\ prod = "start"
  /\ SaverAlive \/ (saver = "none" /\ accepting)
  /\ saver' = IF saver = "none" THEN "waiting" ELSE saver
  /\ prod' = "enqueue"
  /\ UNCHANGED <<budget, plans, cur, local, produced, idOf, queued, tickets, spools,
                 queue, saving, restores, control>>

\* ... or it has ended, or shutdown has begun, or it cannot be started.
NoSaver ==
  /\ prod = "start"
  /\ \/ saver \in {"exited", "died"}
     \/ saver = "none" /\ (~accepting \/ StartMayFail)
  /\ FailStore
  /\ UNCHANGED <<budget, local, produced, idOf, queued, tickets, spools, handoff, restores>>

\* _enqueue_budgeted_snapshot; the saver cannot reach the ticket before the
\* lock is free, so put() and queued = True are one step to everyone else.
Enqueue ==
  /\ prod = "enqueue"
  /\ queue' = Append(queue, local)
  /\ queued' = queued \cup {tickets[local.id]}
  /\ prod' = "next"
  /\ plans' = plans - 1
  /\ UNCHANGED <<budget, cur, local, produced, idOf, tickets, spools, saver, saving,
                 restores, control>>

\* The base frame returns and its local with it.
EndPlans ==
  /\ prod = "next" /\ plans = 0
  /\ prod' = "leave"
  /\ local' = None
  /\ UNCHANGED <<budget, plans, cur, produced, idOf, queued, tickets, spools,
                 handoff, restores, control>>

ReturnTicketWithSpool(t) ==      \* mutant: a capture that opened no spool keeps its budget
  /\ prod = "leave" /\ t \in produced
  /\ produced' = produced \ {t}
  /\ IF t \in queued \/ t \notin spools
       THEN UNCHANGED <<budget, tickets, spools>>
       ELSE /\ tickets' = [a \in Addr |-> IF a = idOf[t] THEN NoRes ELSE tickets[a]]
            /\ spools' = spools \ {t}
            /\ Release(t)
  /\ UNCHANGED <<prod, plans, cur, local, idOf, queued, handoff, restores, control>>

ReturnTicketOpen(t) ==           \* mutant: the spool of a failed store stays open
  /\ prod = "leave" /\ t \in produced
  /\ produced' = produced \ {t}
  /\ IF t \in queued
       THEN UNCHANGED <<budget, tickets>>
       ELSE /\ tickets' = [a \in Addr |-> IF a = idOf[t] THEN NoRes ELSE tickets[a]]
            /\ Release(t)
  /\ UNCHANGED <<prod, plans, cur, local, idOf, queued, spools, handoff, restores, control>>

ReturnTicketAnyway(t) ==         \* mutant: the entry of a queued ticket is dropped too
  /\ prod = "leave" /\ t \in produced
  /\ produced' = produced \ {t}
  /\ tickets' = [a \in Addr |-> IF a = idOf[t] THEN NoRes ELSE tickets[a]]
  /\ IF t \in queued
       THEN UNCHANGED <<budget, spools>>
       ELSE spools' = spools \ {t} /\ Release(t)
  /\ UNCHANGED <<prod, plans, cur, local, idOf, queued, handoff, restores, control>>

\* Each ticket that was not queued is dropped: its entry, spool and budget.
ReturnTicket(t) ==
  /\ prod = "leave" /\ t \in produced
  /\ produced' = produced \ {t}
  /\ IF t \in queued
       THEN UNCHANGED <<budget, tickets, spools>>
       ELSE /\ tickets' = [a \in Addr |-> IF a = idOf[t] THEN NoRes ELSE tickets[a]]
            /\ spools' = spools \ {t}
            /\ Release(t)
  /\ UNCHANGED <<prod, plans, cur, local, idOf, queued, handoff, restores, control>>

\* The call returns and frees the lock.  The saver reads neither snapshot_id
\* nor queued, so what these fields of its tickets still hold is forgotten.
EndSave ==
  /\ prod = "leave" /\ produced = {}
  /\ prod' = "idle"
  /\ idOf' = [r \in Res |-> NoAddr]
  /\ queued' = {}
  /\ UNCHANGED <<budget, plans, cur, local, produced, tickets, spools,
                 handoff, restores, control>>

-----------------------------------------------------------------------------
(* _store_worker_main: the saver.                                            *)

SaverGets ==
  /\ saver = "waiting" /\ queue # <<>>
  /\ queue' = Tail(queue)
  /\ IF Head(queue) = None
       THEN saver' = "exited" /\ UNCHANGED saving
       ELSE saver' = "committing" /\ saving' = Head(queue)
  /\ UNCHANGED <<budget, producer, tickets, spools, restores, control>>

\* _commit_store_snapshot, whether it publishes or fails: it closes the spool
\* and calls _finish_store, all before the budget is given back.
SaverCommits ==
  /\ saver = "committing"
  /\ saver' = "committed"
  /\ spools' = spools \ {saving.spool}
  /\ inflight' = 0
  /\ UNCHANGED <<budget, producer, tickets, queue, saving, restores, accepting, stop>>

SaverReleasesUnlocked ==         \* mutant: the budget is returned inside the producer's call
  /\ saver = "committed"
  /\ saving' = None
  /\ LET t == tickets[saving.id] IN
     IF t = NoRes
       THEN saver' = "died" /\ UNCHANGED <<budget, tickets, spools>>
       ELSE /\ saver' = "waiting"
            /\ tickets' = [tickets EXCEPT ![saving.id] = NoRes]
            /\ spools' = spools \ {t}
            /\ Release(t)
  /\ UNCHANGED <<producer, queue, restores, control>>

SaverForgets ==                  \* mutant: the popped ticket is not released
  /\ saver = "committed" /\ prod = "idle"
  /\ saving' = None
  /\ LET t == tickets[saving.id] IN
     IF t = NoRes
       THEN saver' = "died" /\ UNCHANGED <<tickets, spools>>
       ELSE /\ saver' = "waiting"
            /\ tickets' = [tickets EXCEPT ![saving.id] = NoRes]
            /\ spools' = spools \ {t}
  /\ UNCHANGED <<budget, producer, queue, restores, control>>

\* Under the lock: the ticket at the address of the snapshot is popped and
\* returned; no ticket there is a KeyError that ends the thread.
SaverReleases ==
  /\ saver = "committed" /\ prod = "idle"
  /\ saving' = None
  /\ LET t == tickets[saving.id] IN
     IF t = NoRes
       THEN saver' = "died" /\ UNCHANGED <<budget, tickets, spools>>
       ELSE /\ saver' = "waiting"
            /\ tickets' = [tickets EXCEPT ![saving.id] = NoRes]
            /\ spools' = spools \ {t}
            /\ Release(t)
  /\ UNCHANGED <<producer, queue, restores, control>>

-----------------------------------------------------------------------------
(* _load_hybrid_pages, on each restore thread.                               *)

ReserveRestore(l, r) ==
  /\ load[l] = "idle"
  /\ TryReserve(r)
  /\ load' = [load EXCEPT ![l] = "open"]
  /\ loan' = [loan EXCEPT ![l] = r]
  /\ UNCHANGED <<producer, tickets, spools, handoff, stream, stuck, control>>

\* open_snapshot and the header: the first placement creates the CUDA stream.
OpenSnapshot(l, ok) ==
  /\ load[l] = "open"
  /\ load' = [load EXCEPT ![l] = IF ok THEN "placing" ELSE "fence"]
  /\ stream' = (stream \/ ok)
  /\ UNCHANGED <<budget, producer, tickets, spools, handoff, loan, stuck, control>>

\* The segments are placed and checked, or an exception ends the placement:
\* either way the frame is gone and the device may still be copying.
Placed(l) ==
  /\ load[l] = "placing"
  /\ load' = [load EXCEPT ![l] = "fence"]
  /\ UNCHANGED <<budget, producer, tickets, spools, handoff, loan, stream, stuck, control>>

EndRestore(l) ==
  /\ load' = [load EXCEPT ![l] = "idle"]
  /\ loan' = [loan EXCEPT ![l] = NoRes]

Fence(l) ==
  /\ load[l] = "fence"
  /\ Release(loan[l])
  /\ EndRestore(l)
  /\ UNCHANGED <<producer, tickets, spools, handoff, stream, stuck, control>>

\* synchronize() raises: the reservation stays charged for good.
FenceFails(l) ==
  /\ load[l] = "fence" /\ stream
  /\ stuck' = stuck \cup {loan[l]}
  /\ EndRestore(l)
  /\ UNCHANGED <<budget, producer, tickets, spools, handoff, stream, control>>

-----------------------------------------------------------------------------
(* shutdown(), as far as it concerns the stores.                             *)

BeginShutdownStillAccepting ==   \* mutant: stores are admitted while shutdown waits
  /\ stop = "no"
  /\ stop' = "waiting"
  /\ UNCHANGED <<budget, producer, tickets, spools, handoff, restores, inflight, accepting>>

BeginShutdown ==
  /\ stop = "no"
  /\ accepting' = FALSE
  /\ stop' = "waiting"
  /\ UNCHANGED <<budget, producer, tickets, spools, handoff, restores, inflight>>

\* wait_for_pending_stores(5.0) returns, with the store finished or timed
\* out, and a saver that was started gets the sentinel.
SendSentinel ==
  /\ stop = "waiting"
  /\ stop' = IF inflight = 0 THEN "sent" ELSE "late"
  /\ queue' = IF saver = "none" THEN queue ELSE Append(queue, None)
  /\ UNCHANGED <<budget, producer, tickets, spools, saver, saving, restores,
                 inflight, accepting>>

-----------------------------------------------------------------------------

Producer ==
  \/ BeginSave \/ Skip \/ Admit \/ CaptureFails \/ EnsureSaver \/ NoSaver
  \/ Enqueue \/ EndPlans \/ EndSave
  \/ \E r \in Res : ReserveStore(r) \/ RefuseStore(r) \/ ReturnTicket(r)
  \/ \E a \in Addr : Capture(a)

Saver == SaverGets \/ SaverCommits \/ SaverReleases

Restore(l) ==
  \/ \E r \in Res : ReserveRestore(l, r)
  \/ \E ok \in BOOLEAN : OpenSnapshot(l, ok)
  \/ Placed(l) \/ Fence(l) \/ FenceFails(l)

Shutdown == BeginShutdown \/ SendSentinel

Next == Producer \/ Saver \/ (\E l \in Loader : Restore(l)) \/ Shutdown

Spec == Init /\ [][Next]_vars

\* A call of wait_for_save runs to its end, and so does the saver's work.  The
\* lock is free for a whole model step between two calls, so a saver that waits
\* for it gets it in the end although no single call leaves it for long.
FairSpec ==
  /\ Spec
  /\ WF_vars(Producer /\ prod # "idle")
  /\ WF_vars(SaverGets) /\ WF_vars(SaverCommits) /\ SF_vars(SaverReleases)

-----------------------------------------------------------------------------

Queued == {queue[i] : i \in 1..Len(queue)} \ {None}

\* The reservations whose bytes something may still refer to.
InUse ==
  ({cur} \cup {s.spool : s \in Referenced} \cup {loan[l] : l \in Loader} \cup stuck) \ {NoRes}

\* The counter is the sum of the live reservations and stays under the cap.
ReservedExact ==
  /\ reserved = Cardinality(Units(charged))
  /\ reserved <= MaxBytes

\* No reservation is returned while a frame, the queue, the saver or the CUDA
\* stream may refer to what it was charged for ("The budget is held while a
\* snapshot is produced, queued and committed", README).
BudgetHeld == InUse \subseteq charged

\* Conversely every charged reservation has an owner that will return it; only
\* a failed fence, which is meant to, and a dead saver leave budget behind.
NothingOrphaned ==
  saver # "died" => charged \subseteq InUse \cup produced

\* The staging file of a snapshot is open until its commit has read it, and no
\* staging file stays open on the disk without a charged ticket to close it.
SpoolsOwned ==
  /\ {s.spool : s \in Queued} \subseteq spools
  /\ saver = "committing" => saving.spool \in spools
  /\ spools \subseteq charged

\* "At most one snapshot may be queued or committing per rank" (connector): the
\* claim is held by exactly the store that is being produced, queued or
\* committed, also when the saver still waits to return the one before it.
OneStoreInFlight ==
  inflight = (IF prod \in {"reserve", "capture", "start", "enqueue"} THEN 1 ELSE 0)
             + Cardinality(Queued) + (IF saver = "committing" THEN 1 ELSE 0)

\* A shutdown whose wait did not time out stops the saver behind every
\* snapshot: when the thread has exited nothing is queued or still charged.
DrainedBeforeExit ==
  stop = "sent" /\ saver = "exited" =>
    /\ queue = <<>>
    /\ charged \subseteq produced \cup {loan[l] : l \in Loader} \cup stuck

\* The saver thread never ends but by the sentinel: _ensure_store_thread calls
\* any other end "background saver exited unexpectedly".
SaverSurvives == saver # "died"

\* A claim on the store is given up in the end, whatever fails: a claim that
\* stays makes every later store of the process skip as busy.
StoreEnds == inflight = 1 ~> (inflight = 0 \/ stop = "late")

\* The budget of a queued snapshot is returned in the end.
BudgetReturned ==
  \A r \in Res : (\E s \in Queued : s.spool = r) ~> (r \notin charged \/ stop = "late")
=============================================================================
