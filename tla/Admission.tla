------------------------------ MODULE Admission ------------------------------
(***************************************************************************)
(* The bounded ASGI admission middleware (bounded-admission/middleware.py)  *)
(* on one asyncio event loop.  A request is one ASGI call; an action is one *)
(* uninterrupted stretch of a task, from one await to the next, or the      *)
(* expiry of a timer, or a cancellation from outside.                       *)
(*                                                                          *)
(* What makes the code hard is the distance between an event and the task   *)
(* that learns of it.  A timer or a canceller only marks the task; a slot   *)
(* handed over by release() only resolves the waiter's future.  The task    *)
(* sees either one when it next runs, and both can have happened by then.   *)
(***************************************************************************)
EXTENDS Integers, FiniteSets

CONSTANTS
  Req,          \* the requests that arrive (each makes one call)
  MaxActive,    \* TP4_ADMISSION_MAX_ACTIVE
  MaxQueued,    \* TP4_ADMISSION_MAX_QUEUED
  MaxBody,      \* TP4_ADMISSION_MAX_BODY_BYTES, in chunks of one unit
  Counted       \* the counters of _counts to keep: no guard reads any of them

ASSUME ReqAssumption    == IsFiniteSet(Req)
ASSUME ActiveAssumption == MaxActive \in Nat \ {0}
ASSUME QueuedAssumption == MaxQueued \in Nat \ {0}
ASSUME BodyAssumption   == MaxBody \in Nat \ {0}

Counter == {"rejected_full", "rejected_queue_timeout", "request_timeout",
            "body_too_large", "body_idle", "send_idle",
            "cancelled_queued", "cancelled_active"}

ASSUME CountedAssumption ==
  {"rejected_queue_timeout", "cancelled_queued"} \subseteq Counted /\ Counted \subseteq Counter

VARIABLES
  phase,     \* where each request's task is suspended
  pend,      \* the cancellation requested of the task that it has not seen:
             \* of several, the outermost, which decides what the task sees
  slot,      \* acquired: "none", "held", and "released" after the finally
  fut,       \* the future the task waits on inside Semaphore.acquire()
  ticket,    \* the place of that future in the semaphore's deque
  value,     \* the semaphore's counter
  active, queued, inflight, admitted,  \* _active, _queued, _inflight, ...
  counts,    \* _counts
  started,   \* response_started
  starts,    \* http.response.start messages handed to the server
  held       \* body units the middleware retains for the request

vars == <<phase, pend, slot, fut, ticket, value, active, queued, inflight,
          admitted, counts, started, starts, held>>
counters == <<active, queued, inflight, admitted>>
lock     == <<fut, ticket, value>>

Active == {"reading", "serving", "sending"}     \* inside the wall deadline
Error  == {"error1", "error2"}                  \* inside _send_error
Phase  == {"new", "queued", "done"} \cup Active \cup Error
\* The deadlines a task can be inside of, and cancellation from outside.
Cause  == {"queue", "wall", "idle", "cancel"}

\* The causes that lie inside each: asyncio.timeout turns a CancelledError into
\* TimeoutError only when no cancellation from further out is under way.
Inside(cause) ==
  CASE cause = "cancel" -> {"none", "queue", "wall", "idle"}
    [] cause = "wall"   -> {"none", "idle"}
    [] OTHER            -> {"none"}

TypeOK ==
  /\ phase \in [Req -> Phase]
  /\ pend \in [Req -> Cause \cup {"none"}]
  /\ slot \in [Req -> {"none", "held", "released"}]
  /\ fut \in [Req -> {"none", "pending", "granted", "cancelled"}]
  /\ ticket \in [Req -> Nat]
  /\ value \in Nat
  /\ active \in Nat /\ queued \in Nat /\ inflight \in Nat /\ admitted \in Nat
  /\ counts \in [Counted -> Nat]
  /\ started \in [Req -> BOOLEAN]
  /\ starts \in [Req -> Nat]
  /\ held \in [Req -> Nat]

Init ==
  /\ phase = [r \in Req |-> "new"]
  /\ pend = [r \in Req |-> "none"]
  /\ slot = [r \in Req |-> "none"]
  /\ fut = [r \in Req |-> "none"]
  /\ ticket = [r \in Req |-> 0]
  /\ value = MaxActive
  /\ active = 0 /\ queued = 0 /\ inflight = 0 /\ admitted = 0
  /\ counts = [c \in Counted |-> 0]
  /\ started = [r \in Req |-> FALSE]
  /\ starts = [r \in Req |-> 0]
  /\ held = [r \in Req |-> 0]

Count(c) ==
  counts' = [d \in Counted |-> IF d = c THEN counts[d] + 1 ELSE counts[d]]

-----------------------------------------------------------------------------
(* asyncio.Semaphore of the Python 3.12 runtime, as the middleware uses it.  *)

InFut(f, s) == {q \in Req : f[q] = s}

\* locked(): an arrival must wait, even at value > 0, behind a live waiter.
Locked == value = 0 \/ InFut(fut, "pending") \cup InFut(fut, "granted") # {}

WakeAny(f, v, limit) ==      \* mutant: no order among the waiters
  \E W \in SUBSET InFut(f, "pending") :
    /\ Cardinality(W) <= limit
    /\ Cardinality(W) = limit \/ W = InFut(f, "pending")
    /\ fut' = [q \in Req |-> IF q \in W THEN "granted" ELSE f[q]]
    /\ value' = v - Cardinality(W)

\* _wake_up_next(), at most limit times, from the futures f and the counter v:
\* the first futures of the deque that are not done are resolved.
Wake(f, v, limit) ==
  LET waiting == InFut(f, "pending") IN
  \E W \in SUBSET waiting :
    /\ \A a \in W, b \in waiting \ W : ticket[a] < ticket[b]
    /\ Cardinality(W) <= limit
    /\ Cardinality(W) = limit \/ W = waiting
    /\ fut' = [q \in Req |-> IF q \in W THEN "granted" ELSE f[q]]
    /\ value' = v - Cardinality(W)

\* release(): the counter goes up and one waiter, if any, takes it.
ReleaseSlot == Wake(fut, value + 1, 1)

\* How acquire() ends: its future leaves the deque, a future resolved before
\* the cancellation gives its unit back, and units are passed on.
AcquireReturns(r) == Wake([fut EXCEPT ![r] = "none"], value, value)

AcquireCancelledSilently(r) ==      \* mutant: the unit goes back, nobody is told
  /\ fut' = [fut EXCEPT ![r] = "none"]
  /\ value' = IF fut[r] = "granted" THEN value + 1 ELSE value

AcquireCancelled(r) ==
  LET v == IF fut[r] = "granted" THEN value + 1 ELSE value
  IN  Wake([fut EXCEPT ![r] = "none"], v, v)

-----------------------------------------------------------------------------
(* __call__ up to the queue. *)

\* A request that is not guarded goes to the application untouched.
Bypass(r) ==
  /\ phase[r] = "new"
  /\ phase' = [phase EXCEPT ![r] = "done"]
  /\ UNCHANGED <<pend, slot, lock, counters, counts, started, starts, held>>

\* The answer of _send_error begins: its http.response.start is handed over.
BeginError(r) ==
  /\ phase' = [phase EXCEPT ![r] = "error1"]
  /\ starts' = [starts EXCEPT ![r] = @ + 1]

\* Refused before admission: a bad Content-Length (400), one above the limit
\* (413, counted), or a full queue (503, counted).
RefuseHeader(r) ==
  /\ phase[r] = "new"
  /\ UNCHANGED counts \/ Count("body_too_large")
  /\ BeginError(r)
  /\ UNCHANGED <<pend, slot, lock, counters, started, held>>

RefuseFull(r) ==
  /\ phase[r] = "new"
  /\ inflight >= MaxActive + MaxQueued
  /\ Count("rejected_full")
  /\ BeginError(r)
  /\ UNCHANGED <<pend, slot, lock, counters, started, held>>

\* Admitted with a free slot: acquire() returns without suspending.
AdmitAtOnce(r) ==
  /\ phase[r] = "new"
  /\ inflight < MaxActive + MaxQueued
  /\ ~Locked
  /\ value' = value - 1
  /\ inflight' = inflight + 1
  /\ admitted' = admitted + 1
  /\ active' = active + 1
  /\ slot' = [slot EXCEPT ![r] = "held"]
  /\ phase' = [phase EXCEPT ![r] = "reading"]
  /\ UNCHANGED <<pend, fut, ticket, queued, counts, started, starts, held>>

\* Admitted behind others: the task suspends on a new future.
AdmitQueued(r) ==
  /\ phase[r] = "new"
  /\ inflight < MaxActive + MaxQueued
  /\ Locked
  /\ fut' = [fut EXCEPT ![r] = "pending"]
  /\ ticket' = [ticket EXCEPT ![r] = admitted]
  /\ inflight' = inflight + 1
  /\ admitted' = admitted + 1
  /\ queued' = queued + 1
  /\ phase' = [phase EXCEPT ![r] = "queued"]
  /\ UNCHANGED <<pend, slot, value, active, counts, started, starts, held>>

-----------------------------------------------------------------------------
(* Timers and cancellation.  Both call task.cancel(): a pending future is    *)
(* cancelled with it; one that is already resolved is left as it is, and the *)
(* CancelledError is thrown when the task runs.                              *)

ArmedForBodyOnly(r) ==      \* mutant: the wall deadline ends with the body
  CASE phase[r] = "queued"  -> {"queue"}
    [] phase[r] = "reading" -> {"wall", "idle"}
    [] phase[r] \in Error \cup {"sending"} -> {"idle"}
    [] OTHER                -> {}

Armed(r) ==
  CASE phase[r] = "queued"               -> {"queue"}
    [] phase[r] \in {"reading", "sending"} -> {"wall", "idle"}
    [] phase[r] = "serving"              -> {"wall"}
    [] phase[r] \in Error                -> {"idle"}
    [] OTHER                             -> {}

TaskCancel(r, cause) ==
  /\ pend[r] \in Inside(cause)
  /\ pend' = [pend EXCEPT ![r] = cause]
  /\ fut' = IF fut[r] = "pending" THEN [fut EXCEPT ![r] = "cancelled"] ELSE fut
  /\ UNCHANGED <<phase, slot, ticket, value, counters, counts, started, starts, held>>

Expire(r, timer) == timer \in Armed(r) /\ TaskCancel(r, timer)
CancelTask(r)    == phase[r] \notin {"new", "done"} /\ TaskCancel(r, "cancel")

-----------------------------------------------------------------------------
(* The queued task runs again. *)

\* The slot was handed over and nothing else happened to the task.
ResumeAcquired(r) ==
  /\ phase[r] = "queued" /\ fut[r] = "granted" /\ pend[r] = "none"
  /\ AcquireReturns(r)
  /\ ticket' = [ticket EXCEPT ![r] = 0]
  /\ queued' = queued - 1
  /\ active' = active + 1
  /\ slot' = [slot EXCEPT ![r] = "held"]
  /\ phase' = [phase EXCEPT ![r] = "reading"]
  /\ UNCHANGED <<pend, inflight, admitted, counts, started, starts, held>>

LeaveQueueInFlight(r, counter) ==      \* mutant: inflight is forgotten
  /\ phase[r] = "queued" /\ pend[r] # "none"
  /\ AcquireCancelled(r)
  /\ ticket' = [ticket EXCEPT ![r] = 0]
  /\ queued' = queued - 1
  /\ Count(counter)
  /\ pend' = [pend EXCEPT ![r] = "none"]
  /\ UNCHANGED <<slot, active, inflight, admitted, started, held>>

LeaveQueue(r, counter) ==
  /\ phase[r] = "queued" /\ pend[r] # "none"
  /\ AcquireCancelled(r)
  /\ ticket' = [ticket EXCEPT ![r] = 0]
  /\ queued' = queued - 1
  /\ inflight' = inflight - 1
  /\ Count(counter)
  /\ pend' = [pend EXCEPT ![r] = "none"]
  /\ UNCHANGED <<slot, active, admitted, started, held>>

ResumeQueueTimeout(r) ==
  /\ pend[r] = "queue"
  /\ LeaveQueue(r, "rejected_queue_timeout")
  /\ BeginError(r)

ResumeCancelledQueued(r) ==
  /\ pend[r] = "cancel"
  /\ LeaveQueue(r, "cancelled_queued")
  /\ phase' = [phase EXCEPT ![r] = "done"]
  /\ UNCHANGED starts

-----------------------------------------------------------------------------
(* The end of a call: the finally clause, when a slot was acquired.  The     *)
(* locals of the call go with it.                                            *)

AlwaysAcquired(r) == TRUE      \* mutant: "if acquired" is dropped

Acquired(r) == slot[r] = "held"

GiveBackGauges(r) ==      \* mutant: slots.release() is forgotten
  /\ slot' = [slot EXCEPT ![r] = "released"]
  /\ active' = active - 1
  /\ inflight' = inflight - 1
  /\ UNCHANGED <<fut, value>>

GiveBack(r) ==
  /\ slot' = [slot EXCEPT ![r] = "released"]
  /\ active' = active - 1
  /\ inflight' = inflight - 1
  /\ ReleaseSlot

Finally(r) ==
  /\ phase' = [phase EXCEPT ![r] = "done"]
  /\ pend' = [pend EXCEPT ![r] = "none"]
  /\ held' = [held EXCEPT ![r] = 0]
  /\ started' = [started EXCEPT ![r] = FALSE]
  /\ starts' = [starts EXCEPT ![r] = 0]
  /\ UNCHANGED <<ticket, queued, admitted>>
  /\ \/ Acquired(r) /\ GiveBack(r)
     \/ ~Acquired(r) /\ UNCHANGED <<slot, active, inflight, fut, value>>

-----------------------------------------------------------------------------
(* read_body() and the downstream application, inside the slot. *)

Running(r, p) == phase[r] = p /\ pend[r] = "none"

ReadChunkAlone(r, n, more) ==      \* mutant: the limit is checked per chunk
  /\ Running(r, "reading")
  /\ n <= MaxBody
  /\ held' = [held EXCEPT ![r] = @ + n]
  /\ phase' = [phase EXCEPT ![r] = IF more THEN "reading" ELSE "serving"]
  /\ UNCHANGED <<pend, slot, lock, counters, counts, started, starts>>

\* One http.request message of n units that is within the limit.
ReadChunk(r, n, more) ==
  /\ Running(r, "reading")
  /\ held[r] + n <= MaxBody
  /\ held' = [held EXCEPT ![r] = @ + n]
  /\ phase' = [phase EXCEPT ![r] = IF more THEN "reading" ELSE "serving"]
  /\ UNCHANGED <<pend, slot, lock, counters, counts, started, starts>>

\* One that passes the limit: _BodyTooLarge, before the chunk is kept.
ReadTooLarge(r, n) ==
  /\ Running(r, "reading")
  /\ held[r] + n > MaxBody
  /\ Count("body_too_large")
  /\ BeginError(r)
  /\ UNCHANGED <<pend, slot, lock, counters, started, held>>

\* A message that is not http.request ends the body; it is replayed later.
ReadDisconnect(r) ==
  /\ Running(r, "reading")
  /\ phase' = [phase EXCEPT ![r] = "serving"]
  /\ UNCHANGED <<pend, slot, lock, counters, counts, started, starts, held>>

\* replay_receive(): the application takes the buffered body.
AppTakesBody(r) ==
  /\ Running(r, "serving") /\ held[r] > 0
  /\ held' = [held EXCEPT ![r] = 0]
  /\ UNCHANGED <<phase, pend, slot, lock, counters, counts, started, starts>>

\* limited_send(): the first message of a response, or a later one.
AppStartsResponse(r) ==
  /\ Running(r, "serving") /\ ~started[r]
  /\ started' = [started EXCEPT ![r] = TRUE]
  /\ starts' = [starts EXCEPT ![r] = @ + 1]
  /\ phase' = [phase EXCEPT ![r] = "sending"]
  /\ UNCHANGED <<pend, slot, lock, counters, counts, held>>

AppSends(r) ==
  /\ Running(r, "serving") /\ started[r]
  /\ phase' = [phase EXCEPT ![r] = "sending"]
  /\ UNCHANGED <<pend, slot, lock, counters, counts, started, starts, held>>

SendDone(r) ==
  /\ Running(r, "sending")
  /\ phase' = [phase EXCEPT ![r] = "serving"]
  /\ UNCHANGED <<pend, slot, lock, counters, counts, started, starts, held>>

\* The application returns, or raises something of its own; it may also do so
\* in answer to a cancellation, which it then keeps to itself.
AppEnds(r) ==
  /\ phase[r] = "serving" \/ (phase[r] = "sending" /\ pend[r] # "none")
  /\ Finally(r)
  /\ UNCHANGED counts

\* The application catches the _SendIdle of a send and goes on.
AppCatchesSendIdle(r) ==
  /\ phase[r] = "sending" /\ pend[r] = "idle"
  /\ pend' = [pend EXCEPT ![r] = "none"]
  /\ phase' = [phase EXCEPT ![r] = "serving"]
  /\ UNCHANGED <<slot, lock, counters, counts, started, starts, held>>

-----------------------------------------------------------------------------
(* The except clauses around run_active().                                   *)

ResumeCancelledActive(r) ==
  /\ phase[r] \in Active /\ pend[r] = "cancel"
  /\ Count("cancelled_active")
  /\ Finally(r)

TimedOutAnyway(r, counter) ==      \* mutant: "if response_started" is dropped
  /\ Count(counter)
  /\ BeginError(r)
  /\ pend' = [pend EXCEPT ![r] = "none"]
  /\ UNCHANGED <<slot, lock, counters, started, held>>

\* A timeout answers with an error unless the response has begun.
TimedOut(r, counter) ==
  /\ Count(counter)
  /\ \/ /\ started[r]
        /\ Finally(r)
     \/ /\ ~started[r]
        /\ BeginError(r)
        /\ pend' = [pend EXCEPT ![r] = "none"]
        /\ UNCHANGED <<slot, lock, counters, started, held>>

ResumeWallTimeout(r) ==
  /\ phase[r] \in Active /\ pend[r] = "wall"
  /\ TimedOut(r, "request_timeout")

ResumeBodyIdle(r) ==
  /\ phase[r] = "reading" /\ pend[r] = "idle"
  /\ TimedOut(r, "body_idle")

\* _SendIdle reaches the middleware; the response is aborted.
ResumeSendIdle(r) ==
  /\ phase[r] = "sending" /\ pend[r] = "idle"
  /\ Count("send_idle")
  /\ Finally(r)

-----------------------------------------------------------------------------
(* _send_error(): two bounded sends, with or without a slot. *)

ErrorHeaderSent(r) ==
  /\ Running(r, "error1")
  /\ phase' = [phase EXCEPT ![r] = "error2"]
  /\ UNCHANGED <<pend, slot, lock, counters, counts, started, starts, held>>

ErrorBodySent(r) ==
  /\ Running(r, "error2")
  /\ Finally(r)
  /\ UNCHANGED counts

\* A stalled send raises _SendIdle; a cancelled one is not counted.
ErrorAborted(r) ==
  /\ phase[r] \in Error /\ pend[r] # "none"
  /\ IF pend[r] = "cancel" THEN UNCHANGED counts ELSE Count("send_idle")
  /\ Finally(r)

-----------------------------------------------------------------------------
\* What the event loop does for a task that has something to see.
Resume(r) ==
  \/ ResumeAcquired(r)
  \/ ResumeQueueTimeout(r)
  \/ ResumeCancelledQueued(r)
  \/ ResumeCancelledActive(r)
  \/ ResumeWallTimeout(r)
  \/ ResumeBodyIdle(r)
  \/ ResumeSendIdle(r)
  \/ ErrorAborted(r)

\* What the client, the server and the application do, each in its own time.
Environment(r) ==
  \/ Bypass(r)
  \/ RefuseHeader(r)
  \/ RefuseFull(r)
  \/ AdmitAtOnce(r)
  \/ AdmitQueued(r)
  \/ CancelTask(r)
  \/ \E n \in 0 .. MaxBody, more \in BOOLEAN : ReadChunk(r, n, more)
  \/ \E n \in 1 .. MaxBody + 1 : ReadTooLarge(r, n)
  \/ ReadDisconnect(r)
  \/ AppTakesBody(r)
  \/ AppStartsResponse(r)
  \/ AppSends(r)
  \/ SendDone(r)
  \/ AppEnds(r)
  \/ AppCatchesSendIdle(r)
  \/ ErrorHeaderSent(r)
  \/ ErrorBodySent(r)

Timers(r) == \E t \in {"queue", "wall", "idle"} : Expire(r, t)

\* Every request of the instance has made its call.
AllDone == (\A r \in Req : phase[r] = "done") /\ UNCHANGED vars

Next == AllDone \/ \E r \in Req : Environment(r) \/ Timers(r) \/ Resume(r)

Spec == Init /\ [][Next]_vars

\* Only the event loop and two of its clocks are fair: a task with something to
\* see runs, the wall deadline of an active request passes, and so does the
\* deadline of each send of an error.  No client, application or server is
\* fair; nor are the queue deadline, which may be far away, and the idle
\* deadlines of an active request, which every message sets anew.
Fairness ==
  \A r \in Req :
    /\ WF_vars(Resume(r))
    /\ WF_vars(Expire(r, "wall"))
    /\ WF_vars(phase[r] \in Error /\ Expire(r, "idle"))

FairSpec == Spec /\ Fairness

-----------------------------------------------------------------------------
Holders  == {r \in Req : slot[r] = "held"}
Queued   == {r \in Req : phase[r] = "queued"}
Released == {r \in Req : slot[r] = "released"}

\* No slot is lost or made up, whatever timer or cancellation strikes between
\* the moment release() resolves a waiter's future and the moment the waiter
\* runs: the semaphore's counter, the slots on their way to a waiter and the
\* slots held always add up to MAX_ACTIVE.
SlotsConserved ==
  value + Cardinality(InFut(fut, "granted")) + Cardinality(Holders) = MaxActive

\* The gauges in TP4_ADMISSION_STATE tell the truth at every suspension: active
\* counts the holders, queued the tasks inside acquire(), inflight both.
GaugesExact ==
  /\ active = Cardinality(Holders)
  /\ queued = Cardinality(Queued)
  /\ inflight = active + queued

\* The middleware never retains more than MAX_ACTIVE + MAX_QUEUED requests and
\* never lets more than MAX_ACTIVE of them past the queue.
AdmissionBounded == active <= MaxActive /\ inflight <= MaxActive + MaxQueued

\* Every admission is accounted for once: it is still in flight, it timed out
\* or was cancelled in the queue, or it gave back its slot.
LedgerBalanced ==
  admitted = inflight + counts["rejected_queue_timeout"]
             + counts["cancelled_queued"] + Cardinality(Released)

\* A free unit is never left lying while someone waits for it, unless a waiter
\* that was handed another one has yet to run (and will then pass it on).
NoLostWakeup ==
  value > 0 /\ InFut(fut, "pending") # {} => InFut(fut, "granted") # {}

\* The server is never handed a second http.response.start for one request: no
\* error is appended to a response the application began.
OneResponseStart == \A r \in Req : starts[r] <= 1

\* The bodies the middleware retains take at most MAX_ACTIVE * MAX_BODY_BYTES.
BodyStorageBounded ==
  /\ \A r \in Req : held[r] <= MaxBody
  /\ Cardinality({r \in Req : held[r] > 0}) <= MaxActive

\* Slots are bounded and handed out in arrival order: the middleware implements
\* SlotQueue.  A waiter is whoever has a future that nothing has touched yet; a
\* holder has the slot, or a future that was resolved.
Queue == INSTANCE SlotQueue WITH
  Caller   <- Req,
  Capacity <- MaxActive,
  stage    <- [r \in Req |-> IF fut[r] = "pending" THEN "waiting"
                             ELSE IF fut[r] = "granted" \/ slot[r] = "held"
                                  THEN "holding" ELSE "out"],
  place    <- [r \in Req |-> IF fut[r] = "pending" THEN ticket[r] ELSE 0]

ImplementsSlotQueue == Queue!Spec

\* Every call ends, even when no client sends or reads anything, no queue
\* deadline ever passes and the application hangs until it is cancelled: the
\* wall deadline of each holder moves the whole line along.
EveryCallEnds == \A r \in Req : phase[r] # "new" ~> phase[r] = "done"
=============================================================================
