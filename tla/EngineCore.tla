----------------------------- MODULE EngineCore -----------------------------
(***************************************************************************)
(* The engine's busy loop around the scheduler (end-drain/core.py): it takes *)
(* requests and aborts from an input queue, coalesces arrivals into an idle  *)
(* engine for one window (E29), plans a step while the previous one runs,    *)
(* and reads results back in order.  At most two steps are in the batch      *)
(* queue; one whose sampling waits for a grammar stays out of it until the   *)
(* result before it has been read.                                           *)
(***************************************************************************)
EXTENDS StepScheduler

CONSTANTS
  Coalesce,   \* VLLM_E29_IDLE_COALESCE_MS is not zero
  Abortable   \* the requests whose client may give up

ASSUME CoreAssumption == Coalesce \in BOOLEAN /\ Abortable \subseteq Req

QueueSize == 2     \* batch_queue_size under asynchronous scheduling

VARIABLES
  loop,     \* where the loop stands
  input,    \* input_queue
  aborts,   \* aborts_queue
  sent,     \* the requests whose client has sent them
  gaveUp,   \* and those whose client has aborted them
  arrived,  \* e29_first is set
  batch,    \* batch_queue, oldest first
  parked    \* deferred_scheduler_output: the outputs kept out of the queue

cvars == <<loop, input, aborts, sent, gaveUp, arrived, batch, parked>>
vars == <<svars, cvars>>

Init ==
  /\ SInit
  /\ loop = "poll" /\ input = <<>> /\ aborts = {} /\ sent = {} /\ gaveUp = {}
  /\ arrived = FALSE /\ batch = <<>> /\ parked = <<>>

-----------------------------------------------------------------------------
(* The clients, whose messages a receiver thread puts in the queues.        *)

\* What others do counts from when the loop next looks at it.
Looking == loop \in {"poll", "coalesce", "aborts"}

SendAdd(r) ==
  /\ Looking /\ r \notin sent
  /\ sent' = sent \cup {r}
  /\ input' = Append(input, [type |-> "add", id |-> r])
  /\ UNCHANGED <<svars, loop, aborts, gaveUp, arrived, batch, parked>>

\* An abort is put in both queues; it may cross the end of its request.
SendAbort(r) ==
  /\ Looking /\ r \in (sent \cap Abortable) \ gaveUp
  /\ gaveUp' = gaveUp \cup {r}
  /\ input' = Append(input, [type |-> "abort", id |-> r])
  /\ aborts' = aborts \cup {r}
  /\ UNCHANGED <<svars, loop, sent, arrived, batch, parked>>

-----------------------------------------------------------------------------
(* _process_input_queue and the idle window.                                *)

HasWork == HasRequests \/ batch # <<>>

Dispatch(m) ==
  IF m.type = "add" THEN AddRequest(m.id)
  ELSE FinishRequests({r \in {m.id} : Live(r)})

\* The message that wakes an idle engine opens the window if it adds a request.
HandleMessage ==
  /\ loop = "poll" \/ (loop = "coalesce" /\ Unfinished)
  /\ input # <<>>
  /\ Dispatch(Head(input))
  /\ input' = Tail(input)
  /\ arrived' = (arrived \/ (Coalesce /\ ~HasWork /\ Head(input).type = "add"))
  /\ UNCHANGED <<loop, aborts, sent, gaveUp, batch, parked>>

\* Idle with nothing queued: the aborts have all been through the input queue.
ClearAborts ==
  /\ loop = "poll" /\ ~HasWork /\ input = <<>> /\ aborts # {}
  /\ aborts' = {}
  /\ UNCHANGED <<svars, loop, input, sent, gaveUp, arrived, batch, parked>>

EndPoll ==
  /\ loop = "poll" /\ HasWork /\ input = <<>>
  /\ loop' = IF arrived /\ Unfinished THEN "coalesce" ELSE "step"
  /\ arrived' = FALSE
  /\ UNCHANGED <<svars, input, aborts, sent, gaveUp, batch, parked>>

\* Its deadline has come, or nothing unfinished is left to wait with.
EndWindow ==
  /\ loop = "coalesce"
  /\ loop' = "step"
  /\ UNCHANGED <<svars, input, aborts, sent, gaveUp, arrived, batch, parked>>

-----------------------------------------------------------------------------
(* step_with_batch_queue.                                                   *)

\* Requests to schedule start a scheduling pass; otherwise a result is read.
StartStep ==
  /\ loop = "step" /\ HasRequests
  /\ Begin
  /\ loop' = "schedule"
  /\ UNCHANGED <<input, aborts, sent, gaveUp, arrived, batch, parked>>

NothingToSchedule ==
  /\ loop = "step" /\ ~HasRequests
  /\ loop' = IF batch = <<>> THEN "poll" ELSE "aborts"
  /\ UNCHANGED <<svars, input, aborts, sent, gaveUp, arrived, batch, parked>>

Schedule ==
  /\ loop = "schedule"
  /\ \/ \E r \in Req :
          \/ SkipEnding(r) \/ HoldBack(r) \/ DeferChunk(r)
          \/ SkipEmpty(r) \/ Grant(r) \/ GiveUp(r)
          \/ PassOver(r) \/ SetAside(r) \/ Admit(r)
     \/ EndRunning \/ EndWaiting
  /\ UNCHANGED cvars

\* The output joins the queue; unless that fills it, the loop goes round again
\* before it waits for a result.  An empty output is queued like any other.
QueueOutput ==
  /\ loop = "schedule"
  /\ \E k \in {KLo, KHi} : UpdateAfterSchedule(k)
  /\ LET executed == Scheduled(pass.out) # {}
     IN IF executed /\ PendingStructured
          THEN /\ parked' = <<Output>> /\ loop' = "aborts"
               /\ UNCHANGED batch
          ELSE /\ batch' = Append(batch, Output)
               /\ loop' = IF Len(batch') < QueueSize /\ (executed \/ Unfinished)
                            THEN "poll" ELSE "aborts"
               /\ UNCHANGED parked
  /\ UNCHANGED <<input, aborts, sent, gaveUp, arrived>>

\* Aborts that came while the step ran go before its result.
ProcessAborts ==
  /\ loop = "aborts"
  /\ FinishRequests({r \in aborts : Live(r)})
  /\ aborts' = {} /\ loop' = "retire"
  /\ UNCHANGED <<input, sent, gaveUp, arrived, batch, parked>>

MostDrafts == LET lengths == {Drafts[n] : n \in 1..MaxRunning}
              IN CHOOSE n \in lengths : \A m \in lengths : m <= n
Sampling(o) == {r \in Req : o[r].samples}

\* The oldest result: a sampling request returns one token more than the
\* drafts the model accepted.
Retire ==
  /\ loop = "retire"
  /\ \E gen \in [Req -> 1..(MostDrafts + 1)], eos \in SUBSET Sampling(batch[1]) :
       /\ \A r \in Req : gen[r] <= batch[1][r].drafts + 1
       /\ UpdateFromOutput(batch[1], gen, eos)
  /\ batch' = Tail(batch) \o parked
  /\ parked' = <<>>
  /\ loop' = "poll"
  /\ UNCHANGED <<input, aborts, sent, gaveUp, arrived>>

Engine ==
  \/ HandleMessage \/ ClearAborts \/ EndPoll \/ EndWindow
  \/ StartStep \/ NothingToSchedule \/ Schedule \/ QueueOutput
  \/ ProcessAborts \/ Retire

Compiler(r) == Looking /\ r \in sent /\ Compile(r) /\ UNCHANGED cvars

Next == Engine \/ \E r \in Req : SendAdd(r) \/ SendAbort(r) \/ Compiler(r)

Spec == Init /\ [][Next]_vars
FairSpec == Spec /\ WF_vars(Engine) /\ \A r \in Req : SF_vars(Compiler(r))

-----------------------------------------------------------------------------
(* What the loop promises.                                                  *)

Entry == [tokens : Nat, drafts : Nat, samples : BOOLEAN]
OutputType == [Req -> Entry]
Counters == [status : {"new", "live", "length", "stopped", "aborted"},
             computed : Nat, output : Nat, owed : Nat, spec : Nat, chunk : BOOLEAN,
             inFlight : Nat, stale : Nat, blocks : Nat]
PassType == [at : Nat, tokens : Nat, inputs : Int, defer : BOOLEAN, short : Nat,
             out : OutputType, over : Seq(Req), later : Seq(Req), preempted : BOOLEAN]
Message == [type : {"add", "abort"}, id : Req]

(* Counters never go below zero, although speculative results take back what *)
(* scheduling had added; the batch queue holds no more than it may.          *)
TypeOK ==
  /\ req \in [Req -> Counters]
  /\ running \in Seq(Req) /\ waiting \in Seq(Req) /\ skipped \in Seq(Req)
  /\ held \subseteq Req /\ step \in 0..(Interval - 1)
  /\ latch \in BOOLEAN /\ unreported \in BOOLEAN
  /\ ring \in Seq(SUBSET Req) /\ Len(ring) <= RingSlots
  /\ stage \in {"idle", "running", "waiting", "built"}
  /\ pass \in PassType
  /\ loop \in {"poll", "coalesce", "step", "schedule", "aborts", "retire"}
  /\ input \in Seq(Message) /\ aborts \subseteq Req /\ sent \subseteq Req
  /\ gaveUp \subseteq sent /\ compiling \subseteq Structured
  /\ arrived \in BOOLEAN
  /\ batch \in Seq(OutputType) /\ parked \in Seq(OutputType)
  /\ Len(batch) + Len(parked) <= QueueSize

(* A live request stands in exactly one place, once: whatever is passed over, *)
(* set aside or preempted in the middle of a pass is neither lost nor doubled. *)
(* A request is only counted as held while it runs.                           *)
Places == running \o pass.over \o skipped \o pass.later \o waiting
QueuedOnce ==
  /\ IsInjective(Places)
  /\ ToSet(Places) = {r \in Req : Live(r)}
  /\ held \subseteq ToSet(running)

\* What the outputs in flight still owe a request, at most.
Due(o, r) == IF o[r].samples THEN o[r].drafts + 1 ELSE 0
InFlight == batch \o parked
Total(f(_, _), r) ==     \* of the two outputs there are at most (TypeOK)
  LET from(i) == IF i <= Len(InFlight) THEN f(InFlight[i], r) ELSE 0
  IN from(1) + from(2)
TokensOf(o, r) == o[r].tokens

(* A running request's placeholders are exactly what the steps in flight may  *)
(* still sample for it, and its position accounts for them (the invariant     *)
(* C = N + O + P - 1 of the end-drain tests).  After a preemption everything   *)
(* in flight is stale, and none of it is counted.                             *)
PlaceholdersBacked ==
  \A r \in Req : Live(r) =>
    /\ req[r].inFlight = Total(TokensOf, r)
    /\ IF req[r].stale > 0
         THEN req[r].stale = req[r].inFlight /\ req[r].owed = 0
         ELSE req[r].owed = Total(Due, r)
    /\ stage = "idle" /\ r \in ToSet(running) /\ ~req[r].chunk =>
         req[r].computed = NumTokens(r) + req[r].owed - 1

(* A throttled step defers prefills only when it can schedule decode work in    *)
(* their place: with prefills waiting or part done, it schedules something.    *)
(* It does so whatever the end-drain hold keeps back, as long as the cache has *)
(* room and no request with structured output runs: the hold leaves those to   *)
(* the vendor's guard, which the decision to defer does not consult.           *)
Prefills == ToSet(waiting) \cup {r \in ToSet(running) : req[r].chunk}
DeferralNeverEmpty ==
  stage = "built" /\ pass.defer /\ Prefills # {} /\ ~pass.preempted
    /\ ToSet(running) \cap Structured = {}
    => Scheduled(pass.out) # {}

(* With the end-drain hold, a request that reaches max_tokens leaves no step   *)
(* behind it in flight.                                                       *)
NoStepPastLengthFinish ==
  \A r \in Req \ Structured : EndDrain /\ req[r].status = "length" =>
    \A i \in DOMAIN InFlight : InFlight[i][r].tokens = 0

(* A result is only waited for when one is in flight: a step kept out of the   *)
(* queue for its grammar always has a predecessor there.                      *)
ResultAwaited == loop \in {"aborts", "retire"} => batch # <<>>

(* The acceptance of every draft is observed: the ring still names the request  *)
(* when its result is read, however long it waited between the hand-out of its *)
(* placeholders and the step that used them.                                   *)
RingCoversResults ==
  loop = "retire" => \A r \in Req :
    Live(r) /\ req[r].stale = 0 /\ batch[1][r].drafts > 0 => r \in UNION ToSet(ring)

(* Prefills set aside on a throttled step return in the order they had: of two *)
(* requests that stay in line, neither overtakes the other.                   *)
Line == Reverse(pass.later) \o waiting
Ahead(x, y) == \E i, j \in DOMAIN Line : i < j /\ Line[i] = x /\ Line[j] = y
LineKeepsOrder ==
  [][\A x, y \in Req : Ahead(x, y) => ~Ahead(y, x)']_vars

(* Whatever is deferred, held back, preempted or starved of tokens, every      *)
(* request sent reaches its end.                                              *)
EveryRequestEnds ==
  \A r \in Req : r \in sent ~> req[r].status \notin {"new", "live"}
=============================================================================
