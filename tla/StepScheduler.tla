---------------------------- MODULE StepScheduler ----------------------------
(***************************************************************************)
(* The scheduler the engine mounts (prefill-step-cap/scheduler.py, on top of *)
(* AsyncScheduler): one call of schedule() walks the running requests and    *)
(* then the waiting ones and hands each a number of tokens; a call of        *)
(* update_from_output() takes a step's result back.  Asynchronous            *)
(* scheduling plans a step before the previous one has been read, so a       *)
(* request carries placeholders for the outputs it is still owed.            *)
(*                                                                         *)
(* E27b lets short prefills through a throttled step, E27c keeps the cadence *)
(* while requests queue, E29 holds back a request that the step in flight    *)
(* may finish, and the step cap bounds one step's tokens.  One action here   *)
(* is one turn of a loop of schedule(); EngineCore composes them.            *)
(***************************************************************************)
EXTENDS Integers, Sequences, FiniteSets, SequencesExt

CONSTANTS
  Req,          \* the requests
  Prompt,       \* tokens of each one's prompt
  MaxTokens,    \* its max_tokens
  Hit,          \* tokens of its prompt the prefix cache supplies
  Publication,  \* positions at which the connector publishes its state
  Structured,   \* the requests with structured output
  Budget,       \* effective_token_cap: target tokens of one step
  Configured,   \* max_num_batched_tokens, the input budget
  DraftSlots,   \* input slots a drafting request takes besides its tokens
  MaxRunning,   \* max_num_seqs
  Interval,     \* prefill_schedule_interval
  Short,        \* VLLM_E27B_SHORT_PREFILL_TOKENS, 0 for the vendor's deferral
  WhenQueued,   \* VLLM_E27C_CADENCE_WHEN_QUEUED
  EndDrain,     \* VLLM_E29_END_DRAIN
  Drafts,       \* num_speculative_tokens_per_batch_size
  KLo, KHi,     \* the draft lengths the adaptive policy chooses from
  Block,        \* tokens of a cache block
  Capacity      \* tokens the KV cache has room for

ASSUME RequestAssumption ==
  /\ Prompt \in [Req -> Nat \ {0}] /\ MaxTokens \in [Req -> Nat \ {0}]
  /\ Hit \in [Req -> Nat] /\ \A r \in Req : Hit[r] < Prompt[r]
  /\ Publication \in [Req -> SUBSET Nat]
  /\ Structured \subseteq Req
ASSUME BudgetAssumption ==
  /\ Budget \in Nat \ {0} /\ Configured \in Nat /\ Budget <= Configured
  /\ DraftSlots \in Nat /\ MaxRunning \in Nat \ {0} /\ Interval \in Nat \ {0}
  /\ Short \in Nat /\ Block \in Nat \ {0} /\ Capacity \in Nat
ASSUME SwitchAssumption == WhenQueued \in BOOLEAN /\ EndDrain \in BOOLEAN
ASSUME DraftsAssumption ==
  /\ Drafts \in [1..MaxRunning -> Nat \ {0}]
  /\ KLo \in Nat \ {0} /\ KHi \in Nat \ {0} /\ KLo <= KHi

VARIABLES
  req,        \* each request's counters
  running,    \* self.running
  waiting,    \* self.waiting
  skipped,    \* self.skipped_waiting
  held,       \* e29_held_ids
  step,       \* current_step, modulo Interval
  latch,      \* prefill_capacity_bound
  unreported, \* finished_req_ids is not empty
  ring,       \* the requests given placeholders by the last hand-outs
  compiling,  \* the requests whose grammar is not compiled yet
  stage,      \* where schedule() stands
  pass        \* its locals

\* What the turns of a pass leave alone.
rest == <<step, latch, unreported, ring, compiling>>
svars == <<req, running, waiting, skipped, held, step, latch, unreported, ring,
           compiling, stage, pass>>

Nothing == [tokens |-> 0, drafts |-> 0, samples |-> FALSE]
Empty == [r \in Req |-> Nothing]          \* an output that schedules nobody

\* A request before it is added, and after it is freed.
Fresh == [status |-> "new", computed |-> 0, output |-> 0, owed |-> 0, spec |-> 0,
          chunk |-> FALSE, inFlight |-> 0, stale |-> 0, blocks |-> 0]

NoPass == [at |-> 1, tokens |-> 0, inputs |-> 0, defer |-> FALSE, short |-> 0,
           out |-> Empty, over |-> <<>>, later |-> <<>>, preempted |-> FALSE]

SInit ==
  /\ req = [r \in Req |-> Fresh]
  /\ running = <<>> /\ waiting = <<>> /\ skipped = <<>>
  /\ held = {} /\ step = 0 /\ latch = FALSE /\ unreported = FALSE
  /\ ring = <<>> /\ compiling = Structured
  /\ stage = "idle" /\ pass = NoPass

NumTokens(r) == Prompt[r] + req[r].output

Smaller(a, b) == IF a <= b THEN a ELSE b
Scheduled(o) == {r \in Req : o[r].tokens > 0}

-----------------------------------------------------------------------------
(* The rules of one step.                                                   *)

\* E27b: a throttled step still admits a prefill this short.
Admits(left) == 0 < left /\ left < Short /\ pass.short + left <= Short

WouldHoldOne(r) ==      \* mutant: the drafts in flight are not counted
  /\ EndDrain /\ ~req[r].chunk /\ r \notin Structured
  /\ req[r].owed > 0 /\ req[r].output + 1 >= MaxTokens[r]

\* E29: the step in flight may already finish this request by length.
WouldHold(r) ==
  /\ EndDrain
  /\ ~req[r].chunk /\ r \notin Structured
  /\ req[r].owed > 0
  /\ req[r].output + req[r].owed >= MaxTokens[r]

\* The vendor's guard: the step in flight is certain to finish it.
SurelyEnds(r) ==
  /\ req[r].owed > 0
  /\ req[r].computed + 2 - req[r].owed >= Prompt[r] + MaxTokens[r]

\* A chunk of a prefill ends on a block boundary, on the last cacheable one
\* and on the boundaries the connector publishes.
Aligned(r, start, want) ==
  LET prefillEnd == IF Prompt[r] > NumTokens(r) - 1 THEN Prompt[r] ELSE NumTokens(r) - 1
      whole == ((start + want) \div Block) * Block
      end == IF start + want < prefillEnd /\ (whole > start \/ Block <= Configured)
               THEN whole ELSE start + want
      lastCacheable == (NumTokens(r) \div Block) * Block
      boundary == IF start % Block # 0 THEN (start \div Block + 1) * Block ELSE 0
      stops == {s \in {boundary, lastCacheable} \cup Publication[r] : start < s /\ s < end}
      stop == IF stops = {} THEN end ELSE CHOOSE s \in stops : \A t \in stops : s <= t
  IN IF start >= prefillEnd THEN want ELSE IF stop > start THEN stop - start ELSE 0

Room == Smaller(pass.tokens, pass.inputs - DraftSlots)
Used(among) == SumFunctionOnSet([r \in Req |-> req[r].blocks], among)

-----------------------------------------------------------------------------
(* schedule(): the start and the running requests.                          *)

AnyDecode ==      \* mutant: the decision to defer does not see the hold
  \E r \in ToSet(running) : ~req[r].chunk

\* A running request can decode on this step.
HasEligibleDecode == \E r \in ToSet(running) : ~req[r].chunk /\ ~WouldHold(r)

Begin ==
  /\ stage = "idle"
  /\ stage' = "running"
  /\ step' = (step + 1) % Interval
  /\ pass' = [NoPass EXCEPT
       !.tokens = Budget, !.inputs = Configured,
       !.defer = /\ step # 0
                 /\ ~latch \/ WhenQueued
                 /\ HasEligibleDecode]
  /\ UNCHANGED <<req, running, waiting, skipped, held, latch, unreported, ring, compiling>>

Visiting(r) ==
  /\ stage = "running"
  /\ pass.at <= Len(running) /\ pass.tokens > 0 /\ pass.inputs > DraftSlots
  /\ r = running[pass.at]

Left(r) == NumTokens(r) - req[r].computed       \* of a prefill
NewTokens(r) ==
  Aligned(r, req[r].computed,
          Smaller(NumTokens(r) + req[r].spec + req[r].owed - req[r].computed, Room))

\* No rule holds it back: a deferred chunk has been counted as a short prefill.
Eligible(r) ==
  /\ Visiting(r) /\ ~SurelyEnds(r) /\ ~WouldHold(r)
  /\ pass.defer /\ req[r].chunk => Admits(Left(r))
ShortAfter(r) == IF pass.defer /\ req[r].chunk THEN pass.short + Left(r) ELSE pass.short

SkipEnding(r) ==
  /\ Visiting(r) /\ SurelyEnds(r)
  /\ pass' = [pass EXCEPT !.at = @ + 1]
  /\ UNCHANGED <<req, running, waiting, skipped, held, rest, stage>>

HoldBack(r) ==
  /\ Visiting(r) /\ ~SurelyEnds(r) /\ WouldHold(r)
  /\ held' = held \cup {r}
  /\ pass' = [pass EXCEPT !.at = @ + 1]
  /\ UNCHANGED <<req, running, waiting, skipped, rest, stage>>

DeferChunk(r) ==
  /\ Visiting(r) /\ ~SurelyEnds(r) /\ ~WouldHold(r)
  /\ pass.defer /\ req[r].chunk /\ ~Admits(Left(r))
  /\ pass' = [pass EXCEPT !.at = @ + 1]
  /\ UNCHANGED <<req, running, waiting, skipped, held, rest, stage>>

\* No whole chunk fits what is left of the step.
SkipEmpty(r) ==
  /\ Eligible(r) /\ NewTokens(r) = 0
  /\ pass' = [pass EXCEPT !.at = @ + 1, !.short = ShortAfter(r)]
  /\ UNCHANGED <<req, running, waiting, skipped, held, rest, stage>>

\* allocate_slots: room for the request once the last n running ones are gone.
FitsWithout(r, n) ==
  LET gone == ToSet(SubSeq(running, Len(running) - n + 1, Len(running)))
      need == IF req[r].blocks > req[r].computed + NewTokens(r)
                THEN req[r].blocks ELSE req[r].computed + NewTokens(r)
  IN Used(Req \ (gone \cup {r})) + need <= Capacity

PreemptedFresh(c) ==      \* mutant: nothing marks what is in flight as stale
  [c EXCEPT !.computed = 0, !.spec = 0, !.owed = 0, !.blocks = 0]

\* Preempting a request forgets what it computed; what is in flight is stale.
Preempted(c) ==
  [c EXCEPT !.computed = 0, !.spec = 0, !.stale = c.inFlight, !.owed = 0, !.blocks = 0]

\* The last n running requests go back to the head of the queue.
Preempt(n) ==
  LET kept == Len(running) - n
      gone == SubSeq(running, kept + 1, Len(running))
  IN /\ running' = SubSeq(running, 1, kept)
     /\ waiting' = gone \o waiting
     /\ held' = held \ ToSet(gone)

Grant(r) ==
  /\ Eligible(r) /\ NewTokens(r) > 0
  /\ \E n \in 0..(Len(running) - pass.at) :
       /\ FitsWithout(r, n) /\ \A m \in 0..(n - 1) : ~FitsWithout(r, m)
       /\ Preempt(n)
       /\ LET new == NewTokens(r)
              drafts == new + req[r].computed - NumTokens(r) - req[r].owed
              need == req[r].computed + new
          IN /\ req' = [q \in Req |->
                  IF q = r THEN [req[r] EXCEPT !.spec = 0,
                                   !.blocks = IF @ > need THEN @ ELSE need]
                  ELSE IF q \in ToSet(running) \ ToSet(running') THEN Preempted(req[q])
                  ELSE req[q]]
             /\ pass' = [pass EXCEPT
                  !.at = @ + 1, !.short = ShortAfter(r),
                  !.tokens = @ - new, !.inputs = @ - new - DraftSlots,
                  !.out[r] = [tokens |-> new, samples |-> FALSE,
                              drafts |-> IF req[r].spec > 0 /\ drafts > 0
                                           THEN drafts ELSE 0],
                  !.preempted = @ \/ n > 0]
  /\ UNCHANGED <<skipped, rest, stage>>

\* Preempting everyone behind it was not enough: it goes too, and the pass ends.
GiveUp(r) ==
  /\ Eligible(r) /\ NewTokens(r) > 0
  /\ \A n \in 0..(Len(running) - pass.at) : ~FitsWithout(r, n)
  /\ Preempt(Len(running) - pass.at + 1)
  /\ req' = [q \in Req |-> IF q \in ToSet(running) \ ToSet(running')
                             THEN Preempted(req[q]) ELSE req[q]]
  /\ pass' = [pass EXCEPT !.short = ShortAfter(r), !.preempted = TRUE]
  /\ stage' = "built"
  /\ UNCHANGED <<skipped, rest>>

\* The waiting pass is skipped when the running one preempted somebody.
EndRunning ==
  /\ stage = "running"
  /\ pass.at > Len(running) \/ pass.tokens = 0 \/ pass.inputs <= DraftSlots
  /\ stage' = IF pass.preempted THEN "built" ELSE "waiting"
  /\ UNCHANGED <<req, running, waiting, skipped, held, rest, pass>>

-----------------------------------------------------------------------------
(* schedule(): the waiting requests, those skipped by earlier steps first.  *)

Candidate(r) ==
  /\ stage = "waiting"
  /\ pass.tokens > 0 /\ pass.inputs > DraftSlots /\ Len(running) < MaxRunning
  /\ IF skipped # <<>> THEN r = Head(skipped) ELSE waiting # <<>> /\ r = Head(waiting)

Pop ==
  IF skipped # <<>> THEN skipped' = Tail(skipped) /\ UNCHANGED waiting
                    ELSE waiting' = Tail(waiting) /\ UNCHANGED skipped

Prefilling(r) == Hit[r] < NumTokens(r) - 1
Deferred(r) ==
  pass.defer /\ Prefilling(r) /\ ~Admits(NumTokens(r) - Hit[r])
FirstChunk(r) == Aligned(r, Hit[r], Smaller(NumTokens(r) - Hit[r], Room))

\* allocate_slots for a newcomer: its whole sequence must fit.
Fits(r) == Used(Req \ {r}) + NumTokens(r) <= Capacity

\* Its grammar is not there, or output from before its preemption is still to come.
Blocked(r) == r \in compiling \/ req[r].stale > 0

PassOver(r) ==
  /\ Candidate(r) /\ Blocked(r)
  /\ Pop
  /\ pass' = [pass EXCEPT !.over = <<r>> \o @]
  /\ UNCHANGED <<req, running, held, rest, stage>>

SetAsideLast(r) ==      \* mutant: those set aside are queued in the order they come back
  /\ Candidate(r) /\ ~Blocked(r)
  /\ Deferred(r) /\ Short > 0
  /\ Pop
  /\ pass' = [pass EXCEPT !.later = Append(@, r)]
  /\ UNCHANGED <<req, running, held, rest, stage>>

\* E27b: a long prefill is set aside, and short ones behind it are looked for.
SetAside(r) ==
  /\ Candidate(r) /\ ~Blocked(r)
  /\ Deferred(r) /\ Short > 0
  /\ Pop
  /\ pass' = [pass EXCEPT !.later = <<r>> \o @]
  /\ UNCHANGED <<req, running, held, rest, stage>>

Admissible(r) ==
  /\ ~Blocked(r) /\ ~Deferred(r)
  /\ FirstChunk(r) > 0 /\ Fits(r)

Admit(r) ==
  /\ Candidate(r) /\ Admissible(r)
  /\ Pop
  /\ running' = Append(running, r)
  /\ req' = [req EXCEPT ![r].computed = Hit[r], ![r].blocks = Hit[r] + FirstChunk(r)]
  /\ pass' = [pass EXCEPT
       !.short = IF pass.defer /\ Prefilling(r) THEN @ + NumTokens(r) - Hit[r] ELSE @,
       !.tokens = @ - FirstChunk(r), !.inputs = @ - FirstChunk(r) - DraftSlots,
       !.out[r] = [tokens |-> FirstChunk(r), drafts |-> 0, samples |-> FALSE]]
  /\ UNCHANGED <<held, rest, stage>>

EndWaitingWithout ==      \* mutant: the prefills set aside are forgotten
  /\ stage = "waiting"
  /\ \A r \in Req : Candidate(r) => ~Blocked(r) /\ (Deferred(r) => Short = 0) /\ ~Admissible(r)
  /\ skipped' = Reverse(pass.over) \o skipped
  /\ latch' = IF pass.defer THEN latch ELSE waiting # <<>>
  /\ pass' = [pass EXCEPT !.over = <<>>, !.later = <<>>]
  /\ stage' = "built"
  /\ UNCHANGED <<req, running, waiting, held, step, unreported, ring, compiling>>

\* The pass ends when it has nothing to look at or its candidate cannot go on.
\* Those it skipped and those it set aside return to the head of their queues,
\* and a step that let prefills through records whether it left any waiting.
EndWaiting ==
  /\ stage = "waiting"
  /\ \A r \in Req :
       Candidate(r) => /\ ~Blocked(r)
                       /\ Deferred(r) => Short = 0
                       /\ ~Admissible(r)
  /\ skipped' = Reverse(pass.over) \o skipped
  /\ waiting' = Reverse(pass.later) \o waiting
  /\ latch' = IF pass.defer THEN latch ELSE waiting' # <<>>
  /\ pass' = [pass EXCEPT !.over = <<>>, !.later = <<>>]
  /\ stage' = "built"
  /\ UNCHANGED <<req, running, held, step, unreported, ring, compiling>>

-----------------------------------------------------------------------------
(* The end of schedule(): _update_after_schedule of both schedulers.        *)

\* A step past the end of its prefill samples a token, and one per draft.  It is
\* given placeholders for the next: as many as the adaptive policy says, within
\* what the table allows for this many requests.
Advanced(r, k) ==
  LET computed == req[r].computed + pass.out[r].tokens
      chunk == computed < NumTokens(r) + req[r].owed
      n == Cardinality(Scheduled(pass.out))
  IN [req[r] EXCEPT
       !.computed = computed, !.chunk = chunk, !.inFlight = @ + pass.out[r].tokens,
       !.owed = IF chunk THEN @ ELSE @ + 1 + pass.out[r].drafts,
       !.spec = IF chunk THEN @ ELSE Smaller(k, Drafts[n])]

Output == [r \in Req |->
  IF pass.out[r].tokens > 0 THEN [pass.out[r] EXCEPT !.samples = ~Advanced(r, KLo).chunk]
  ELSE Nothing]

AnyStructured ==      \* mutant: any structured request of the step keeps it out of the queue
  \E r \in Structured : Output[r].samples

\* A sampling request of the step waits for tokens its grammar has to see first.
PendingStructured ==
  \E r \in Structured : Output[r].samples /\ req[r].owed > 0

\* The hand-outs remembered: a result is read while the next step runs.
RingSlots == 3
PushOne(seq, x) == <<x>>      \* mutant: only the newest is kept
Push(seq, x) ==
  LET longer == Append(seq, x)
  IN IF Len(longer) > RingSlots THEN Tail(longer) ELSE longer

UpdateAfterSchedule(k) ==
  /\ stage = "built"
  /\ req' = [r \in Req |-> IF pass.out[r].tokens > 0 THEN Advanced(r, k) ELSE req[r]]
  /\ ring' = Push(ring, {r \in Req : Output[r].samples})
  /\ held' = held \ Scheduled(pass.out)
  /\ unreported' = FALSE
  /\ stage' = "idle" /\ pass' = NoPass
  /\ UNCHANGED <<running, waiting, skipped, step, latch, compiling>>

-----------------------------------------------------------------------------
(* Requests come, end and are freed.                                        *)

Live(r) == req[r].status = "live"
Unfinished == Len(running) + Len(waiting) + Len(skipped) > 0
HasRequests == Unfinished \/ unreported

\* A request that waits for a grammar joins those skipped.
AddRequest(r) ==
  /\ req' = [req EXCEPT ![r].status = "live"]
  /\ IF r \in Structured THEN skipped' = Append(skipped, r) /\ UNCHANGED waiting
                          ELSE waiting' = Append(waiting, r) /\ UNCHANGED skipped
  /\ UNCHANGED <<running, held, rest, stage, pass>>

\* A pool of threads compiles the grammars, from the moment a request is received.
Compile(r) ==
  /\ r \in compiling
  /\ compiling' = compiling \ {r}
  /\ UNCHANGED <<req, running, waiting, skipped, held, step, latch, unreported, ring,
                 stage, pass>>

\* The entries that stay, each as many places down as entries before it stay.
Without(seq, gone) ==
  LET kept == {i \in DOMAIN seq : seq[i] \notin gone}
      rank(i) == Cardinality({j \in kept : j <= i})
  IN [n \in 1..Cardinality(kept) |-> seq[CHOOSE i \in kept : rank(i) = n]]
Freed(why) == [Fresh EXCEPT !.status = why]

LeaveRunning(gone) ==      \* mutant: a finished request leaves the running ones only
  /\ running' = Without(running, gone)
  /\ held' = held \ gone
  /\ unreported' = (unreported \/ gone # {})
  /\ UNCHANGED <<waiting, skipped>>

\* _free_request for each of gone, leaving the queues.
Leave(gone) ==
  /\ running' = Without(running, gone)
  /\ waiting' = Without(waiting, gone)
  /\ skipped' = Without(skipped, gone)
  /\ held' = held \ gone
  /\ unreported' = (unreported \/ gone # {})

FinishRequests(gone) ==
  /\ req' = [r \in Req |-> IF r \in gone THEN Freed("aborted") ELSE req[r]]
  /\ Leave(gone)
  /\ UNCHANGED <<step, latch, ring, compiling, stage, pass>>

CountsAll(r) == r \in Req      \* mutant: stale output counts like any other

\* What was in flight when a request was preempted no longer counts.
Counts(r) == req[r].stale = 0

\* update_from_output for the output o: gen[r] tokens came back for each request
\* that sampled, and those of eos met a stop token.
UpdateFromOutput(o, gen, eos) ==
  LET mine == {r \in Scheduled(o) : Live(r)}
      taken == [r \in Req |-> Smaller(gen[r], MaxTokens[r] - req[r].output)]
      byLength == {r \in mine : o[r].samples /\ req[r].output + taken[r] >= MaxTokens[r]}
      stopped == {r \in mine : o[r].samples /\ r \in eos} \cup byLength
      rejected == [r \in Req |-> o[r].drafts + 1 - gen[r]]
      after(r) ==
        LET late == [req[r] EXCEPT
                       !.inFlight = @ - o[r].tokens,
                       !.stale = IF Counts(r) THEN 0 ELSE @ - o[r].tokens,
                       !.output = IF o[r].samples THEN @ + taken[r] ELSE @]
        IN IF Counts(r) /\ o[r].samples
             THEN [late EXCEPT !.computed = @ - rejected[r],
                               !.owed = @ - rejected[r] - taken[r]]
             ELSE late
  IN /\ req' = [r \in Req |-> IF r \in byLength THEN Freed("length")
                              ELSE IF r \in stopped THEN Freed("stopped")
                              ELSE IF r \in mine THEN after(r) ELSE req[r]]
     /\ Leave(stopped)
     /\ UNCHANGED <<step, latch, ring, compiling, stage, pass>>
=============================================================================
